--------------------------- MODULE SurfacesProofs ---------------------------
(***************************************************************************)
(* The safety of Surfaces, for any surfaces and window addresses and any   *)
(* number of allocation failures.  The invariants the run checks need two  *)
(* more facts: the workspace holds each window once (Orderly), so that a   *)
(* window that is removed is gone; and a surface with an xdg_surface has a *)
(* be_window_t (Backed).                                                   *)
(***************************************************************************)
EXTENDS Surfaces, QueueProofs, FiniteSetTheorems

Orderly ==
  /\ visible \subseteq Window /\ waiting \in Seq(Window)
  /\ Distinct(waiting) /\ Elems(waiting) \cap visible = {}
  /\ keyboard \in visible \cup {NULL}

Backed == \A s \in Surface : role[s] \in {"xdg", "mapped"} => be_window[s]

Hooked ==
  \A w \in Allocated :
    /\ role[owner[w]] = "mapped"
    /\ venowm_data[owner[w]] = w

(* Without failures the hook of a mapped surface is its own window. *)
OwnHook ==
  failures = 0 => \A s \in Surface : role[s] = "mapped" =>
    venowm_data[s] \in Allocated /\ owner[venowm_data[s]] = s

Kept ==
  /\ Managed \subseteq Allocated
  /\ failures = 0 => Allocated = Managed

Live == Backed /\ Hooked /\ OwnHook /\ Kept

IInv == TypeOK /\ Orderly /\ (fault = "none" => Live)

-----------------------------------------------------------------------------
(* What each move of the window manager does to the windows it manages.     *)

(* Placement brings its own copy of Queues. *)
LEMMA SameQueues ==
  /\ \A q : WM!Elems(q) = Elems(q) /\ (WM!Distinct(q) <=> Distinct(q))
  /\ \A q, x : WM!Without(q, x) = Without(q, x)
<1>1. \A q : WM!Elems(q) = Elems(q)
  BY DEF WM!Elems, Elems
<1>2. \A q : WM!Distinct(q) <=> Distinct(q)
  BY DEF WM!Distinct, Distinct
<1>3. \A q, x : WM!Without(q, x) = Without(q, x)
  BY <1>1 DEF WM!Without, Without
<1> QED BY <1>1, <1>2, <1>3

LEMMA SameCardinality == \A S : WM!Cardinality(S) = Cardinality(S)
BY DEF WM!Cardinality, Cardinality

LEMMA LineIsQueue ==
  ASSUME NEW old \in Window \cup {NULL}
  PROVE  /\ WM!Line(old) \in Seq(Window) /\ Distinct(WM!Line(old))
         /\ Elems(WM!Line(old)) = {old} \ {NULL}
<1>1. CASE old = NULL
  BY <1>1 DEF WM!Line, Elems, Distinct
<1>2. CASE old # NULL
  <2>1. old \in Window /\ WM!Line(old) = <<old>>
    BY <1>2 DEF WM!Line
  <2> QED BY <2>1, <1>2, ElemsOfOne
<1> QED BY <1>1, <1>2

LEMMA MapAdds ==
  ASSUME Orderly, NEW w \in Window, NEW old \in visible \cup {NULL}, WM!Map(w, old)
  PROVE  Orderly' /\ Managed' = Managed \cup {w} /\ w \notin Managed
<1>1. /\ w \notin visible /\ w \notin Elems(waiting)
      /\ visible' = (visible \ {old}) \cup {w}
      /\ waiting' = waiting \o WM!Line(old) /\ keyboard' = w
  BY SameQueues DEF WM!Map
<1>2. /\ WM!Line(old) \in Seq(Window) /\ Distinct(WM!Line(old))
      /\ Elems(WM!Line(old)) = {old} \ {NULL}
  BY LineIsQueue DEF Orderly
<1>3. Elems(waiting) \cap Elems(WM!Line(old)) = {}
  BY <1>2 DEF Orderly
<1>4. /\ waiting' \in Seq(Window) /\ Distinct(waiting')
      /\ Elems(waiting') = Elems(waiting) \cup ({old} \ {NULL})
  BY <1>1, <1>2, <1>3, ElemsOfConcat DEF Orderly
<1> QED BY <1>1, <1>4, NullIsNoWindow DEF Orderly, Managed

LEMMA UnmapRemoves ==
  ASSUME Orderly, NEW w \in Window, WM!UnmapWaiting(w) \/ WM!UnmapVisible(w)
  PROVE  Orderly' /\ Managed' = Managed \ {w}
<1>1. CASE WM!UnmapWaiting(w)
  <2>1. /\ waiting' \in Seq(Window) /\ Distinct(waiting')
        /\ Elems(waiting') = Elems(waiting) \ {w}
    BY <1>1, SameQueues, ElemsOfWithout DEF WM!UnmapWaiting, Orderly
  <2>2. w \in Elems(waiting) /\ UNCHANGED <<visible, keyboard>>
    BY <1>1, SameQueues DEF WM!UnmapWaiting
  <2> QED BY <2>1, <2>2 DEF Orderly, Managed
<1>2. CASE WM!UnmapVisible(w) /\ waiting = <<>>
  <2>1. /\ w \in visible /\ visible' = visible \ {w} /\ waiting' = waiting
        /\ keyboard' = IF keyboard = w THEN NULL ELSE keyboard
    BY <1>2 DEF WM!UnmapVisible
  <2> QED BY <2>1 DEF Orderly, Managed
<1>3. CASE WM!UnmapVisible(w) /\ waiting # <<>>
  <2> DEFINE next == Head(waiting)
  <2>1. /\ w \in visible /\ visible' = (visible \ {w}) \cup {next}
        /\ keyboard' = next /\ waiting' = Tail(waiting)
    BY <1>3 DEF WM!UnmapVisible
  <2>2. /\ next \in Window /\ next \in Elems(waiting)
        /\ waiting' \in Seq(Window) /\ Distinct(waiting')
        /\ Elems(waiting') = Elems(waiting) \ {next}
    BY <1>3, <2>1, ElemsOfTail DEF Orderly
  <2> HIDE DEF next
  <2> QED BY <2>1, <2>2 DEF Orderly, Managed
<1> QED BY <1>1, <1>2, <1>3

LEMMA AdvanceKeeps ==
  ASSUME Orderly, NEW old \in visible \cup {NULL}, WM!Advance(old)
  PROVE  Orderly' /\ Managed' = Managed
<1> DEFINE next == Head(waiting)  rest == Tail(waiting)
<1>1. /\ waiting # <<>> /\ visible' = (visible \ {old}) \cup {next}
      /\ waiting' = rest \o WM!Line(old) /\ keyboard' = next
  BY DEF WM!Advance
<1>2. /\ next \in Window /\ next \in Elems(waiting)
      /\ rest \in Seq(Window) /\ Distinct(rest)
      /\ Elems(rest) = Elems(waiting) \ {next}
  BY <1>1, ElemsOfTail DEF Orderly
<1> HIDE DEF next, rest
<1>3. /\ WM!Line(old) \in Seq(Window) /\ Distinct(WM!Line(old))
      /\ Elems(WM!Line(old)) = {old} \ {NULL}
  BY LineIsQueue DEF Orderly
<1>4. Elems(rest) \cap Elems(WM!Line(old)) = {}
  BY <1>2, <1>3 DEF Orderly
<1>5. /\ waiting' \in Seq(Window) /\ Distinct(waiting')
      /\ Elems(waiting') = (Elems(waiting) \ {next}) \cup ({old} \ {NULL})
  BY <1>1, <1>2, <1>3, <1>4, ElemsOfConcat
<1> QED BY <1>1, <1>2, <1>5, NullIsNoWindow DEF Orderly, Managed

LEMMA RetreatKeeps ==
  ASSUME Orderly, NEW old \in visible \cup {NULL}, WM!Retreat(old)
  PROVE  Orderly' /\ Managed' = Managed
<1> DEFINE last == waiting[Len(waiting)]
           rest == SubSeq(waiting, 1, Len(waiting) - 1)
<1>1. /\ waiting # <<>> /\ visible' = (visible \ {old}) \cup {last}
      /\ waiting' = WM!Line(old) \o rest /\ keyboard' = last
  BY DEF WM!Retreat
<1>2. /\ last \in Window /\ last \in Elems(waiting)
      /\ rest \in Seq(Window) /\ Distinct(rest)
      /\ Elems(rest) = Elems(waiting) \ {last}
  BY <1>1, ElemsOfFront DEF Orderly
<1> HIDE DEF last, rest
<1>3. /\ WM!Line(old) \in Seq(Window) /\ Distinct(WM!Line(old))
      /\ Elems(WM!Line(old)) = {old} \ {NULL}
  BY LineIsQueue DEF Orderly
<1>4. Elems(WM!Line(old)) \cap Elems(rest) = {}
  BY <1>2, <1>3 DEF Orderly
<1>5. /\ waiting' \in Seq(Window) /\ Distinct(waiting')
      /\ Elems(waiting') = ({old} \ {NULL}) \cup (Elems(waiting) \ {last})
  BY <1>1, <1>2, <1>3, <1>4, ElemsOfConcat
<1> QED BY <1>1, <1>2, <1>5, NullIsNoWindow DEF Orderly, Managed

LEMMA CoverKeeps ==
  ASSUME Orderly, NEW old \in visible, WM!Cover(old)
  PROVE  Orderly' /\ Managed' = Managed
<1>1. /\ visible' = visible \ {old} /\ waiting' = waiting \o WM!Line(old)
      /\ keyboard' \in visible' \cup {NULL}
  BY DEF WM!Cover
<1>2. /\ WM!Line(old) \in Seq(Window) /\ Distinct(WM!Line(old))
      /\ Elems(WM!Line(old)) = {old} \ {NULL}
  BY LineIsQueue DEF Orderly
<1>3. Elems(waiting) \cap Elems(WM!Line(old)) = {}
  BY <1>2 DEF Orderly
<1>4. /\ waiting' \in Seq(Window) /\ Distinct(waiting')
      /\ Elems(waiting') = Elems(waiting) \cup {old}
  BY <1>1, <1>2, <1>3, NullIsNoWindow, ElemsOfConcat DEF Orderly
<1> QED BY <1>1, <1>4 DEF Orderly, Managed

LEMMA EvictKeeps ==
  ASSUME Orderly, NEW lost \in SUBSET visible, WM!Evict(lost)
  PROVE  Orderly' /\ Managed' = Managed
<1>1. PICK order \in WM!Orderings(lost) : waiting' = waiting \o order
  BY DEF WM!Evict
<1>2. Cardinality(lost) \in Nat
  <2>1. lost \subseteq Window
    BY DEF Orderly
  <2> QED BY <2>1, WindowIsFinite, FS_Subset, FS_CardinalityType
<1>3. /\ order \in [1..Cardinality(lost) -> lost]
      /\ Distinct(order) /\ Elems(order) = lost
  <2>1. /\ order \in [1..Cardinality(lost) -> lost]
        /\ WM!Distinct(order) /\ WM!Elems(order) = lost
    BY <1>1, SameCardinality DEF WM!Orderings
  <2> QED BY <2>1, SameQueues
<1>4. order \in Seq(Window)
  BY <1>2, <1>3 DEF Orderly
<1>5. Elems(waiting) \cap Elems(order) = {}
  BY <1>3 DEF Orderly
<1>6. /\ waiting' \in Seq(Window) /\ Distinct(waiting')
      /\ Elems(waiting') = Elems(waiting) \cup lost
  BY <1>1, <1>3, <1>4, <1>5, ElemsOfConcat DEF Orderly
<1>7. /\ visible' = visible \ lost
      /\ keyboard' = IF keyboard \in lost THEN NULL ELSE keyboard
  BY DEF WM!Evict
<1> QED BY <1>6, <1>7 DEF Orderly, Managed

LEMMA UncoverKeeps ==
  ASSUME Orderly, WM!Uncover \/ WM!MoveKeyboard
  PROVE  Orderly' /\ Managed' = Managed
<1>1. CASE WM!Uncover
  <2> DEFINE next == Head(waiting)
  <2>1. /\ waiting # <<>> /\ visible' = visible \cup {next}
        /\ waiting' = Tail(waiting) /\ keyboard' = keyboard
    BY <1>1 DEF WM!Uncover
  <2>2. /\ next \in Window /\ next \in Elems(waiting)
        /\ waiting' \in Seq(Window) /\ Distinct(waiting')
        /\ Elems(waiting') = Elems(waiting) \ {next}
    BY <2>1, ElemsOfTail DEF Orderly
  <2> HIDE DEF next
  <2> QED BY <2>1, <2>2 DEF Orderly, Managed
<1>2. CASE WM!MoveKeyboard
  BY <1>2 DEF WM!MoveKeyboard, Orderly, Managed
<1> QED BY <1>1, <1>2
-----------------------------------------------------------------------------
(* The handlers.                                                            *)

LEMMA InitHolds == Init => IInv
<1> SUFFICES ASSUME Init PROVE IInv
  OBVIOUS
<1>1. /\ visible = {} /\ waiting = <<>> /\ keyboard = NULL
      /\ role = [s \in Surface |-> "none"]
      /\ be_window = [s \in Surface |-> FALSE]
      /\ venowm_data = [s \in Surface |-> NULL]
      /\ owner = [w \in Window |-> NULL]
      /\ failures = 0 /\ fault = "none"
  BY DEF Init, WM!Init
<1>2. Elems(waiting) = {} /\ Distinct(waiting) /\ waiting \in Seq(Window)
  BY <1>1 DEF Elems, Distinct
<1>3. Orderly
  BY <1>1, <1>2 DEF Orderly
<1>4. TypeOK
  BY <1>1, <1>2, FailuresAreBounded DEF TypeOK, Roles, Faults
<1>5. Allocated = {} /\ Managed = {}
  BY <1>1, <1>2 DEF Allocated, Managed
<1>6. Live
  BY <1>1, <1>5 DEF Live, Backed, Hooked, OwnHook, Kept
<1> QED BY <1>3, <1>4, <1>6 DEF IInv

LEMMA MallocCounts ==
  ASSUME TypeOK, NEW ok \in BOOLEAN, Malloc(ok)
  PROVE  /\ failures' \in 0..MaxFailures
         /\ failures' = 0 => failures = 0 /\ ok = TRUE
BY FailuresAreBounded DEF Malloc, TypeOK

LEMMA NewSurfaceKeeps ==
  ASSUME IInv, fault = "none", NEW s \in Surface, NEW ok \in BOOLEAN,
         handle_new_surface(s, ok)
  PROVE  IInv'
<1> USE DEF IInv
<1>1. /\ role[s] = "none" /\ role' = [role EXCEPT ![s] = "plain"]
      /\ be_window' = [be_window EXCEPT ![s] = ok]
      /\ venowm_data' = [venowm_data EXCEPT ![s] = NULL]
      /\ UNCHANGED <<owner, visible, waiting, keyboard, fault>> /\ Malloc(ok)
  BY DEF handle_new_surface, managed
<1>2. TypeOK' /\ Orderly'
  BY <1>1, MallocCounts DEF TypeOK, Orderly, Roles
<1>3. Allocated' = Allocated /\ Managed' = Managed
  BY <1>1 DEF Allocated, Managed
<1>4. Backed' /\ Hooked'
  BY <1>1, <1>3 DEF Live, Backed, Hooked, Allocated, TypeOK
<1>5. OwnHook' /\ Kept'
  BY <1>1, <1>3, MallocCounts DEF Live, OwnHook, Kept, TypeOK
<1> QED BY <1>2, <1>3, <1>4, <1>5 DEF Live

LEMMA ShellNewKeeps ==
  ASSUME IInv, fault = "none", NEW s \in Surface, handle_xdg_shell_new(s)
  PROVE  IInv'
<1> USE DEF IInv
<1>1. /\ role[s] = "plain" /\ role' = [role EXCEPT ![s] = "xdg"]
      /\ fault' = IF be_window[s] THEN fault ELSE "exit"
      /\ UNCHANGED <<be_window, venowm_data, owner, visible, waiting, keyboard, failures>>
  BY DEF handle_xdg_shell_new, managed
<1>2. TypeOK' /\ Orderly'
  BY <1>1 DEF TypeOK, Orderly, Roles, Faults
<1>3. Allocated' = Allocated /\ Managed' = Managed
  BY <1>1 DEF Allocated, Managed
<1>4. ASSUME fault' = "none" PROVE Live'
  <2>1. Backed'
    BY <1>1, <1>4 DEF Live, Backed, TypeOK
  <2>2. Hooked'
    BY <1>1, <1>3 DEF Live, Hooked, Allocated, TypeOK
  <2>3. OwnHook' /\ Kept'
    BY <1>1, <1>3 DEF Live, OwnHook, Kept, TypeOK
  <2> QED BY <1>3, <2>1, <2>2, <2>3 DEF Live
<1> QED BY <1>2, <1>4

LEMMA MappedKeeps ==
  ASSUME IInv, fault = "none", NEW s \in Surface, handle_xdg_mapped(s)
  PROVE  IInv'
<1> USE DEF IInv
<1>1. /\ role[s] = "xdg" /\ role' = [role EXCEPT ![s] = "mapped"]
      /\ UNCHANGED <<be_window, fault>>
  BY DEF handle_xdg_mapped
<1>2. Backed'
  BY <1>1 DEF Live, Backed, TypeOK
<1>3. ASSUME NEW w \in Window \ Allocated, NEW old \in visible \cup {NULL},
             owner' = [owner EXCEPT ![w] = s],
             venowm_data' = [venowm_data EXCEPT ![s] = w],
             WM!Map(w, old), Malloc(TRUE)
      PROVE  IInv'
  <2>1. Orderly' /\ Managed' = Managed \cup {w}
    BY <1>3, MapAdds
  <2>2. failures' = failures
    BY <1>3 DEF Malloc
  <2>3. Allocated' = Allocated \cup {w}
    BY <1>3, NullIsNoWindow DEF Allocated, TypeOK
  <2>4. TypeOK'
    BY <1>1, <1>3, <2>1, <2>2 DEF TypeOK, Orderly, Roles
  <2>5. Hooked'
    BY <1>1, <1>3, <2>3 DEF Live, Hooked, Allocated, TypeOK
  <2>6. OwnHook'
    BY <1>1, <1>3, <2>2, <2>3 DEF Live, OwnHook, Allocated, TypeOK
  <2>7. Kept'
    BY <2>1, <2>2, <2>3 DEF Live, Kept
  <2> QED BY <1>2, <2>1, <2>4, <2>5, <2>6, <2>7 DEF Live
<1>4. ASSUME Malloc(FALSE), UNCHANGED <<owner, venowm_data, managed>>
      PROVE  IInv'
  <2>1. UNCHANGED <<visible, waiting, keyboard, owner, venowm_data>>
    BY <1>4 DEF managed
  <2>2. failures' \in 0..MaxFailures /\ failures' # 0
    BY <1>4, FailuresAreBounded DEF Malloc, TypeOK
  <2>3. Allocated' = Allocated /\ Managed' = Managed
    BY <2>1 DEF Allocated, Managed
  <2>4. TypeOK' /\ Orderly'
    BY <1>1, <2>1, <2>2 DEF TypeOK, Orderly, Roles
  <2>5. Hooked' /\ OwnHook' /\ Kept'
    BY <1>1, <2>1, <2>2, <2>3 DEF Live, Hooked, OwnHook, Kept, Allocated, TypeOK
  <2> QED BY <1>2, <2>4, <2>5 DEF Live
<1>5. ASSUME NEW w \in Window \ Allocated,
             owner' = [owner EXCEPT ![w] = s],
             venowm_data' = [venowm_data EXCEPT ![s] = w],
             UNCHANGED managed, Malloc(FALSE)
      PROVE  IInv'
  <2>1. UNCHANGED <<visible, waiting, keyboard>>
    BY <1>5 DEF managed
  <2>2. failures' \in 0..MaxFailures /\ failures' # 0
    BY <1>5, FailuresAreBounded DEF Malloc, TypeOK
  <2>3. Allocated' = Allocated \cup {w} /\ Managed' = Managed
    BY <1>5, <2>1, NullIsNoWindow DEF Allocated, Managed, TypeOK
  <2>4. TypeOK' /\ Orderly'
    BY <1>1, <1>5, <2>1, <2>2 DEF TypeOK, Orderly, Roles
  <2>5. Hooked'
    BY <1>1, <1>5, <2>3 DEF Live, Hooked, Allocated, TypeOK
  <2>6. OwnHook' /\ Kept'
    BY <2>2, <2>3 DEF Live, OwnHook, Kept
  <2> QED BY <1>2, <2>4, <2>5, <2>6 DEF Live
<1> QED BY <1>3, <1>4, <1>5 DEF handle_xdg_mapped

LEMMA UnmappedKeeps ==
  ASSUME IInv, fault = "none", NEW s \in Surface, handle_xdg_unmapped(s)
  PROVE  IInv'
<1> USE DEF IInv
<1> DEFINE w == venowm_data[s]
<1>1. /\ role[s] = "mapped" /\ role' = [role EXCEPT ![s] = "xdg"]
      /\ UNCHANGED <<be_window, venowm_data, failures>>
  BY DEF handle_xdg_unmapped
<1>2. Backed'
  BY <1>1 DEF Live, Backed, TypeOK
<1>3. \A x \in Allocated : owner[x] = s => x = w
  BY DEF Live, Hooked
<1>4. CASE w \notin Allocated
  <2>1. UNCHANGED <<owner, visible, waiting, keyboard>> /\ fault' \in Faults
    BY <1>4 DEF handle_xdg_unmapped, handle_window_destroy, managed, TypeOK, Faults
  <2>2. Allocated' = Allocated /\ Managed' = Managed
    BY <2>1 DEF Allocated, Managed
  <2>3. TypeOK' /\ Orderly'
    BY <1>1, <2>1 DEF TypeOK, Orderly, Roles
  <2>4. Hooked' /\ OwnHook' /\ Kept'
    BY <1>1, <1>3, <1>4, <2>1, <2>2 DEF Live, Hooked, OwnHook, Kept, Allocated, TypeOK
  <2> QED BY <1>2, <2>3, <2>4 DEF Live
<1>5. CASE w \in Allocated
  <2>1. w \in Window /\ w # NULL
    BY <1>5, NullIsNoWindow DEF Allocated
  <2>2. /\ owner' = [owner EXCEPT ![w] = NULL] /\ fault' = fault
        /\ IF w \in Managed THEN WM!UnmapWaiting(w) \/ WM!UnmapVisible(w)
           ELSE UNCHANGED managed
    BY <1>5, <2>1 DEF handle_xdg_unmapped, handle_window_destroy
  <2>3. Orderly' /\ Managed' = Managed \ {w}
    <3>1. CASE w \in Managed
      BY <3>1, <2>1, <2>2, UnmapRemoves
    <3>2. CASE w \notin Managed
      BY <3>2, <2>2 DEF managed, Managed, Orderly
    <3> QED BY <3>1, <3>2
  <2>4. Allocated' = Allocated \ {w}
    BY <2>1, <2>2 DEF Allocated, TypeOK
  <2>5. TypeOK'
    BY <1>1, <2>1, <2>2, <2>3 DEF TypeOK, Orderly, Roles
  <2>6. Hooked'
    BY <1>1, <1>3, <2>2, <2>4 DEF Live, Hooked, Allocated, TypeOK
  <2>7. OwnHook'
    <3> SUFFICES ASSUME failures = 0, NEW r \in Surface, r # s, role[r] = "mapped"
                 PROVE  venowm_data[r] \in Allocated' /\ owner'[venowm_data[r]] = r
      BY <1>1 DEF OwnHook, TypeOK
    <3>1. /\ venowm_data[r] \in Allocated /\ owner[venowm_data[r]] = r
          /\ owner[w] = s
      BY <1>1 DEF Live, OwnHook
    <3>2. venowm_data[r] # w
      BY <3>1
    <3> QED BY <3>1, <3>2, <2>2, <2>4 DEF TypeOK, Allocated
  <2>8. Kept'
    BY <1>1, <2>3, <2>4 DEF Live, Kept
  <2> QED BY <1>2, <2>3, <2>5, <2>6, <2>7, <2>8 DEF Live
<1> QED BY <1>4, <1>5

LEMMA XdgDestroyedKeeps ==
  ASSUME IInv, fault = "none", NEW s \in Surface, handle_xdg_destroyed(s)
  PROVE  IInv'
<1> USE DEF IInv
<1>1. /\ role[s] = "xdg" /\ role' = [role EXCEPT ![s] = "plain"]
      /\ keyboard' = IF keyboard # NULL /\ owner[keyboard] = s THEN NULL ELSE keyboard
      /\ UNCHANGED <<be_window, venowm_data, owner, visible, waiting, failures, fault>>
  BY DEF handle_xdg_destroyed
<1>2. TypeOK' /\ Orderly'
  BY <1>1 DEF TypeOK, Orderly, Roles
<1>3. Allocated' = Allocated /\ Managed' = Managed
  BY <1>1 DEF Allocated, Managed
<1>4. Backed' /\ Hooked' /\ OwnHook' /\ Kept'
  BY <1>1, <1>3 DEF Live, Backed, Hooked, OwnHook, Kept, Allocated, TypeOK
<1> QED BY <1>2, <1>4 DEF Live

LEMMA SurfaceDestroyedKeeps ==
  ASSUME IInv, fault = "none", NEW s \in Surface, handle_wlr_surface_destroyed(s)
  PROVE  IInv'
<1> USE DEF IInv
<1>1. /\ role[s] # "none" /\ role' = [role EXCEPT ![s] = "none"]
      /\ be_window' = [be_window EXCEPT ![s] = FALSE]
      /\ fault' = IF role[s] = "plain" THEN fault ELSE "be_window"
      /\ UNCHANGED <<venowm_data, owner, visible, waiting, keyboard, failures>>
  BY DEF handle_wlr_surface_destroyed, managed
<1>2. TypeOK' /\ Orderly'
  BY <1>1 DEF TypeOK, Orderly, Roles, Faults
<1>3. Allocated' = Allocated /\ Managed' = Managed
  BY <1>1 DEF Allocated, Managed
<1>4. ASSUME fault' = "none" PROVE Live'
  <2>1. role[s] = "plain"
    BY <1>1, <1>4
  <2>2. Backed'
    BY <1>1 DEF Live, Backed, TypeOK
  <2>3. Hooked' /\ OwnHook' /\ Kept'
    BY <1>1, <1>3, <2>1 DEF Live, Hooked, OwnHook, Kept, Allocated, TypeOK
  <2> QED BY <1>3, <2>2, <2>3 DEF Live
<1> QED BY <1>2, <1>4

LEMMA RearrangeKeeps ==
  ASSUME IInv, fault = "none", rearrange
  PROVE  IInv'
<1> USE DEF IInv
<1>1. UNCHANGED <<role, be_window, venowm_data, owner, failures, fault>>
  BY DEF rearrange
<1>2. Orderly' /\ Managed' = Managed
  BY AdvanceKeeps, RetreatKeeps, CoverKeeps, EvictKeeps, UncoverKeeps DEF rearrange
<1>3. Allocated' = Allocated
  BY <1>1 DEF Allocated
<1>4. TypeOK'
  BY <1>1, <1>2 DEF TypeOK, Orderly
<1>5. Backed' /\ Hooked' /\ OwnHook' /\ Kept'
  BY <1>1, <1>2, <1>3 DEF Live, Backed, Hooked, OwnHook, Kept
<1> QED BY <1>2, <1>4, <1>5 DEF Live

(* Every step keeps the inductive invariant. *)
LEMMA NextKeeps == IInv /\ [Next]_vars => IInv'
<1> SUFFICES ASSUME IInv, [Next]_vars PROVE IInv'
  OBVIOUS
<1>1. CASE UNCHANGED vars
  BY <1>1 DEF vars, IInv, TypeOK, Orderly, Live, Backed, Hooked, OwnHook, Kept, Allocated, Managed
<1>2. CASE Next
  BY <1>2, NewSurfaceKeeps, ShellNewKeeps, MappedKeeps, UnmappedKeeps,
     XdgDestroyedKeeps, SurfaceDestroyedKeeps, RearrangeKeeps DEF Next
<1> QED BY <1>1, <1>2

-----------------------------------------------------------------------------
(* Everything holds together, always. *)
THEOREM AlwaysIInv == Spec => []IInv
BY InitHolds, NextKeeps, PTL DEF Spec

(* The handlers of surfaces keep every variable in its type. *)
THEOREM SurfaceTypeCorrect == Spec => []TypeOK
BY AlwaysIInv, PTL DEF IInv

(* What the workspace manages is mapped and has everything it points down to, *)
(* until freed memory is used for the first time.                           *)
THEOREM WindowsAreMapped == Spec => []ManagedIsMapped
<1>1. IInv => ManagedIsMapped
  <2> SUFFICES ASSUME IInv, fault = "none", NEW w \in Managed \cup ({keyboard} \ {NULL})
               PROVE  /\ w \in Allocated
                      /\ role[owner[w]] = "mapped" /\ be_window[owner[w]]
                      /\ venowm_data[owner[w]] = w
    BY DEF ManagedIsMapped
  <2>1. w \in Allocated
    BY DEF IInv, Live, Kept, Orderly, Managed
  <2>2. role[owner[w]] = "mapped" /\ venowm_data[owner[w]] = w
    BY <2>1 DEF IInv, Live, Hooked
  <2>3. owner[w] \in Surface
    BY <2>1 DEF IInv, TypeOK, Allocated
  <2> QED BY <2>1, <2>2, <2>3 DEF IInv, Live, Backed
<1> QED BY <1>1, AlwaysIInv, PTL

(* A window_t is freed with the last reference to it, neither before nor after. *)
THEOREM WindowsAreFreedInTime == Spec => []FreedWithLastReference
<1>1. IInv => FreedWithLastReference
  BY DEF IInv, Live, Hooked, Kept, FreedWithLastReference
<1> QED BY <1>1, AlwaysIInv, PTL

(* Without failures every mapped surface has its window in the workspace. *)
THEOREM SurfacesAreManaged == Spec => []MappedIsManaged
<1>1. IInv => MappedIsManaged
  BY DEF IInv, Live, OwnHook, Kept, MappedIsManaged
<1> QED BY <1>1, AlwaysIInv, PTL
=============================================================================
