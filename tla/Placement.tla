----------------------------- MODULE Placement -----------------------------
(***************************************************************************)
(* What the window manager promises about windows, without frames, trees   *)
(* and screens: every window is either visible or waits in one queue.  A   *)
(* window that has to make way joins the queue at its end, the window that *)
(* waited longest is the next to become visible, and the keyboard is with  *)
(* a visible window or with nobody.  Workspace implements this.            *)
(***************************************************************************)
EXTENDS Queues

CONSTANTS Window, NULL

VARIABLES
  visible,   \* the windows the user can see
  waiting,   \* the others, the one that is next to become visible first
  keyboard   \* the window that gets the keys, or NULL

placed == <<visible, waiting, keyboard>>

(* The queue of at most one window. *)
Line(w) == IF w = NULL THEN <<>> ELSE <<w>>

Init == visible = {} /\ waiting = <<>> /\ keyboard = NULL

(* A new window takes the place of old, or an empty place when old is NULL, *)
(* and gets the keyboard.                                                   *)
Map(w, old) ==
  /\ w \notin visible /\ w \notin Elems(waiting)
  /\ visible' = (visible \ {old}) \cup {w}
  /\ waiting' = waiting \o Line(old)
  /\ keyboard' = w

UnmapWaiting(w) ==
  /\ w \in Elems(waiting)
  /\ waiting' = Without(waiting, w)
  /\ UNCHANGED <<visible, keyboard>>

(* The place of a visible window goes to the window that waited longest,    *)
(* and the keyboard with it.                                                *)
UnmapVisible(w) ==
  /\ w \in visible
  /\ IF waiting = <<>>
     THEN /\ visible' = visible \ {w}
          /\ keyboard' = IF keyboard = w THEN NULL ELSE keyboard
          /\ UNCHANGED waiting
     ELSE /\ visible' = (visible \ {w}) \cup {Head(waiting)}
          /\ keyboard' = Head(waiting)
          /\ waiting' = Tail(waiting)

(* A new place appears and the window that waited longest fills it. *)
Uncover ==
  /\ waiting # <<>>
  /\ visible' = visible \cup {Head(waiting)}
  /\ waiting' = Tail(waiting)
  /\ UNCHANGED keyboard

(* The queue turns by one window at one place, in either direction. *)
Advance(old) ==
  /\ waiting # <<>>
  /\ visible' = (visible \ {old}) \cup {Head(waiting)}
  /\ waiting' = Tail(waiting) \o Line(old)
  /\ keyboard' = Head(waiting)

Retreat(old) ==
  /\ waiting # <<>>
  /\ LET last == Len(waiting)
     IN  /\ visible' = (visible \ {old}) \cup {waiting[last]}
         /\ waiting' = Line(old) \o SubSeq(waiting, 1, last - 1)
         /\ keyboard' = waiting[last]

MoveKeyboard ==
  /\ keyboard' \in visible \cup {NULL}
  /\ UNCHANGED <<visible, waiting>>

(* One place goes, and the keyboard moves to another. *)
Cover(old) ==
  /\ visible' = visible \ {old}
  /\ waiting' = waiting \o Line(old)
  /\ keyboard' \in visible' \cup {NULL}

(* A screen goes, and the keyboard stays with its window if it can. *)
Evict(lost) ==
  /\ visible' = visible \ lost
  /\ \E order \in Orderings(lost) : waiting' = waiting \o order
  /\ keyboard' = IF keyboard \in lost THEN NULL ELSE keyboard

Stop == visible' = {} /\ waiting' = <<>> /\ keyboard' = NULL

Next ==
  \/ \E w \in Window : UnmapWaiting(w) \/ UnmapVisible(w)
  \/ \E w \in Window, old \in visible \cup {NULL} : Map(w, old)
  \/ \E old \in visible \cup {NULL} : Advance(old) \/ Retreat(old)
  \/ \E old \in visible : Cover(old)
  \/ \E lost \in SUBSET visible : Evict(lost)
  \/ Uncover \/ MoveKeyboard \/ Stop

Spec == Init /\ [][Next]_placed
=============================================================================
