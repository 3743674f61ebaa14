----------------------------- MODULE Containers -----------------------------
(***************************************************************************)
(* The two containers in which a workspace keeps its windows, as they are  *)
(* in memory: ws->windows, a hash table of ws_win_info_t by window, and    *)
(* the linked list of those that are hidden.  Workspace has a set and a    *)
(* sequence in their place.  The actions are the functions of workspace.c  *)
(* that use the containers; the variables windows and queue follow them as *)
(* a set and a sequence, for the properties to compare with.               *)
(***************************************************************************)
EXTENDS HiddenList

CONSTANTS
  Window,
  Hash     \* ptr_hash_func of the address of each window

ASSUME NullIsNoWindow == NULL \notin Window
ASSUME HashIsNumber == Hash \in [Window -> Nat]

INSTANCE HashTable WITH Key <- Window, Val <- Info

VARIABLES
  table,     \* ws->windows
  list,      \* ws->hidden_first and _last, and the pointers of every info
  owner,     \* info->window, NULL if no ws_win_info_t is allocated there
  framed,    \* the infos with a frame
  freed,     \* workspace_free() was called
  windows,   \* what the table should hold
  queue      \* what the list should hold

vars == <<table, list, owner, framed, freed, windows, queue>>

-----------------------------------------------------------------------------
(* The list and the frames, as the functions called in a handler change     *)
(* them one after the other; x is NULL for an empty frame.                  *)
Held == [list |-> list, queue |-> queue, framed |-> framed]

Hold(s) == list' = s.list /\ queue' = s.queue /\ framed' = s.framed

hide_last(s, x) ==
  IF x = NULL THEN s
  ELSE [list |-> hidden_append(s.list, x), queue |-> Append(s.queue, x),
        framed |-> s.framed \ {x}]

hide_first(s, x) ==
  IF x = NULL THEN s
  ELSE [list |-> hidden_prepend(s.list, x), queue |-> <<x>> \o s.queue,
        framed |-> s.framed \ {x}]

show_first(s) ==
  IF s.list.first = NULL THEN s
  ELSE [list |-> hidden_pop_first(s.list), queue |-> Tail(s.queue),
        framed |-> s.framed \cup {s.list.first}]

show_last(s) ==
  IF s.list.last = NULL THEN s
  ELSE [list |-> hidden_pop_last(s.list),
        queue |-> SubSeq(s.queue, 1, Len(s.queue) - 1),
        framed |-> s.framed \cup {s.list.last}]

(* The info x leaves its frame, if it has one, and the list. *)
let_go(s, x) ==
  LET t == IF x \in s.framed THEN hide_last(s, x) ELSE s
  IN  [t EXCEPT !.list = hidden_remove(@, x), !.queue = Without(@, x)]

-----------------------------------------------------------------------------

Init ==
  /\ table = kh_init
  /\ list = NoLinks
  /\ owner = [x \in Info |-> NULL]
  /\ framed = {}
  /\ freed = FALSE
  /\ windows = {}
  /\ queue = <<>>

(* A window arrives in the focused frame, where old was. *)
workspace_add_window(w, x, old) ==
  /\ ~freed
  /\ w \notin windows
  /\ owner[x] = NULL
  /\ table' = kh_put(table, w, x)
  /\ owner' = [owner EXCEPT ![x] = w]
  /\ windows' = windows \cup {w}
  /\ LET s == hide_last(Held, old)
     IN  Hold([s EXCEPT !.framed = @ \cup {x}])
  /\ UNCHANGED freed

(* A window goes, and if it was in a frame the first hidden one comes.  A   *)
(* window that the table does not hold is of another workspace.             *)
workspace_remove_window(w, x) ==
  /\ ~freed
  /\ LET k == kh_get(table, w)
     IN  /\ k # table.n_buckets
         /\ x = table.cells[k][2]
         /\ table' = kh_del(table, k)
  /\ LET s == let_go(Held, x)
     IN  Hold(IF x \in framed THEN show_first(s) ELSE s)
  /\ owner' = [owner EXCEPT ![x] = NULL]
  /\ windows' = windows \ {w}
  /\ UNCHANGED freed

(* A frame or a root goes. *)
hide(old) ==
  /\ ~freed
  /\ Hold(hide_last(Held, old))
  /\ UNCHANGED <<table, owner, windows, freed>>

(* A frame is split. *)
uncover ==
  /\ ~freed
  /\ list.first # NULL
  /\ Hold(show_first(Held))
  /\ UNCHANGED <<table, owner, windows, freed>>

workspace_next_hidden_win_at(old) ==
  /\ ~freed
  /\ list.first # NULL
  /\ Hold(hide_last(show_first(Held), old))
  /\ UNCHANGED <<table, owner, windows, freed>>

workspace_prev_hidden_win_at(old) ==
  /\ ~freed
  /\ list.last # NULL
  /\ Hold(hide_first(show_last(Held), old))
  /\ UNCHANGED <<table, owner, windows, freed>>

(* A mutation: the infos go without leaving the list. *)
free_info_linked(s, x) ==
  [ hold  |-> IF x \in s.hold.framed THEN hide_last(s.hold, x) ELSE s.hold,
    owner |-> [s.owner EXCEPT ![x] = NULL] ]

(* One round of the loop of workspace_free(). *)
free_info(s, x) ==
  [hold |-> let_go(s.hold, x), owner |-> [s.owner EXCEPT ![x] = NULL]]

(* The buckets are visited in order, while the elements are deleted. *)
workspace_free ==
  /\ ~freed
  /\ LET from[k \in 0..table.n_buckets] ==
           IF k = 0 THEN [hold |-> Held, owner |-> owner, table |-> table]
           ELSE LET s    == from[k - 1]
                    freeing == free_info([hold |-> s.hold, owner |-> s.owner],
                                         s.table.cells[k - 1][2])
                IN  IF k - 1 \notin s.table.live THEN s
                    ELSE [hold |-> freeing.hold, owner |-> freeing.owner,
                          table |-> kh_del(s.table, k - 1)]
         done == from[table.n_buckets]
     IN  Hold(done.hold) /\ owner' = done.owner /\ table' = done.table
  /\ windows' = {}
  /\ freed' = TRUE

Next ==
  \/ \E w \in Window, x \in Info, old \in framed \cup {NULL} :
       workspace_add_window(w, x, old)
  \/ \E w \in Window, x \in Info : workspace_remove_window(w, x)
  \/ \E old \in framed : hide(old)
  \/ \E old \in framed \cup {NULL} :
       workspace_next_hidden_win_at(old) \/ workspace_prev_hidden_win_at(old)
  \/ uncover
  \/ workspace_free

Spec == Init /\ [][Next]_vars

-----------------------------------------------------------------------------
(* The linked list is the queue, read from either end, and an info that is  *)
(* not hidden has no neighbours (venowm.h:71-75).  The code: hidden_remove()*)
(* unlinks whatever it is given, and an info is reused by malloc().         *)
ListIsQueue == Represents(list, queue)

(* The table finds every window of the workspace, with the info that        *)
(* belongs to it, and no other, and every info belongs to one of them.  The *)
(* code: buckets are marked as deleted, reused, cleared and moved within    *)
(* one array while other keys lie behind them on the same path.             *)
TableIsWindows ==
  /\ \A w \in Window :
       LET k == kh_get(table, w)
       IN  /\ k # table.n_buckets <=> w \in windows
           /\ w \in windows => owner[table.cells[k][2]] = w
  /\ \A x \in Info : owner[x] # NULL =>
       /\ owner[x] \in windows
       /\ table.cells[kh_get(table, owner[x])][2] = x

(* Every search ends: there is an empty bucket, and buckets, cells and the  *)
(* two counters that decide when to make room fit together, whatever was    *)
(* put, deleted and rehashed.                                               *)
SearchesEnd ==
  /\ TableOK(table)
  /\ table.n_buckets > 0 => Empty(table) # {}
  /\ table.size = Cardinality(table.live)
  /\ table.n_occupied = Cardinality(table.live) + Cardinality(table.deleted)

(* Every info is either in the list or in a frame, and workspace_free()     *)
(* leaves none behind, neither allocated nor linked.                        *)
NothingLeft ==
  /\ {x \in Info : owner[x] # NULL} = Elems(queue) \cup framed
  /\ Elems(queue) \cap framed = {}
  /\ freed => framed = {} /\ list = NoLinks /\ table.live = {}
=============================================================================
