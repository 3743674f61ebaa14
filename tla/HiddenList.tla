----------------------------- MODULE HiddenList -----------------------------
(***************************************************************************)
(* The hidden windows of a workspace as workspace.c keeps them: a doubly   *)
(* linked list through the prev and next pointers of ws_win_info_t, between *)
(* ws->hidden_first and ws->hidden_last.  The functions hidden_... are     *)
(* operators from a list to a list, one assignment of the code per field;  *)
(* the element a pop returns is the first or the last of its argument.     *)
(***************************************************************************)
EXTENDS Queues

CONSTANTS
  Info,   \* the addresses at which a ws_win_info_t can be allocated
  NULL

ASSUME NullIsNoInfo == NULL \notin Info

Pointer == Info \cup {NULL}

Links == [ first : Pointer, last : Pointer,
           prev : [Info -> Pointer], next : [Info -> Pointer] ]

NoLinks == [ first |-> NULL, last |-> NULL,
             prev |-> [x \in Info |-> NULL], next |-> [x \in Info |-> NULL] ]

Alone(l, x) == [l EXCEPT !.first = x, !.last = x, !.prev[x] = NULL, !.next[x] = NULL]

hidden_prepend(l, x) ==
  IF l.first = NULL THEN Alone(l, x)
  ELSE [l EXCEPT !.next = [@ EXCEPT ![x] = l.first],
                 !.prev = [@ EXCEPT ![l.first] = x, ![x] = NULL],
                 !.first = x]

hidden_append(l, x) ==
  IF l.last = NULL THEN Alone(l, x)
  ELSE [l EXCEPT !.prev = [@ EXCEPT ![x] = l.last],
                 !.next = [@ EXCEPT ![l.last] = x, ![x] = NULL],
                 !.last = x]

hidden_pop_first(l) ==
  LET out == l.first
  IN  IF out = NULL THEN l
      ELSE IF l.first = l.last
        THEN [l EXCEPT !.first = NULL, !.last = NULL,
                       !.prev[out] = NULL, !.next[out] = NULL]
      ELSE [l EXCEPT !.first = l.next[out],
                     !.prev = [@ EXCEPT ![l.next[out]] = NULL, ![out] = NULL],
                     !.next[out] = NULL]

hidden_pop_last(l) ==
  LET out == l.last
  IN  IF out = NULL THEN l
      ELSE IF l.first = l.last
        THEN [l EXCEPT !.first = NULL, !.last = NULL,
                       !.prev[out] = NULL, !.next[out] = NULL]
      ELSE [l EXCEPT !.last = l.prev[out],
                     !.next = [@ EXCEPT ![l.prev[out]] = NULL, ![out] = NULL],
                     !.prev[out] = NULL]

(* A mutation: the element that goes keeps its own pointers. *)
hidden_remove_dangling(l, x) ==
  [l EXCEPT !.first = IF @ = x THEN l.next[x] ELSE @,
            !.last  = IF @ = x THEN l.prev[x] ELSE @,
            !.next  = [y \in Info |-> IF y = l.prev[x] THEN l.next[x] ELSE @[y]],
            !.prev  = [y \in Info |-> IF y = l.next[x] THEN l.prev[x] ELSE @[y]]]

hidden_remove(l, x) ==
  [l EXCEPT !.first = IF @ = x THEN l.next[x] ELSE @,
            !.last  = IF @ = x THEN l.prev[x] ELSE @,
            !.next  = [y \in Info |-> IF y = x THEN NULL
                                      ELSE IF y = l.prev[x] THEN l.next[x] ELSE @[y]],
            !.prev  = [y \in Info |-> IF y = x THEN NULL
                                      ELSE IF y = l.next[x] THEN l.prev[x] ELSE @[y]]]

-----------------------------------------------------------------------------
(* The list l holds exactly the elements of q, in this order both ways, and *)
(* every other element points nowhere.                                      *)
Represents(l, q) ==
  /\ Distinct(q)
  /\ l.first = IF q = <<>> THEN NULL ELSE q[1]
  /\ l.last  = IF q = <<>> THEN NULL ELSE q[Len(q)]
  /\ \A i \in 1..Len(q) :
       /\ l.prev[q[i]] = IF i = 1 THEN NULL ELSE q[i - 1]
       /\ l.next[q[i]] = IF i = Len(q) THEN NULL ELSE q[i + 1]
  /\ \A x \in Info \ Elems(q) : l.prev[x] = NULL /\ l.next[x] = NULL
=============================================================================
