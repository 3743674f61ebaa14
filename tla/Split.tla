------------------------------- MODULE Split -------------------------------
(***************************************************************************)
(* The frame tree of split.c: a screen is cut into frames by a binary tree *)
(* of split_t objects, whose leaves are the frames a window can be shown   *)
(* in.                                                                     *)
(*                                                                         *)
(* The C code keeps the tree in malloc'd objects that point at each other, *)
(* and so does this module: a heap maps every address of Frame to the      *)
(* split_t stored there, or to NULL when no split_t is allocated there.    *)
(* The functions of split.c are operators from a heap to a heap.           *)
(***************************************************************************)
EXTENDS Integers, Sequences

CONSTANTS
  Frame,    \* the addresses at which a split_t can be allocated
  Window,   \* the windows (window_t, with the be_window_t underneath)
  Screen,   \* the screens (screen_t, with the be_screen_t underneath)
  NULL      \* the null pointer, and the content of a free address

ASSUME NullIsNoObject == NULL \notin Frame \cup Window \cup Screen

(***************************************************************************)
(* The fields of a split_t.  fraction is a rational <<numerator,           *)
(* denominator>> from 0 to 1; win stands for the window that win_info      *)
(* refers to.                                                              *)
(***************************************************************************)
Fraction == {x \in Nat \X Nat : x[1] <= x[2] /\ x[2] # 0}

Node == [ isleaf     : BOOLEAN,
          isvertical : BOOLEAN,
          fraction   : Fraction,
          parent     : Frame \cup {NULL},
          frames     : [{0, 1} -> Frame \cup {NULL}],
          win        : Window \cup {NULL},
          screen     : Screen \cup {NULL} ]

ASSUME NullIsNoNode == NULL \notin Node

Heap == [Frame -> Node \cup {NULL}]

Allocated(h) == {f \in Frame : h[f] # NULL}
Free(h)      == {f \in Frame : h[f] = NULL}
Leaves(h)    == {f \in Allocated(h) : h[f].isleaf}

Children(a, b) == [i \in {0, 1} |-> IF i = 0 THEN a ELSE b]

(* A mutation: a new frame does not inherit the screen of its parent. *)
split_new_homeless(parent, screen) ==
  [ isleaf |-> TRUE, isvertical |-> FALSE, fraction |-> <<1, 1>>,
    parent |-> parent, frames |-> Children(NULL, NULL),
    win |-> NULL, screen |-> NULL ]

(* The object split_new fills in: a leaf without a window, on the screen of *)
(* its parent.                                                              *)
split_new(parent, screen) ==
  [ isleaf |-> TRUE, isvertical |-> FALSE, fraction |-> <<1, 1>>,
    parent |-> parent, frames |-> Children(NULL, NULL),
    win |-> NULL, screen |-> screen ]

(* Leaf f becomes an inner node over the fresh leaves c0 and c1; c0 inherits *)
(* the window.                                                               *)
split_do_split(h, f, vertical, fraction, c0, c1) ==
  [h EXCEPT
     ![c0] = [split_new(f, h[f].screen) EXCEPT !.win = h[f].win],
     ![c1] = split_new(f, h[f].screen),
     ![f]  = [@ EXCEPT !.isleaf = FALSE, !.isvertical = vertical,
                       !.fraction = fraction, !.frames = Children(c0, c1),
                       !.win = NULL]]

(* The other child of the parent of f. *)
Sibling(h, f) ==
  LET siblings == h[h[f].parent].frames
  IN  IF siblings[0] = f THEN siblings[1] ELSE siblings[0]

(* A mutation: the children of the other child still point at it. *)
split_do_remove_stale(h, f) ==
  LET up    == h[f].parent
      other == Sibling(h, f)
  IN  [h EXCEPT ![up] = [h[other] EXCEPT !.parent = h[up].parent,
                                         !.screen = h[up].screen],
                ![f] = NULL, ![other] = NULL]

(* The parent of f takes over everything its other child was, and both     *)
(* children are freed.  The parent keeps its own place in the tree: parent *)
(* and screen are not copied.                                              *)
split_do_remove(h, f) ==
  LET up    == h[f].parent
      other == Sibling(h, f)
      moved == {h[other].frames[0], h[other].frames[1]}
  IN  [g \in Frame |->
         IF g = up THEN [h[other] EXCEPT !.parent = h[up].parent,
                                         !.screen = h[up].screen]
         ELSE IF g \in {f, other} THEN NULL
         ELSE IF g \in moved THEN [h[g] EXCEPT !.parent = up]
         ELSE h[g]]

-----------------------------------------------------------------------------
(* Walks over the tree.                                                     *)

ClosedBelow(h, S) ==
  \A f \in S : h[f].isleaf \/ (h[f].frames[0] \in S /\ h[f].frames[1] \in S)

(* The nodes that split_do_at_each visits and split_free frees, from r down: *)
(* the least set that contains r and the children of its members.            *)
Tree(h, r) ==
  LET closed == {S \in SUBSET Allocated(h) : r \in S /\ ClosedBelow(h, S)}
  IN  {f \in Allocated(h) : \A S \in closed : f \in S}

(* The walk  while(!f->isleaf) f = f->frames[0].  *)
FirstLeaf(h, f) ==
  LET first[g \in Frame] == IF h[g].isleaf THEN g ELSE first[h[g].frames[0]]
  IN  first[f]

(* The windows below f in the order in which split_do_at_each meets them. *)
WindowsInOrder(h, f) ==
  LET below[g \in Frame] ==
        IF ~h[g].isleaf THEN below[h[g].frames[0]] \o below[h[g].frames[1]]
        ELSE IF h[g].win = NULL THEN <<>> ELSE <<h[g].win>>
  IN  below[f]

(* A mutation: the move crosses one border and does not descend. *)
do_split_move_shallow(h, start, vertical, increasing) ==
  LET up == h[start].parent
  IN  IF up = NULL \/ h[up].isvertical # vertical THEN start
      ELSE h[up].frames[IF increasing THEN 1 ELSE 0]

(***************************************************************************)
(* do_split_move: the leaf across the nearest border of start in the given *)
(* direction, or start when there is none.  climb goes up to the split to  *)
(* cross and carries the position num/den of the centre of start along     *)
(* that border; descend goes down on the far side to the leaf at that      *)
(* position, ties going to the first child.                                *)
(***************************************************************************)
do_split_move(h, start, vertical, increasing) ==
  LET Place == Allocated(h) \X Int \X Int
      descend[at \in Place] ==
        LET n   == h[at[1]]
            num == at[2]
            den == at[3]
            p   == n.fraction[1]
            q   == n.fraction[2]
        IN  IF n.isleaf THEN at[1]
            ELSE IF n.isvertical = vertical
              THEN descend[<<n.frames[IF increasing THEN 0 ELSE 1], num, den>>]
            ELSE IF num * q <= p * den
              THEN descend[<<n.frames[0], num * q, den * p>>]
              ELSE descend[<<n.frames[1], num * q - p * den, den * (q - p)>>]
      climb[at \in Place] ==
        LET up    == h[at[1]].parent
            num   == at[2]
            den   == at[3]
            first == h[up].frames[0] = at[1]
            p     == h[up].fraction[1]
            q     == h[up].fraction[2]
        IN  IF up = NULL THEN start
            ELSE IF h[up].isvertical # vertical
              THEN IF first
                   THEN climb[<<up, num * p, den * q>>]
                   ELSE climb[<<up, p * den + (q - p) * num, den * q>>]
            ELSE IF first = increasing
              THEN descend[<<h[up].frames[IF increasing THEN 1 ELSE 0], num, den>>]
              ELSE climb[<<up, num, den>>]
  IN  climb[<<start, 1, 2>>]

-----------------------------------------------------------------------------
(* A heap is a forest when the pointers between parents and children agree, *)
(* only leaves hold windows, the parentless nodes are the given roots,      *)
(* every frame is below one of them, and every way down ends at a leaf:     *)
(* frames that can be collected from the leaves up are all there are.       *)
Collected(h, S) ==
  \A f \in Allocated(h) :
    h[f].isleaf \/ (h[f].frames[0] \in S /\ h[f].frames[1] \in S) => f \in S

Grounded(h) ==
  \A S \in SUBSET Allocated(h) : Collected(h, S) => S = Allocated(h)

NodeOK(h, f) ==
  /\ h[f].isleaf => h[f].frames = Children(NULL, NULL)
  /\ ~h[f].isleaf =>
       /\ h[f].win = NULL
       /\ h[f].frames[0] # h[f].frames[1]
       /\ \A i \in {0, 1} : /\ h[f].frames[i] \in Allocated(h)
                            /\ h[h[f].frames[i]].parent = f
  /\ h[f].parent # NULL =>
       /\ h[f].parent \in Allocated(h)
       /\ ~h[h[f].parent].isleaf
       /\ f \in {h[h[f].parent].frames[0], h[h[f].parent].frames[1]}

Forest(h, rootset) ==
  /\ \A f \in Allocated(h) : NodeOK(h, f)
  /\ {f \in Allocated(h) : h[f].parent = NULL} = rootset
  /\ \A f \in Allocated(h) : \E r \in rootset : f \in Tree(h, r)
  /\ Grounded(h)
=============================================================================
