-------------------------- MODULE WorkspaceProofs --------------------------
(***************************************************************************)
(* The safety of Workspace, for every number of frames, windows and        *)
(* screens.  A handler is a chain of operators on a state record, so there *)
(* is one lemma per operator, and the invariant is stated of a record.     *)
(***************************************************************************)
EXTENDS Workspace, QueueProofs, FiniteSetTheorems, TLAPS

(***************************************************************************)
(* The frame tree of Split: what its operators preserve.                   *)
(***************************************************************************)

(* A walk from r visits allocated frames only, r itself, and the children   *)
(* of every inner node it visits.                                           *)
LEMMA TreeIsClosed ==
  ASSUME NEW h \in Heap, NEW R, Forest(h, R), NEW r \in Allocated(h)
  PROVE  /\ Tree(h, r) \subseteq Allocated(h)
         /\ r \in Tree(h, r)
         /\ ClosedBelow(h, Tree(h, r))
PROOF
  <1> DEFINE closed == {S \in SUBSET Allocated(h) : r \in S /\ ClosedBelow(h, S)}
  <1>1. Tree(h, r) = {f \in Allocated(h) : \A S \in closed : f \in S}
    BY DEF Tree
  <1>2. \A f \in Allocated(h) : ~h[f].isleaf =>
          h[f].frames[0] \in Allocated(h) /\ h[f].frames[1] \in Allocated(h)
    BY DEF Forest, NodeOK
  <1>3. ASSUME NEW f \in Tree(h, r), ~h[f].isleaf
        PROVE  h[f].frames[0] \in Tree(h, r) /\ h[f].frames[1] \in Tree(h, r)
    <2>1. f \in Allocated(h) /\ \A S \in closed : f \in S
      BY <1>1
    <2>2. \A S \in closed : h[f].frames[0] \in S /\ h[f].frames[1] \in S
      BY <2>1, <1>3 DEF ClosedBelow
    <2> QED
      BY <2>1, <2>2, <1>1, <1>2, <1>3
  <1> HIDE DEF closed
  <1>4. \A S \in closed : r \in S
    BY DEF closed
  <1> QED
    BY <1>1, <1>3, <1>4 DEF ClosedBelow

(* A walk from r never enters a set of frames when no parent of one is      *)
(* visited before.                                                          *)
LEMMA TreeAvoids ==
  ASSUME NEW h \in Heap, NEW R, Forest(h, R), NEW r \in Allocated(h),
         NEW C, r \notin C,
         \A c \in C \cap Allocated(h) : h[c].parent \notin Tree(h, r) \ C
  PROVE  Tree(h, r) \cap C = {}
PROOF
  <1> DEFINE S == Tree(h, r) \ C
  <1>1. /\ Tree(h, r) \subseteq Allocated(h) /\ r \in Tree(h, r)
        /\ ClosedBelow(h, Tree(h, r))
    BY TreeIsClosed
  <1>2. ASSUME NEW x \in S, ~h[x].isleaf
        PROVE  h[x].frames[0] \in S /\ h[x].frames[1] \in S
    <2>1. h[x].frames[0] \in Tree(h, r) /\ h[x].frames[1] \in Tree(h, r)
      BY <1>1, <1>2 DEF ClosedBelow
    <2>2. h[h[x].frames[0]].parent = x /\ h[h[x].frames[1]].parent = x
      BY <1>1, <1>2 DEF Forest, NodeOK
    <2> QED
      BY <2>1, <2>2, <1>1
  <1>3. S \in SUBSET Allocated(h) /\ r \in S /\ ClosedBelow(h, S)
    BY <1>1, <1>2 DEF ClosedBelow
  <1>4. \A f \in Tree(h, r) : f \in S
    <2> HIDE DEF S
    <2> QED BY <1>3 DEF Tree
  <1> QED
    BY <1>4

(* Whatever a walk from r visits, but r, it reaches through its parent. *)
LEMMA TreeHasParents ==
  ASSUME NEW h \in Heap, NEW R, Forest(h, R), NEW r \in Allocated(h),
         NEW f \in Tree(h, r), f # r
  PROVE  h[f].parent \in Tree(h, r)
PROOF
  <1>1. SUFFICES ASSUME h[f].parent \notin Tree(h, r) PROVE FALSE
    OBVIOUS
  <1>2. Tree(h, r) \cap {f} = {}
    BY <1>1, TreeAvoids
  <1> QED
    BY <1>2

(* A heap that shares its frames and their pointers with a forest has the   *)
(* same trees.                                                              *)
LEMMA TreeFromShape ==
  ASSUME NEW h \in Heap, NEW g \in Heap, Allocated(g) = Allocated(h),
         \A f \in Allocated(h) :
           g[f].isleaf = h[f].isleaf /\ g[f].frames = h[f].frames,
         NEW r
  PROVE  Tree(g, r) = Tree(h, r)
PROOF
  <1>1. \A S \in SUBSET Allocated(h) : ClosedBelow(g, S) <=> ClosedBelow(h, S)
    BY DEF ClosedBelow
  <1>2. {S \in SUBSET Allocated(g) : r \in S /\ ClosedBelow(g, S)}
        = {S \in SUBSET Allocated(h) : r \in S /\ ClosedBelow(h, S)}
    BY <1>1
  <1> QED
    BY <1>2 DEF Tree

(* What it takes to be visited: to be in every closed set with the root.    *)
LEMMA VisitedIfInEveryClosedSet ==
  ASSUME NEW h, NEW r, NEW x \in Allocated(h),
         \A S \in SUBSET Allocated(h) :
           r \in S /\ ClosedBelow(h, S) => x \in S
  PROVE  x \in Tree(h, r)
BY DEF Tree

LEMMA InEveryClosedSetIfVisited ==
  ASSUME NEW h, NEW r, NEW x \in Tree(h, r),
         NEW S \in SUBSET Allocated(h), r \in S, ClosedBelow(h, S)
  PROVE  x \in S
BY DEF Tree

-----------------------------------------------------------------------------
(* The shape of a forest: which frames there are, and how they point at     *)
(* each other.  Windows and screens may change as long as inner nodes hold  *)
(* no window.                                                               *)
LEMMA ForestFromShape ==
  ASSUME NEW h \in Heap, NEW g \in Heap, NEW R, Forest(h, R),
         Allocated(g) = Allocated(h),
         \A f \in Allocated(h) :
           /\ g[f].isleaf = h[f].isleaf
           /\ g[f].parent = h[f].parent
           /\ g[f].frames = h[f].frames
           /\ ~h[f].isleaf => g[f].win = NULL
  PROVE  Forest(g, R)
PROOF
  <1>1. ASSUME NEW f \in Allocated(g) PROVE NodeOK(g, f)
    BY <1>1 DEF Forest, NodeOK
  <1>2. {f \in Allocated(g) : g[f].parent = NULL} = R
    BY DEF Forest
  <1>3. \A r \in R : Tree(g, r) = Tree(h, r)
    BY TreeFromShape
  <1>4. Grounded(g)
    <2>1. \A S \in SUBSET Allocated(h) : Collected(g, S) => Collected(h, S)
      BY DEF Collected
    <2>2. Grounded(h)
      BY DEF Forest
    <2> QED
      BY <2>1, <2>2 DEF Grounded
  <1> QED
    BY <1>1, <1>2, <1>3, <1>4 DEF Forest

(* The node that split_new() makes is one, and neither of its children is   *)
(* a frame.                                                                 *)
LEMMA SplitNewIsNode ==
  ASSUME NEW parent \in Frame \cup {NULL}, NEW screen \in Screen \cup {NULL}
  PROVE  /\ split_new(parent, screen) \in Node
         /\ split_new(parent, screen) # NULL
         /\ split_new(parent, screen).isleaf
         /\ split_new(parent, screen).parent = parent
         /\ split_new(parent, screen).frames = Children(NULL, NULL)
         /\ split_new(parent, screen).win = NULL
         /\ split_new(parent, screen).screen = screen
PROOF
  <1>1. Children(NULL, NULL) \in [{0, 1} -> Frame \cup {NULL}]
    BY DEF Children
  <1>2. split_new(parent, screen) \in Node
    BY <1>1 DEF split_new, Node, Fraction
  <1> QED
    BY <1>2, NullIsNoNode DEF split_new

LEMMA ChildrenAreTwo ==
  ASSUME NEW a \in Frame \cup {NULL}, NEW b \in Frame \cup {NULL}
  PROVE  /\ Children(a, b) \in [{0, 1} -> Frame \cup {NULL}]
         /\ Children(a, b)[0] = a
         /\ Children(a, b)[1] = b
BY DEF Children

(* split_do_split() makes an inner node of a leaf, over two fresh leaves.   *)
LEMMA SplitKeepsForest ==
  ASSUME NEW h \in Heap, NEW R, Forest(h, R), NEW f \in Leaves(h),
         NEW vertical \in BOOLEAN, NEW fraction \in Fraction,
         NEW c0 \in Free(h), NEW c1 \in Free(h), c0 # c1,
         NEW g, g = split_do_split(h, f, vertical, fraction, c0, c1)
  PROVE  /\ g \in Heap
         /\ Allocated(g) = Allocated(h) \cup {c0, c1}
         /\ g[c0].isleaf /\ g[c0].win = h[f].win /\ g[c0].screen = h[f].screen
         /\ g[c1].isleaf /\ g[c1].win = NULL /\ g[c1].screen = h[f].screen
         /\ ~g[f].isleaf /\ g[f].win = NULL /\ g[f].screen = h[f].screen
         /\ g[c0].parent = f /\ g[c1].parent = f /\ g[f].parent = h[f].parent
         /\ \A x \in Allocated(h) \ {f} : g[x] = h[x]
         /\ Forest(g, R)
PROOF
  <1>1. /\ f \in Frame /\ h[f] \in Node /\ h[f].isleaf /\ h[f] # NULL
        /\ c0 \in Frame /\ c1 \in Frame /\ h[c0] = NULL /\ h[c1] = NULL
        /\ f # c0 /\ f # c1
    BY DEF Leaves, Allocated, Free, Heap
  <1>2. h[f].screen \in Screen \cup {NULL} /\ h[f].win \in Window \cup {NULL}
    BY <1>1 DEF Node
  <1> DEFINE n0 == [split_new(f, h[f].screen) EXCEPT !.win = h[f].win]
             n1 == split_new(f, h[f].screen)
             nf == [h[f] EXCEPT !.isleaf = FALSE, !.isvertical = vertical,
                                !.fraction = fraction,
                                !.frames = Children(c0, c1), !.win = NULL]
  <1>3. /\ n1 \in Node /\ n1.isleaf /\ n1.parent = f
        /\ n1.frames = Children(NULL, NULL) /\ n1.win = NULL
        /\ n1.screen = h[f].screen
    BY <1>1, <1>2, SplitNewIsNode
  <1>4. /\ n0 \in Node /\ n0.isleaf /\ n0.parent = f
        /\ n0.frames = Children(NULL, NULL) /\ n0.win = h[f].win
        /\ n0.screen = h[f].screen
    <2> HIDE DEF n1
    <2>1. n0 = [n1 EXCEPT !.win = h[f].win]
      BY DEF n1
    <2> HIDE DEF n0
    <2> QED BY <1>2, <1>3, <2>1 DEF Node
  <1>5. /\ nf \in Node /\ ~nf.isleaf /\ nf.parent = h[f].parent
        /\ nf.frames = Children(c0, c1) /\ nf.win = NULL
        /\ nf.screen = h[f].screen
    <2>1. Children(c0, c1) \in [{0, 1} -> Frame \cup {NULL}]
      BY <1>1, ChildrenAreTwo
    <2> QED BY <1>1, <2>1 DEF Node
  <1>6. g = [[[h EXCEPT ![c0] = n0] EXCEPT ![c1] = n1] EXCEPT ![f] = nf]
    BY <1>1 DEF split_do_split, Heap
  <1> HIDE DEF n0, n1, nf
  <1>7. /\ g[c0] = n0 /\ g[c1] = n1 /\ g[f] = nf
        /\ \A x \in Frame \ {c0, c1, f} : g[x] = h[x]
    BY <1>1, <1>6 DEF Heap
  <1>8. g \in Heap
    BY <1>1, <1>3, <1>4, <1>5, <1>6 DEF Heap
  <1>9. Allocated(g) = Allocated(h) \cup {c0, c1}
    BY <1>1, <1>3, <1>4, <1>5, <1>7, NullIsNoNode DEF Allocated
  <1>10. Children(c0, c1)[0] = c0 /\ Children(c0, c1)[1] = c1
    BY <1>1, ChildrenAreTwo
  <1>11. ASSUME NEW x \in Allocated(g) PROVE NodeOK(g, x)
    <2>1. CASE x \in {c0, c1}
      BY <2>1, <1>1, <1>3, <1>4, <1>5, <1>7, <1>9, <1>10, NullIsNoObject
         DEF NodeOK, Allocated
    <2>2. CASE x = f
      <3>1. NodeOK(h, f)
        BY <1>1 DEF Forest, Leaves
      <3>2. h[f].parent # NULL =>
               h[f].parent \in Allocated(h) /\ ~h[h[f].parent].isleaf
        BY <3>1 DEF NodeOK
      <3> QED
        BY <2>2, <3>1, <3>2, <1>1, <1>3, <1>4, <1>5, <1>7, <1>9, <1>10
           DEF NodeOK, Allocated
    <2>3. CASE x \notin {c0, c1, f}
      <3>1. x \in Allocated(h) /\ NodeOK(h, x) /\ g[x] = h[x]
        BY <2>3, <1>7, <1>9 DEF Forest, Allocated
      <3>2. \A y \in Allocated(h) : g[y].parent = h[y].parent
        BY <1>1, <1>5, <1>7 DEF Allocated
      <3>3. \A y \in Allocated(h) : ~h[y].isleaf => g[y] = h[y]
        BY <1>1, <1>7 DEF Allocated
      <3> QED
        BY <3>1, <3>2, <3>3, <1>9 DEF NodeOK
    <2> QED BY <2>1, <2>2, <2>3
  <1>12. {x \in Allocated(g) : g[x].parent = NULL} = R
    BY <1>1, <1>3, <1>4, <1>5, <1>7, <1>9, NullIsNoObject DEF Forest, Allocated
  <1>13. ASSUME NEW x \in Allocated(g) PROVE \E r \in R : x \in Tree(g, r)
    <2>1. PICK y \in Allocated(h) : y = IF x \in {c0, c1} THEN f ELSE x
      BY <1>1, <1>9 DEF Allocated
    <2>2. PICK r \in R : y \in Tree(h, r)
      BY <2>1 DEF Forest
    <2>3. r \in Allocated(h)
      BY <2>2 DEF Forest
    <2>4. ASSUME NEW S \in SUBSET Allocated(g), r \in S, ClosedBelow(g, S)
          PROVE  x \in S
      <3>1. ClosedBelow(h, S \cap Allocated(h))
        <4>1. ASSUME NEW z \in S \cap Allocated(h), ~h[z].isleaf
              PROVE  /\ h[z].frames[0] \in S \cap Allocated(h)
                     /\ h[z].frames[1] \in S \cap Allocated(h)
          <5>1. z # f /\ g[z] = h[z]
            BY <4>1, <1>1, <1>7 DEF Allocated
          <5>2. h[z].frames[0] \in Allocated(h) /\ h[z].frames[1] \in Allocated(h)
            BY <4>1 DEF Forest, NodeOK
          <5> QED
            BY <2>4, <4>1, <5>1, <5>2 DEF ClosedBelow
        <4> QED
          BY <4>1 DEF ClosedBelow
      <3>2. y \in S
        BY <2>2, <2>3, <2>4, <3>1, InEveryClosedSetIfVisited
      <3>3. f \in S => c0 \in S /\ c1 \in S
        BY <2>4, <1>5, <1>7, <1>10 DEF ClosedBelow
      <3> QED
        BY <2>1, <3>2, <3>3
    <2> QED
      BY <2>2, <2>4, VisitedIfInEveryClosedSet
  <1>14. Grounded(g)
    <2>1. SUFFICES ASSUME NEW S \in SUBSET Allocated(g), Collected(g, S)
                   PROVE  S = Allocated(g)
      BY DEF Grounded
    <2>2. c0 \in S /\ c1 \in S
      BY <2>1, <1>3, <1>4, <1>7, <1>9 DEF Collected
    <2>3. f \in S
      BY <2>1, <2>2, <1>5, <1>7, <1>9, <1>10 DEF Collected, Leaves
    <2>4. ASSUME NEW z \in Allocated(h), z # f,
                 \/ h[z].isleaf
                 \/ h[z].frames[0] \in S /\ h[z].frames[1] \in S
          PROVE  z \in S
      <3>1. z \in Allocated(g) /\ g[z] = h[z]
        BY <2>4, <1>1, <1>7, <1>9 DEF Allocated
      <3> QED
        BY <2>1, <2>4, <3>1 DEF Collected
    <2>5. Collected(h, S \cap Allocated(h))
      BY <2>3, <2>4 DEF Collected
    <2>6. S \cap Allocated(h) = Allocated(h)
      BY <2>5 DEF Forest, Grounded
    <2> QED
      BY <2>2, <2>6, <1>9
  <1> QED
    BY <1>1, <1>3, <1>4, <1>5, <1>7, <1>8, <1>9, <1>11, <1>12, <1>13, <1>14
       DEF Forest, Allocated

(* split_do_remove() takes a leaf and its sibling away and leaves the       *)
(* parent in the place of the sibling.                                      *)
LEMMA RemoveKeepsForest ==
  ASSUME NEW h \in Heap, NEW R, Forest(h, R), NEW f \in Leaves(h),
         h[f].parent # NULL,
         NEW up, up = h[f].parent,
         NEW other, other = Sibling(h, f),
         NEW g, g = split_do_remove(h, f)
  PROVE  /\ up \in Allocated(h) /\ other \in Allocated(h)
         /\ f # up /\ other # up /\ other # f
         /\ ~h[up].isleaf
         /\ g \in Heap
         /\ Allocated(g) = Allocated(h) \ {f, other}
         /\ g[up].isleaf = h[other].isleaf
         /\ g[up].win = h[other].win
         /\ g[up].screen = h[up].screen
         /\ \A x \in Allocated(g) \ {up} :
              /\ g[x].isleaf = h[x].isleaf
              /\ g[x].win = h[x].win
              /\ g[x].screen = h[x].screen
         /\ h[other].parent = up /\ g[up].parent = h[up].parent
         /\ \A x \in Allocated(g) \ {up} :
              \/ g[x].parent = h[x].parent
              \/ g[x].parent = up /\ h[x].parent = other
         /\ Forest(g, R)
PROOF
  <1>1. /\ f \in Allocated(h) /\ h[f].isleaf /\ NodeOK(h, f)
        /\ \A x \in Allocated(h) : x \in Frame /\ h[x] \in Node /\ h[x] # NULL
    BY DEF Leaves, Allocated, Heap, Forest
  <1>2. /\ up \in Allocated(h) /\ ~h[up].isleaf /\ NodeOK(h, up)
        /\ f \in {h[up].frames[0], h[up].frames[1]}
    BY <1>1 DEF NodeOK, Forest
  <1>3. /\ h[up].frames[0] \in Allocated(h) /\ h[h[up].frames[0]].parent = up
        /\ h[up].frames[1] \in Allocated(h) /\ h[h[up].frames[1]].parent = up
        /\ h[up].frames[0] # h[up].frames[1]
    BY <1>2 DEF NodeOK
  <1>4. /\ other \in Allocated(h) /\ other # f /\ h[other].parent = up
        /\ {h[up].frames[0], h[up].frames[1]} = {f, other}
    BY <1>2, <1>3 DEF Sibling
  <1>5. f # up
    BY <1>1, <1>2
  <1>6. other # up
    <2>1. SUFFICES ASSUME h[up].parent = up PROVE FALSE
      BY <1>4
    <2>2. PICK r \in R : up \in Tree(h, r)
      BY <1>2 DEF Forest
    <2>3. r \in Allocated(h) /\ r # up
      BY <2>1, <2>2, <1>2, NullIsNoObject DEF Forest, Allocated
    <2>4. Tree(h, r) \cap {up} = {}
      BY <2>1, <2>3, TreeAvoids
    <2> QED
      BY <2>2, <2>4
  <1>7. h[up].parent # other
    <2>1. SUFFICES ASSUME h[up].parent = other PROVE FALSE
      OBVIOUS
    <2>2. PICK r \in R : up \in Tree(h, r)
      BY <1>2 DEF Forest
    <2>3. r \in Allocated(h) /\ r \notin {up, other}
      BY <2>1, <2>2, <1>2, <1>4, NullIsNoObject DEF Forest, Allocated
    <2>4. Tree(h, r) \cap {up, other} = {}
      BY <2>1, <2>3, <1>4, TreeAvoids
    <2> QED
      BY <2>2, <2>4
  <1> DEFINE moved == {h[other].frames[0], h[other].frames[1]}
             nu == [h[other] EXCEPT !.parent = h[up].parent, !.screen = h[up].screen]
             adopted == [x \in moved \cap Frame |-> [h[x] EXCEPT !.parent = up]]
  <1>8. NodeOK(h, other)
    BY <1>4 DEF Forest
  <1>9. h[other].isleaf => moved = {NULL}
    BY <1>8, <1>1, <1>4, ChildrenAreTwo DEF NodeOK, Node
  <1>10. ~h[other].isleaf =>
           \A k \in moved : /\ k \in Allocated(h) /\ h[k].parent = other
                           /\ k \notin {f, other, up}
    BY <1>8, <1>4, <1>6, <1>7 DEF NodeOK
  <1>11. \A x \in moved \cap Frame :
           /\ ~h[other].isleaf /\ x \in Allocated(h) /\ h[x].parent = other
           /\ x \notin {f, other, up}
    BY <1>9, <1>10, NullIsNoObject
  <1>12. nu \in Node /\ nu.isleaf = h[other].isleaf /\ nu.win = h[other].win
         /\ nu.frames = h[other].frames /\ nu.parent = h[up].parent
         /\ nu.screen = h[up].screen
    <2>1. h[other] \in Node /\ h[up] \in Node
      BY <1>1, <1>2, <1>4
    <2>2. h[up].parent \in Frame \cup {NULL} /\ h[up].screen \in Screen \cup {NULL}
      BY <2>1 DEF Node
    <2> QED
      BY <2>1, <2>2 DEF Node
  <1>13. \A x \in moved \cap Frame :
           /\ adopted[x] \in Node /\ adopted[x].parent = up
           /\ adopted[x].isleaf = h[x].isleaf /\ adopted[x].frames = h[x].frames
           /\ adopted[x].win = h[x].win /\ adopted[x].screen = h[x].screen
    <2>1. up \in Frame \cup {NULL}
      BY <1>1, <1>2
    <2> SUFFICES ASSUME NEW x \in moved \cap Frame
                 PROVE  /\ adopted[x] \in Node /\ adopted[x].parent = up
                        /\ adopted[x].isleaf = h[x].isleaf
                        /\ adopted[x].frames = h[x].frames
                        /\ adopted[x].win = h[x].win
                        /\ adopted[x].screen = h[x].screen
      OBVIOUS
    <2>2. h[x] \in Node
      BY <1>1, <1>11
    <2>3. adopted[x] = [h[x] EXCEPT !.parent = up]
      OBVIOUS
    <2> HIDE DEF adopted
    <2> QED
      BY <2>1, <2>2, <2>3 DEF Node
  <1>14. g = [x \in Frame |->
                IF x = up THEN nu
                ELSE IF x \in {f, other} THEN NULL
                ELSE IF x \in moved THEN adopted[x]
                ELSE h[x]]
    BY DEF split_do_remove
  <1> HIDE DEF moved, nu, adopted
  <1>15. /\ g[up] = nu /\ g[f] = NULL /\ g[other] = NULL
         /\ \A x \in moved \cap Frame : g[x] = adopted[x]
         /\ \A x \in Frame \ ({up, f, other} \cup moved) : g[x] = h[x]
    BY <1>1, <1>2, <1>4, <1>5, <1>6, <1>11, <1>14
  <1>16. g \in Heap
    BY <1>1, <1>2, <1>12, <1>13, <1>14 DEF Heap
  <1>17. Allocated(g) = Allocated(h) \ {f, other}
    <2>1. \A x \in moved \cap Frame : x \in Allocated(h) /\ g[x] # NULL
      <3> SUFFICES ASSUME NEW x \in moved \cap Frame
                   PROVE  x \in Allocated(h) /\ g[x] # NULL
        OBVIOUS
      <3>1. g[x] = adopted[x] /\ adopted[x] \in Node
        BY <1>13, <1>15
      <3> QED
        BY <3>1, <1>11, NullIsNoNode
    <2>2. g[up] # NULL /\ up \in Frame /\ up \notin {f, other}
      BY <1>1, <1>2, <1>5, <1>6, <1>12, <1>15, NullIsNoNode
    <2> QED
      BY <1>2, <1>11, <1>15, <2>1, <2>2 DEF Allocated
  <1>18. \A x \in Allocated(g) \ {up} :
           /\ x \in Allocated(h)
           /\ g[x].isleaf = h[x].isleaf /\ g[x].frames = h[x].frames
           /\ g[x].win = h[x].win /\ g[x].screen = h[x].screen
           /\ g[x].parent = IF x \in moved THEN up ELSE h[x].parent
    <2> SUFFICES ASSUME NEW x \in Allocated(g) \ {up}
                 PROVE  /\ x \in Allocated(h)
                        /\ g[x].isleaf = h[x].isleaf /\ g[x].frames = h[x].frames
                        /\ g[x].win = h[x].win /\ g[x].screen = h[x].screen
                        /\ g[x].parent = IF x \in moved THEN up ELSE h[x].parent
      OBVIOUS
    <2>1. x \in Allocated(h) /\ x \in Frame /\ x \notin {up, f, other}
      BY <1>1, <1>17
    <2>2. CASE x \in moved
      <3>1. g[x] = adopted[x]
        BY <2>1, <2>2, <1>15
      <3> QED
        BY <2>1, <2>2, <3>1, <1>13
    <2>3. CASE x \notin moved
      <3>1. g[x] = h[x]
        BY <2>1, <2>3, <1>15
      <3> QED
        BY <2>1, <2>3, <3>1
    <2> QED
      BY <2>2, <2>3
  <1>19. NodeOK(g, up)
    <2>1. g[up].isleaf => g[up].frames = Children(NULL, NULL)
      BY <1>8, <1>12, <1>15 DEF NodeOK
    <2>2. ~g[up].isleaf => g[up].win = NULL /\ g[up].frames[0] # g[up].frames[1]
      BY <1>8, <1>12, <1>15 DEF NodeOK
    <2>3. ~g[up].isleaf => \A i \in {0, 1} : /\ g[up].frames[i] \in Allocated(g)
                                            /\ g[g[up].frames[i]].parent = up
      BY <1>10, <1>12, <1>15, <1>17, <1>18 DEF moved
    <2>4. ASSUME g[up].parent # NULL
          PROVE  /\ g[up].parent \in Allocated(g) /\ ~g[g[up].parent].isleaf
                 /\ up \in {g[g[up].parent].frames[0], g[g[up].parent].frames[1]}
      <3>1. /\ h[up].parent \in Allocated(h) /\ ~h[h[up].parent].isleaf
            /\ up \in {h[h[up].parent].frames[0], h[h[up].parent].frames[1]}
        BY <2>4, <1>2, <1>12, <1>15 DEF NodeOK
      <3>2. h[up].parent \notin {f, other, up}
        BY <3>1, <1>1, <1>3, <1>4, <1>5, <1>6, <1>7
      <3> QED
        BY <3>1, <3>2, <1>12, <1>15, <1>17, <1>18
    <2> QED
      BY <2>1, <2>2, <2>3, <2>4 DEF NodeOK
  <1>20. ASSUME NEW x \in Allocated(g), x # up PROVE NodeOK(g, x)
    <2>1. /\ x \in Allocated(h) /\ NodeOK(h, x) /\ x \notin {f, other}
          /\ x \in Frame
      BY <1>1, <1>17, <1>20 DEF Forest
    <2>2. g[x].isleaf => g[x].frames = Children(NULL, NULL)
      BY <1>18, <1>20, <2>1 DEF NodeOK
    <2>3. ASSUME ~g[x].isleaf, NEW i \in {0, 1}
          PROVE  g[x].frames[i] \in Allocated(g) /\ g[g[x].frames[i]].parent = x
      <3>1. h[x].frames[i] \in Allocated(h) /\ h[h[x].frames[i]].parent = x
        BY <2>1, <2>3, <1>18, <1>20 DEF NodeOK
      <3>2. h[x].frames[i] \notin {f, other} \cup moved
        BY <3>1, <2>1, <1>1, <1>4, <1>11, <1>20
      <3> QED
        BY <3>1, <3>2, <1>12, <1>15, <1>17, <1>18, <1>20
    <2>4. ASSUME g[x].parent # NULL
          PROVE  /\ g[x].parent \in Allocated(g) /\ ~g[g[x].parent].isleaf
                 /\ x \in {g[g[x].parent].frames[0], g[g[x].parent].frames[1]}
      <3>1. CASE x \in moved
        <4>1. g[x].parent = up /\ ~h[other].isleaf
          BY <3>1, <2>1, <1>11, <1>18, <1>20
        <4> QED
          BY <3>1, <4>1, <1>2, <1>5, <1>6, <1>12, <1>15, <1>17 DEF moved
      <3>2. CASE x \notin moved
        <4>1. /\ g[x].parent = h[x].parent
              /\ h[x].parent \in Allocated(h) /\ ~h[h[x].parent].isleaf
              /\ x \in {h[h[x].parent].frames[0], h[h[x].parent].frames[1]}
          BY <3>2, <2>1, <2>4, <1>18, <1>20 DEF NodeOK
        <4>2. h[x].parent \notin {f, other, up}
          BY <4>1, <3>2, <2>1, <1>1, <1>4 DEF moved
        <4> QED
          BY <4>1, <4>2, <1>17, <1>18
      <3> QED
        BY <3>1, <3>2
    <2> QED
      BY <2>1, <2>2, <2>3, <2>4, <1>18, <1>20 DEF NodeOK
  <1>21. {x \in Allocated(g) : g[x].parent = NULL} = R
    <2>1. \A x \in Allocated(g) : g[x].parent = NULL <=> h[x].parent = NULL
      <3> SUFFICES ASSUME NEW x \in Allocated(g)
                   PROVE  g[x].parent = NULL <=> h[x].parent = NULL
        OBVIOUS
      <3>1. CASE x = up
        BY <3>1, <1>12, <1>15
      <3>2. CASE x # up /\ x \in moved
        <4>1. x \in Frame /\ g[x].parent = up /\ up \in Frame
          BY <3>2, <1>1, <1>2, <1>18
        <4>2. h[x].parent = other /\ other \in Frame
          BY <3>2, <4>1, <1>1, <1>4, <1>11
        <4> QED
          BY <4>1, <4>2, NullIsNoObject
      <3>3. CASE x # up /\ x \notin moved
        BY <3>3, <1>18
      <3> QED
        BY <3>1, <3>2, <3>3
    <2>2. h[f].parent # NULL /\ h[other].parent # NULL
      BY <1>4
    <2> QED
      BY <2>1, <2>2, <1>17 DEF Forest
  <1>22. ASSUME NEW x \in Allocated(g) PROVE \E r \in R : x \in Tree(g, r)
    <2>1. x \in Allocated(h) /\ x \notin {f, other}
      BY <1>17
    <2>2. PICK r \in R : x \in Tree(h, r)
      BY <2>1 DEF Forest
    <2>3. r \in Allocated(h) /\ r \in Allocated(g)
      BY <2>2, <1>21 DEF Forest
    <2>4. ASSUME NEW S \in SUBSET Allocated(g), r \in S, ClosedBelow(g, S)
          PROVE  x \in S
      <3> DEFINE T == S \cup (IF up \in S THEN {f, other} ELSE {})
      <3>1. T \in SUBSET Allocated(h) /\ r \in T
        BY <2>3, <2>4, <1>1, <1>4, <1>17
      <3>2. ASSUME NEW z \in T, ~h[z].isleaf
            PROVE  h[z].frames[0] \in T /\ h[z].frames[1] \in T
        <4>1. CASE z = up
          BY <4>1, <3>2, <1>4, <1>5, <1>6
        <4>2. CASE z = other
          <5>1. up \in S /\ ~g[up].isleaf
            BY <4>2, <3>2, <2>4, <1>12, <1>15, <1>17
          <5> QED
            BY <5>1, <4>2, <2>4, <1>12, <1>15 DEF ClosedBelow
        <4>3. CASE z \notin {up, other}
          <5>1. z \in S /\ z # f
            BY <4>3, <3>2, <1>1
          <5>2. g[z].isleaf = h[z].isleaf /\ g[z].frames = h[z].frames
            BY <5>1, <4>3, <2>4, <1>18
          <5> QED
            BY <5>1, <5>2, <2>4, <3>2 DEF ClosedBelow
        <4> QED
          BY <4>1, <4>2, <4>3
      <3>3. ClosedBelow(h, T)
        BY <3>2 DEF ClosedBelow
      <3>4. x \in T
        <4> HIDE DEF T
        <4> QED BY <2>2, <3>1, <3>3, InEveryClosedSetIfVisited
      <3> QED
        BY <3>4, <2>1
    <2> QED
      BY <2>2, <2>4, VisitedIfInEveryClosedSet
  <1>25. Grounded(g)
    <2>1. SUFFICES ASSUME NEW S \in SUBSET Allocated(g), Collected(g, S)
                   PROVE  S = Allocated(g)
      BY DEF Grounded
    <2> DEFINE T == S \cup {f} \cup (IF up \in S THEN {other} ELSE {})
    <2>2. ASSUME NEW z \in Allocated(h),
                 \/ h[z].isleaf
                 \/ h[z].frames[0] \in T /\ h[z].frames[1] \in T
          PROVE  z \in T
      <3>1. CASE z = f
        BY <3>1
      <3>2. CASE z = up
        BY <3>2, <2>2, <1>2, <1>4, <1>5, <1>6, <2>1, <1>17
      <3>3. CASE z = other
        <4>1. up \in Allocated(g)
          BY <1>2, <1>5, <1>6, <1>17
        <4>2. \/ h[z].isleaf
              \/ h[z].frames[0] \in S /\ h[z].frames[1] \in S
          <5>1. SUFFICES ASSUME ~h[other].isleaf, NEW i \in {0, 1}
                         PROVE  h[other].frames[i] \notin {f, other}
            BY <3>3, <2>2
          <5>2. h[h[other].frames[i]].parent = other /\ h[f].parent = up
            BY <5>1, <1>4 DEF Forest, NodeOK
          <5> QED
            BY <5>2, <1>4, <1>6
        <4>3. up \in S
          BY <4>1, <4>2, <3>3, <2>1, <1>12, <1>15 DEF Collected
        <4> QED
          BY <4>3, <3>3
      <3>4. CASE z \notin {f, up, other}
        <4>1. z \in Allocated(g)
          BY <3>4, <1>17
        <4>2. g[z].isleaf = h[z].isleaf /\ g[z].frames = h[z].frames
          BY <3>4, <4>1, <1>18
        <4>3. ASSUME ~h[z].isleaf, NEW i \in {0, 1}
              PROVE  h[z].frames[i] \notin {f, other}
          <5>1. h[h[z].frames[i]].parent = z /\ h[f].parent = up
            BY <4>3 DEF Forest, NodeOK
          <5> QED
            BY <5>1, <3>4, <1>4
        <4> QED
          BY <2>1, <2>2, <4>1, <4>2, <4>3 DEF Collected
      <3> QED
        BY <3>1, <3>2, <3>3, <3>4
    <2>3. T \in SUBSET Allocated(h)
      BY <2>1, <1>1, <1>4, <1>17
    <2> HIDE DEF T
    <2>4. T = Allocated(h)
      BY <2>2, <2>3 DEF Forest, Grounded, Collected
    <2> QED
      BY <2>1, <2>4, <1>17 DEF T
  <1>23. Forest(g, R)
    BY <1>19, <1>20, <1>21, <1>22, <1>25 DEF Forest
  <1>24. ASSUME NEW x \in Allocated(g) \ {up}
         PROVE  \/ g[x].parent = h[x].parent
                \/ g[x].parent = up /\ h[x].parent = other
    BY <1>1, <1>11, <1>17, <1>18
  <1> QED
    BY <1>2, <1>4, <1>5, <1>6, <1>12, <1>15, <1>16, <1>17, <1>18, <1>23, <1>24

(* Freeing all that a walk from a root visits leaves the other trees alone. *)
LEMMA DropKeepsForest ==
  ASSUME NEW h \in Heap, NEW R, Forest(h, R), NEW r \in R,
         NEW g \in Heap,
         \A f \in Frame : g[f] = IF f \in Tree(h, r) THEN NULL ELSE h[f]
  PROVE  /\ Allocated(g) = Allocated(h) \ Tree(h, r)
         /\ \A x \in Allocated(g) : g[x] = h[x]
         /\ Forest(g, R \ {r})
PROOF
  <1> DEFINE T == Tree(h, r)
  <1>1. r \in Allocated(h) /\ h[r].parent = NULL
    BY DEF Forest
  <1>2. T \subseteq Allocated(h) /\ r \in T /\ ClosedBelow(h, T)
    BY <1>1, TreeIsClosed
  <1>3. \A x \in T : x # r => h[x].parent \in T
    BY <1>1, TreeHasParents
  <1> HIDE DEF T
  <1>5. /\ Allocated(g) = Allocated(h) \ T
        /\ \A x \in Allocated(g) : g[x] = h[x]
    BY <1>2, NullIsNoNode DEF Allocated, T, Heap
  <1>6. ASSUME NEW x \in Allocated(g) PROVE NodeOK(g, x)
    <2>1. x \in Allocated(h) /\ x \notin T /\ g[x] = h[x] /\ NodeOK(h, x)
      BY <1>5 DEF Forest
    <2>2. ASSUME ~h[x].isleaf, NEW i \in {0, 1}
          PROVE  h[x].frames[i] \in Allocated(g) /\ g[h[x].frames[i]].parent = x
      <3>1. h[x].frames[i] \in Allocated(h) /\ h[h[x].frames[i]].parent = x
        BY <2>1, <2>2 DEF NodeOK
      <3>2. x # NULL
        BY <2>1, NullIsNoObject DEF Allocated
      <3>3. h[x].frames[i] \notin T
        BY <2>1, <3>1, <3>2, <1>1, <1>3
      <3> QED
        BY <3>1, <3>3, <1>5
    <2>3. ASSUME h[x].parent # NULL
          PROVE  /\ h[x].parent \in Allocated(g) /\ ~g[h[x].parent].isleaf
                 /\ x \in {g[h[x].parent].frames[0], g[h[x].parent].frames[1]}
      <3>1. /\ h[x].parent \in Allocated(h) /\ ~h[h[x].parent].isleaf
            /\ x \in {h[h[x].parent].frames[0], h[h[x].parent].frames[1]}
        BY <2>1, <2>3 DEF NodeOK
      <3>2. h[x].parent \notin T
        BY <2>1, <3>1, <1>2 DEF ClosedBelow
      <3> QED
        BY <3>1, <3>2, <1>5
    <2> QED
      BY <2>1, <2>2, <2>3 DEF NodeOK
  <1>7. {x \in Allocated(g) : g[x].parent = NULL} = R \ {r}
    <2>1. \A x \in T : h[x].parent = NULL => x = r
      BY <1>2, <1>3, NullIsNoObject DEF Allocated
    <2> QED
      BY <2>1, <1>2, <1>5 DEF Forest
  <1>8. ASSUME NEW x \in Allocated(g)
        PROVE  \E q \in R \ {r} : x \in Tree(g, q)
    <2>1. x \in Allocated(h) /\ x \notin T
      BY <1>5
    <2>2. PICK q \in R : x \in Tree(h, q)
      BY <2>1 DEF Forest
    <2>3. q # r /\ q \in Allocated(g)
      BY <2>1, <2>2, <1>7 DEF T
    <2>4. ASSUME NEW S \in SUBSET Allocated(g), q \in S, ClosedBelow(g, S)
          PROVE  x \in S
      <3>1. S \cup T \in SUBSET Allocated(h) /\ q \in S \cup T
        BY <2>4, <1>2, <1>5
      <3>2. ClosedBelow(h, S \cup T)
        BY <2>4, <1>2, <1>5 DEF ClosedBelow
      <3>3. x \in S \cup T
        BY <2>2, <3>1, <3>2, InEveryClosedSetIfVisited
      <3> QED
        BY <3>3, <2>1
    <2> QED
      BY <2>2, <2>3, <2>4, VisitedIfInEveryClosedSet
  <1>9. Grounded(g)
    <2>1. SUFFICES ASSUME NEW S \in SUBSET Allocated(g), Collected(g, S)
                   PROVE  S = Allocated(g)
      BY DEF Grounded
    <2>2. ASSUME NEW z \in Allocated(h) \ T,
                 \/ h[z].isleaf
                 \/ h[z].frames[0] \in S \cup T /\ h[z].frames[1] \in S \cup T
          PROVE  z \in S
      <3>1. z \in Allocated(g) /\ g[z] = h[z] /\ NodeOK(g, z)
        BY <1>5, <1>6
      <3>2. ~g[z].isleaf => g[z].frames[0] \notin T /\ g[z].frames[1] \notin T
        BY <3>1, <1>5 DEF NodeOK
      <3> QED
        BY <2>1, <2>2, <3>1, <3>2 DEF Collected
    <2>3. Collected(h, S \cup T) /\ S \cup T \in SUBSET Allocated(h)
      BY <2>1, <2>2, <1>2, <1>5 DEF Collected
    <2>4. S \cup T = Allocated(h)
      BY <2>3 DEF Forest, Grounded
    <2> QED
      BY <2>1, <2>4, <1>5
  <1> QED
    BY <1>5, <1>6, <1>7, <1>8, <1>9 DEF Forest, T

(* A fresh node without a parent is a tree of its own. *)
LEMMA PushKeepsForest ==
  ASSUME NEW h \in Heap, NEW R, Forest(h, R), NEW f \in Free(h),
         NEW g \in Heap, g[f] = split_new(NULL, NULL),
         \A x \in Frame : x # f => g[x] = h[x]
  PROVE  /\ Allocated(g) = Allocated(h) \cup {f}
         /\ \A x \in Allocated(h) : g[x] = h[x]
         /\ g[f].isleaf /\ g[f].win = NULL
         /\ f \notin Allocated(h)
         /\ Forest(g, R \cup {f})
PROOF
  <1> DEFINE n == split_new(NULL, NULL)
  <1>1. n \in Node /\ n # NULL /\ n.isleaf /\ n.parent = NULL /\ n.win = NULL
        /\ n.frames = Children(NULL, NULL)
    BY SplitNewIsNode
  <1> HIDE DEF n
  <1>2. f \in Frame /\ f \notin Allocated(h)
    BY DEF Free, Allocated
  <1>3. g[f] = n /\ \A x \in Frame \ {f} : g[x] = h[x]
    BY DEF n
  <1>4. /\ Allocated(g) = Allocated(h) \cup {f}
        /\ \A x \in Allocated(h) : g[x] = h[x]
    BY <1>1, <1>2, <1>3 DEF Allocated
  <1>5. ASSUME NEW x \in Allocated(g) PROVE NodeOK(g, x)
    <2>1. CASE x = f
      BY <2>1, <1>1, <1>3 DEF NodeOK
    <2>2. CASE x # f
      <3>1. x \in Allocated(h) /\ NodeOK(h, x)
        BY <2>2, <1>4 DEF Forest
      <3> QED
        BY <3>1, <1>4 DEF NodeOK
    <2> QED
      BY <2>1, <2>2
  <1>6. {x \in Allocated(g) : g[x].parent = NULL} = R \cup {f}
    BY <1>1, <1>3, <1>4 DEF Forest
  <1>7. ASSUME NEW x \in Allocated(g)
        PROVE  \E r \in R \cup {f} : x \in Tree(g, r)
    <2>1. CASE x = f
      BY <2>1, <1>4, VisitedIfInEveryClosedSet
    <2>2. CASE x # f
      <3>1. x \in Allocated(h)
        BY <2>2, <1>4
      <3>2. PICK r \in R : x \in Tree(h, r)
        BY <3>1 DEF Forest
      <3>3. r \in Allocated(h)
        BY <3>2 DEF Forest
      <3>4. ASSUME NEW S \in SUBSET Allocated(g), r \in S, ClosedBelow(g, S)
            PROVE  x \in S
        <4>1. ASSUME NEW z \in S \cap Allocated(h), ~h[z].isleaf
              PROVE  /\ h[z].frames[0] \in S \cap Allocated(h)
                     /\ h[z].frames[1] \in S \cap Allocated(h)
          <5>1. h[z].frames[0] \in Allocated(h) /\ h[z].frames[1] \in Allocated(h)
            BY <4>1 DEF Forest, NodeOK
          <5>2. h[z].frames[0] \in S /\ h[z].frames[1] \in S
            BY <3>4, <4>1, <1>4 DEF ClosedBelow
          <5> QED
            BY <5>1, <5>2
        <4>2. ClosedBelow(h, S \cap Allocated(h))
          BY <4>1 DEF ClosedBelow
        <4> QED
          BY <3>2, <3>3, <3>4, <4>2, InEveryClosedSetIfVisited
      <3> QED
        BY <3>2, <3>4, VisitedIfInEveryClosedSet
    <2> QED
      BY <2>1, <2>2
  <1>8. Grounded(g)
    <2>1. SUFFICES ASSUME NEW S \in SUBSET Allocated(g), Collected(g, S)
                   PROVE  S = Allocated(g)
      BY DEF Grounded
    <2>2. f \in S
      BY <2>1, <1>1, <1>3, <1>4 DEF Collected
    <2>3. Collected(h, S \cap Allocated(h))
      BY <2>1, <1>4 DEF Collected
    <2>4. S \cap Allocated(h) = Allocated(h)
      BY <2>3 DEF Forest, Grounded
    <2> QED
      BY <2>2, <2>4, <1>4
  <1> QED
    BY <1>1, <1>2, <1>3, <1>4, <1>5, <1>6, <1>7, <1>8 DEF Forest

-----------------------------------------------------------------------------
(***************************************************************************)
(* do_split_move(): a walk up the tree and down again.  Its two recursive  *)
(* functions are tail recursive, so that each has a solution: the end that *)
(* is reached from a place.  That an end is reached follows from the shape *)
(* of the forest.                                                          *)
(***************************************************************************)

(* The places of the walk, and one round of it down and up, with the        *)
(* functions that go on.                                                    *)
Place(h) == Allocated(h) \X Int \X Int

Down(h, vertical, increasing, descend, at) ==
  LET n   == h[at[1]]
      num == at[2]
      den == at[3]
      p   == n.fraction[1]
      q   == n.fraction[2]
  IN  IF n.isleaf THEN at[1]
      ELSE IF n.isvertical = vertical
        THEN descend[<<n.frames[IF increasing THEN 0 ELSE 1], num, den>>]
      ELSE IF num * q <= p * den
        THEN descend[<<n.frames[0], num * q, den * p>>]
        ELSE descend[<<n.frames[1], num * q - p * den, den * (q - p)>>]

Up(h, start, vertical, increasing, descend, climb, at) ==
  LET up    == h[at[1]].parent
      num   == at[2]
      den   == at[3]
      first == h[up].frames[0] = at[1]
      p     == h[up].fraction[1]
      q     == h[up].fraction[2]
  IN  IF up = NULL THEN start
      ELSE IF h[up].isvertical # vertical
        THEN IF first
             THEN climb[<<up, num * p, den * q>>]
             ELSE climb[<<up, p * den + (q - p) * num, den * q>>]
      ELSE IF first = increasing
        THEN descend[<<h[up].frames[IF increasing THEN 1 ELSE 0], num, den>>]
        ELSE climb[<<up, num, den>>]

Descent(h, vertical, increasing) ==
  CHOOSE descend :
    descend = [at \in Place(h) |-> Down(h, vertical, increasing, descend, at)]

Climb(h, start, vertical, increasing) ==
  LET descend == Descent(h, vertical, increasing)
  IN  CHOOSE climb :
        climb = [at \in Place(h) |->
                   Up(h, start, vertical, increasing, descend, climb, at)]

LEMMA MoveClimbs ==
  ASSUME NEW h, NEW start, NEW vertical, NEW increasing
  PROVE  do_split_move(h, start, vertical, increasing)
           = Climb(h, start, vertical, increasing)[<<start, 1, 2>>]
BY DEF do_split_move, Climb, Descent, Place, Down, Up

LEMMA DescentIsWalk ==
  ASSUME NEW h \in Heap, NEW R, Forest(h, R),
         NEW vertical \in BOOLEAN, NEW increasing \in BOOLEAN,
         NEW descend, descend = Descent(h, vertical, increasing)
  PROVE  descend = [at \in Place(h) |-> Down(h, vertical, increasing, descend, at)]
PROOF
  <1> DEFINE E == Place(h)
             Ends == {at \in E : h[at[1]].isleaf}
             out == [at \in E |-> at[1]]
             next == [at \in E |->
               LET n   == h[at[1]]
                   num == at[2]
                   den == at[3]
                   p   == n.fraction[1]
                   q   == n.fraction[2]
               IN  IF n.isvertical = vertical
                     THEN <<n.frames[IF increasing THEN 0 ELSE 1], num, den>>
                   ELSE IF num * q <= p * den
                     THEN <<n.frames[0], num * q, den * p>>
                     ELSE <<n.frames[1], num * q - p * den, den * (q - p)>>]
  <1>1. ASSUME NEW at \in E, at \notin Ends
        PROVE  next[at] \in E
    <2>1. at[1] \in Allocated(h) /\ at[2] \in Int /\ at[3] \in Int /\ ~h[at[1]].isleaf
      BY <1>1 DEF Place
    <2>2. /\ h[at[1]].frames[0] \in Allocated(h) /\ h[at[1]].frames[1] \in Allocated(h)
      BY <2>1 DEF Forest, NodeOK
    <2>3. h[at[1]].fraction[1] \in Int /\ h[at[1]].fraction[2] \in Int
      BY <2>1 DEF Heap, Allocated, Node, Fraction
    <2> QED
      BY <1>1, <2>1, <2>2, <2>3 DEF Place
  <1>2. ASSUME NEW v, NEW at \in E
        PROVE  (IF at \in Ends THEN out[at] ELSE v[next[at]])
               = Down(h, vertical, increasing, v, at)
    <2>1. CASE at \in Ends
      BY <2>1 DEF Down
    <2>2. CASE at \notin Ends
      <3>1. at \in E /\ ~h[at[1]].isleaf
        BY <2>2
      <3>2. v[next[at]] = Down(h, vertical, increasing, v, at)
        <4>1. CASE h[at[1]].isvertical = vertical
          BY <3>1, <4>1 DEF Down
        <4>2. CASE h[at[1]].isvertical # vertical
          BY <3>1, <4>2 DEF Down
        <4> QED
          BY <4>1, <4>2
      <3> QED
        BY <2>2, <3>2
    <2> QED
      BY <2>1, <2>2
  <1>3. PICK v : Solves(v, E, Ends, out, next)
    <2> HIDE DEF E, Ends, out, next
    <2> QED BY <1>1, TailRecursion
  <1>4. v = [at \in E |-> Down(h, vertical, increasing, v, at)]
    <2>1. v = [at \in E |-> IF at \in Ends THEN out[at] ELSE v[next[at]]]
      BY <1>3 DEF Solves
    <2> HIDE DEF E, Ends, out, next
    <2> QED BY <1>2, <2>1
  <1> QED
    BY <1>4 DEF Descent

LEMMA ClimbIsWalk ==
  ASSUME NEW h \in Heap, NEW R, Forest(h, R), NEW start,
         NEW vertical \in BOOLEAN, NEW increasing \in BOOLEAN,
         NEW descend, descend = Descent(h, vertical, increasing),
         NEW climb, climb = Climb(h, start, vertical, increasing)
  PROVE  climb = [at \in Place(h) |->
                    Up(h, start, vertical, increasing, descend, climb, at)]
PROOF
  <1> DEFINE E == Place(h)
             up(at) == h[at[1]].parent
             first(at) == h[up(at)].frames[0] = at[1]
             Ends == {at \in E : \/ up(at) = NULL
                                 \/ /\ h[up(at)].isvertical = vertical
                                    /\ first(at) = increasing}
             out == [at \in E |->
               IF up(at) = NULL THEN start
               ELSE descend[<<h[up(at)].frames[IF increasing THEN 1 ELSE 0],
                              at[2], at[3]>>]]
             next == [at \in E |->
               LET num == at[2]
                   den == at[3]
                   p   == h[up(at)].fraction[1]
                   q   == h[up(at)].fraction[2]
               IN  IF h[up(at)].isvertical # vertical
                     THEN IF first(at)
                          THEN <<up(at), num * p, den * q>>
                          ELSE <<up(at), p * den + (q - p) * num, den * q>>
                     ELSE <<up(at), num, den>>]
  <1>1. ASSUME NEW at \in E, at \notin Ends
        PROVE  next[at] \in E
    <2>1. at[1] \in Allocated(h) /\ at[2] \in Int /\ at[3] \in Int /\ up(at) # NULL
      BY <1>1 DEF Place
    <2>2. up(at) \in Allocated(h)
      BY <2>1 DEF Forest, NodeOK
    <2>3. h[up(at)].fraction[1] \in Int /\ h[up(at)].fraction[2] \in Int
      BY <2>2 DEF Heap, Allocated, Node, Fraction
    <2> HIDE DEF up, first
    <2> QED
      BY <1>1, <2>1, <2>2, <2>3 DEF Place
  <1>2. ASSUME NEW v, NEW at \in E
        PROVE  (IF at \in Ends THEN out[at] ELSE v[next[at]])
               = Up(h, start, vertical, increasing, descend, v, at)
    <2>1. CASE up(at) = NULL
      BY <2>1 DEF Up
    <2>2. CASE /\ up(at) # NULL
               /\ h[up(at)].isvertical = vertical /\ first(at) = increasing
      BY <2>2 DEF Up
    <2>3. CASE /\ up(at) # NULL
               /\ h[up(at)].isvertical = vertical /\ first(at) # increasing
      BY <2>3 DEF Up
    <2>4. CASE up(at) # NULL /\ h[up(at)].isvertical # vertical
      BY <2>4 DEF Up
    <2> QED
      BY <2>1, <2>2, <2>3, <2>4
  <1>3. PICK v : Solves(v, E, Ends, out, next)
    <2> HIDE DEF E, Ends, out, next
    <2> QED BY <1>1, TailRecursion
  <1>4. v = [at \in E |-> Up(h, start, vertical, increasing, descend, v, at)]
    <2>1. v = [at \in E |-> IF at \in Ends THEN out[at] ELSE v[next[at]]]
      BY <1>3 DEF Solves
    <2> HIDE DEF E, Ends, out, next
    <2> QED BY <1>2, <2>1
  <1> QED
    BY <1>4 DEF Climb

(* A move ends at a leaf, and on the screen where it started: no frame lies *)
(* on another screen than its parent.                                       *)
LEMMA MoveStays ==
  ASSUME NEW h \in Heap, NEW R, Forest(h, R), NEW start \in Leaves(h),
         \A f, p \in Allocated(h) : h[f].parent = p => h[f].screen = h[p].screen,
         NEW vertical \in BOOLEAN, NEW increasing \in BOOLEAN,
         NEW new, new = do_split_move(h, start, vertical, increasing)
  PROVE  new \in Leaves(h) /\ h[new].screen = h[start].screen
PROOF
  <1> DEFINE Here == {f \in Allocated(h) : h[f].screen = h[start].screen}
             Good == Leaves(h) \cap Here
             descend == Descent(h, vertical, increasing)
             climb == Climb(h, start, vertical, increasing)
  <1>1. descend = [at \in Place(h) |-> Down(h, vertical, increasing, descend, at)]
    BY DescentIsWalk
  <1>2. climb = [at \in Place(h) |->
                   Up(h, start, vertical, increasing, descend, climb, at)]
    BY ClimbIsWalk
  <1> HIDE DEF descend, climb
  <1>3. \A f \in Allocated(h) :
          /\ h[f].fraction[1] \in Int /\ h[f].fraction[2] \in Int
          /\ h[f].isleaf \in BOOLEAN /\ h[f].isvertical \in BOOLEAN
    <2>1. \A f \in Allocated(h) : h[f] \in Node
      BY DEF Heap, Allocated
    <2> QED
      BY <2>1 DEF Node, Fraction
  <1>4. start \in Good
    BY DEF Leaves
  <1>5. \A f \in Here, i \in {0, 1} : ~h[f].isleaf => h[f].frames[i] \in Here
    BY DEF Forest, NodeOK
  <1>6. \A f \in Here : h[f].parent # NULL =>
          /\ h[f].parent \in Here /\ ~h[h[f].parent].isleaf
          /\ f \in {h[h[f].parent].frames[0], h[h[f].parent].frames[1]}
    BY DEF Forest, NodeOK
  <1>7. \A f \in Here, num, den \in Int : descend[<<f, num, den>>] \in Good
    <2> DEFINE S == {f \in Allocated(h) : f \in Here =>
                       \A num, den \in Int : descend[<<f, num, den>>] \in Good}
    <2>1. ASSUME NEW f \in Here, f \notin S,
                 h[f].isleaf \/ (h[f].frames[0] \in S /\ h[f].frames[1] \in S)
          PROVE  FALSE
      <3>1. PICK num \in Int, den \in Int : descend[<<f, num, den>>] \notin Good
        BY <2>1
      <3> DEFINE at == <<f, num, den>>
      <3>2. at \in Place(h) /\ at[1] = f /\ at[2] = num /\ at[3] = den
        BY DEF Place
      <3> HIDE DEF at
      <3>3. descend[at] = Down(h, vertical, increasing, descend, at)
        BY <1>1, <3>2
      <3>4. CASE h[f].isleaf
        BY <3>1, <3>2, <3>3, <3>4 DEF Down, Leaves, at
      <3>5. CASE ~h[f].isleaf
        <4>1. \A i \in {0, 1}, n, d \in Int :
                descend[<<h[f].frames[i], n, d>>] \in Good
          BY <1>5, <2>1, <3>5
        <4> DEFINE p == h[f].fraction[1]
                   q == h[f].fraction[2]
        <4>2. /\ p \in Int /\ q \in Int /\ num * q \in Int /\ den * p \in Int
              /\ num * q - p * den \in Int /\ den * (q - p) \in Int
          BY <1>3
        <4> HIDE DEF Good
        <4>3. descend[at] \in Good
          BY <3>2, <3>3, <3>5, <4>1, <4>2 DEF Down
        <4> QED
          BY <3>1, <4>3 DEF at
      <3> QED
        BY <3>4, <3>5, <1>3
    <2>2. Collected(h, S)
      BY <2>1 DEF Collected
    <2>3. S = Allocated(h)
      <3> HIDE DEF S
      <3>1. S \in SUBSET Allocated(h)
        BY DEF S
      <3> QED
        BY <2>2, <3>1 DEF Forest, Grounded
    <2> QED
      BY <2>3
  <1>8. \A f \in Here, num, den \in Int : climb[<<f, num, den>>] \in Good
    <2> DEFINE S == {f \in Allocated(h) : f \in Here =>
                       \A num, den \in Int : climb[<<f, num, den>>] \in Good}
    <2>1. ASSUME NEW f \in Here, h[f].parent # NULL => h[f].parent \in S,
                 NEW num \in Int, NEW den \in Int
          PROVE  climb[<<f, num, den>>] \in Good
      <3> DEFINE at == <<f, num, den>>
                 up == h[f].parent
      <3>1. at \in Place(h) /\ at[1] = f /\ at[2] = num /\ at[3] = den
        BY DEF Place
      <3> HIDE DEF at, Good
      <3>2. climb[at] = Up(h, start, vertical, increasing, descend, climb, at)
        BY <1>2, <3>1
      <3>3. CASE up = NULL
        BY <1>4, <3>1, <3>2, <3>3 DEF Up, at
      <3>4. CASE up # NULL
        <4>1. up \in Here /\ ~h[up].isleaf
          BY <1>6, <3>4
        <4>2. \A n, d \in Int : climb[<<up, n, d>>] \in Good
          BY <2>1, <3>4, <4>1
        <4>3. \A i \in {0, 1} : descend[<<h[up].frames[i], num, den>>] \in Good
          BY <1>5, <1>7, <4>1
        <4> DEFINE p == h[up].fraction[1]
                   q == h[up].fraction[2]
        <4>4. /\ p \in Int /\ q \in Int /\ num * p \in Int /\ den * q \in Int
              /\ p * den + (q - p) * num \in Int
          BY <1>3, <4>1
        <4>5. climb[at] \in Good
          BY <3>1, <3>2, <3>4, <4>2, <4>3, <4>4 DEF Up
        <4> QED
          BY <4>5 DEF at
      <3> QED
        BY <3>3, <3>4
    <2>2. ASSUME NEW f \in Here PROVE f \in S
      <3>1. PICK r \in R : f \in Tree(h, r)
        BY DEF Forest
      <3>2. r \in Allocated(h) /\ h[r].parent = NULL
        BY <3>1 DEF Forest
      <3>3. S \in SUBSET Allocated(h) /\ r \in S
        BY <2>1, <3>2
      <3>4. \A g \in S, i \in {0, 1} : ~h[g].isleaf => h[g].frames[i] \in S
        <4> SUFFICES ASSUME NEW g \in S, NEW i \in {0, 1}, ~h[g].isleaf
                     PROVE  h[g].frames[i] \in S
          OBVIOUS
        <4> DEFINE c == h[g].frames[i]
        <4>1. c \in Allocated(h) /\ h[c].parent = g
          BY DEF Forest, NodeOK
        <4>2. c \in Here => \A num, den \in Int : climb[<<c, num, den>>] \in Good
          BY <2>1, <4>1
        <4> QED
          BY <4>1, <4>2
      <3> HIDE DEF S
      <3>5. ClosedBelow(h, S)
        BY <3>4 DEF ClosedBelow
      <3> QED
        BY <3>1, <3>3, <3>5, InEveryClosedSetIfVisited
    <2> QED
      BY <2>2
  <1>9. new = climb[<<start, 1, 2>>]
    BY MoveClimbs DEF climb
  <1> QED
    BY <1>4, <1>8, <1>9

-----------------------------------------------------------------------------

(***************************************************************************)
(* The invariant, of a state record.  Inside a handler a window can be     *)
(* loose: taken out of the hidden queue and not yet in a frame.            *)
(***************************************************************************)
Trees(s) == Forest(s.split, Elems(s.roots)) /\ Distinct(s.roots)

Queued(s, loose) ==
  /\ Distinct(s.hidden)
  /\ loose \subseteq s.windows
  /\ Elems(s.hidden) = {w \in s.windows \ loose : s.frame[w] = NULL}

Framed(s, loose) ==
  /\ \A w \in Window : s.frame[w] # NULL =>
       /\ w \in s.windows \ loose
       /\ s.frame[w] \in Allocated(s.split)
       /\ s.split[s.frame[w]].win = w
  /\ \A f \in Allocated(s.split) : s.split[f].win # NULL =>
       s.split[f].isleaf /\ s.frame[s.split[f].win] = f

Lit(s) ==
  /\ \A w \in Window : s.shown[w] # NULL <=> s.frame[w] # NULL
  /\ s.be_focus # NULL => s.frame[s.be_focus] # NULL

(* A frame is on the screen of its parent, and a root on the screen at its  *)
(* own place in the list.                                                   *)
Inherited(s) ==
  \A f, p \in Allocated(s.split) :
    s.split[f].parent = p => s.split[f].screen = s.split[p].screen

Hung(s) ==
  \A f \in Allocated(s.split), i \in 1..Len(s.roots) :
    f = s.roots[i] => s.split[f].screen = s.g_screens[i]

OnScreens(s) ==
  /\ \A f \in Allocated(s.split) : s.split[f].screen # NULL
  /\ Inherited(s) /\ Hung(s)

Core(s, loose) ==
  s \in State /\ Trees(s) /\ Queued(s, loose) /\ Framed(s, loose) /\ Lit(s)

Plugged(s) ==
  s.phase \in {"running", "terminated"} =>
    /\ Len(s.roots) = Len(s.g_screens)
    /\ Distinct(s.g_screens)
    /\ Elems(s.g_screens) = s.be_screens

FocusOK(s) == s.g_screens # <<>> => s.focus \in Leaves(s.split)

Whole(s) == Core(s, {}) /\ OnScreens(s) /\ Plugged(s) /\ FocusOK(s)

(* The fields that the operators on single frames leave alone. *)
Aside(s, t) ==
  /\ t.roots = s.roots /\ t.windows = s.windows
  /\ t.g_screens = s.g_screens /\ t.be_screens = s.be_screens
  /\ t.phase = s.phase

-----------------------------------------------------------------------------
(* What is on one screen: all of a tree, as its frames inherit the screen.  *)
LEMMA TreeOnOneScreen ==
  ASSUME NEW s, s \in State, NEW R, Forest(s.split, R), Inherited(s),
         NEW r \in Allocated(s.split), NEW f \in Tree(s.split, r)
  PROVE  s.split[f].screen = s.split[r].screen
PROOF
  <1> DEFINE S == {x \in Allocated(s.split) : s.split[x].screen = s.split[r].screen}
  <1>1. ASSUME NEW x \in S, ~s.split[x].isleaf, NEW i \in {0, 1}
        PROVE  s.split[x].frames[i] \in S
    <2>1. /\ s.split[x].frames[i] \in Allocated(s.split)
          /\ s.split[s.split[x].frames[i]].parent = x
      BY <1>1 DEF Forest, NodeOK
    <2> QED
      BY <2>1 DEF Inherited
  <1>2. S \in SUBSET Allocated(s.split) /\ r \in S /\ ClosedBelow(s.split, S)
    BY <1>1 DEF ClosedBelow
  <1>3. f \in S
    BY <1>2, InEveryClosedSetIfVisited
  <1> QED
    BY <1>3

-----------------------------------------------------------------------------
(* The operators, one by one.                                               *)

LEMMA HideEffect ==
  ASSUME NEW s \in State, NEW w \in Window, NEW t, t = be_window_hide(s, w)
  PROVE  /\ t \in State /\ Aside(s, t)
         /\ t.split = s.split /\ t.focus = s.focus /\ t.hidden = s.hidden
         /\ t.frame = s.frame
         /\ \A v \in Window : t.shown[v] = IF v = w THEN NULL ELSE s.shown[v]
         /\ t.be_focus = IF s.shown[w] # NULL /\ s.be_focus = w THEN NULL
                         ELSE s.be_focus
PROOF
  <1>1. CASE s.shown[w] = NULL
    BY <1>1 DEF be_window_hide, Aside
  <1>2. CASE s.shown[w] # NULL
    BY <1>2 DEF be_window_hide, Aside, State, Faults
  <1> QED
    BY <1>1, <1>2

LEMMA ShowEffect ==
  ASSUME NEW s \in State, NEW w \in Window, NEW screen \in Screen,
         NEW t, t = be_window_show(s, w, screen)
  PROVE  /\ t \in State /\ Aside(s, t)
         /\ t.split = s.split /\ t.focus = s.focus /\ t.hidden = s.hidden
         /\ t.frame = s.frame /\ t.be_focus = s.be_focus
         /\ \A v \in Window : t.shown[v] =
              IF v = w /\ s.shown[v] = NULL THEN screen ELSE s.shown[v]
PROOF
  <1>1. CASE s.shown[w] # NULL
    BY <1>1 DEF be_window_show, Aside
  <1>2. CASE s.shown[w] = NULL
    BY <1>2 DEF be_window_show, Aside, State
  <1> QED
    BY <1>1, <1>2

LEMMA RemoveEffect ==
  ASSUME NEW s \in State, NEW f \in Frame, f \in Allocated(s.split),
         NEW w \in Window, w = s.split[f].win, NEW prepend \in BOOLEAN,
         NEW t, t = workspace_remove_window_from_frame(s, f, prepend)
  PROVE  /\ t \in State /\ Aside(s, t)
         /\ t.split = [s.split EXCEPT ![f].win = NULL]
         /\ t.focus = s.focus
         /\ t.hidden = IF prepend THEN <<w>> \o s.hidden ELSE Append(s.hidden, w)
         /\ \A v \in Window : t.frame[v] = IF v = w THEN NULL ELSE s.frame[v]
         /\ \A v \in Window : t.shown[v] = IF v = w THEN NULL ELSE s.shown[v]
         /\ t.be_focus = IF s.shown[w] # NULL /\ s.be_focus = w THEN NULL
                         ELSE s.be_focus
PROOF
  <1> DEFINE u == be_window_hide(s, w)
  <1>1. /\ u \in State /\ Aside(s, u)
        /\ u.split = s.split /\ u.focus = s.focus /\ u.hidden = s.hidden
        /\ u.frame = s.frame
        /\ \A v \in Window : u.shown[v] = IF v = w THEN NULL ELSE s.shown[v]
        /\ u.be_focus = IF s.shown[w] # NULL /\ s.be_focus = w THEN NULL
                        ELSE s.be_focus
    BY HideEffect
  <1>2. f # NULL /\ w # NULL
    BY NullIsNoObject
  <1>3. t = [u EXCEPT !.split[f].win = NULL,
                      !.frame[w] = NULL,
                      !.hidden = IF prepend THEN <<w>> \o @ ELSE Append(@, w)]
    BY <1>2 DEF workspace_remove_window_from_frame
  <1> HIDE DEF u
  <1>4. s.split[f] \in Node
    BY DEF State, Heap, Allocated
  <1>5. [s.split EXCEPT ![f].win = NULL] \in Heap
    <2>1. [s.split[f] EXCEPT !.win = NULL] \in Node
      BY <1>4 DEF Node
    <2> QED
      BY <2>1 DEF State, Heap
  <1>6. /\ Append(s.hidden, w) \in Seq(Window) /\ <<w>> \o s.hidden \in Seq(Window)
    BY DEF State
  <1>7. [s.frame EXCEPT ![w] = NULL] \in [Window -> Frame \cup {NULL}]
    BY DEF State
  <1>8. t = [u EXCEPT !.split = [s.split EXCEPT ![f].win = NULL],
                      !.frame = [s.frame EXCEPT ![w] = NULL],
                      !.hidden = IF prepend THEN <<w>> \o s.hidden
                                            ELSE Append(s.hidden, w)]
    BY <1>1, <1>3 DEF State
  <1>9. \A v \in Window : [s.frame EXCEPT ![w] = NULL][v] =
                            IF v = w THEN NULL ELSE s.frame[v]
    BY DEF State
  <1>10. t \in State
    <2> DEFINE q == IF prepend THEN <<w>> \o s.hidden ELSE Append(s.hidden, w)
               h == [s.split EXCEPT ![f].win = NULL]
               m == [s.frame EXCEPT ![w] = NULL]
    <2>1. q \in Seq(Window) /\ h \in Heap /\ m \in [Window -> Frame \cup {NULL}]
      BY <1>5, <1>6, <1>7
    <2>2. t = [u EXCEPT !.split = h, !.frame = m, !.hidden = q]
      BY <1>8
    <2> HIDE DEF q, h, m
    <2> QED
      BY <1>1, <2>1, <2>2 DEF State
  <1> QED
    BY <1>1, <1>8, <1>9, <1>10 DEF State, Aside

LEMMA DrawEffect ==
  ASSUME NEW s \in State, NEW f \in Frame, f \in Allocated(s.split),
         NEW w \in Window \cup {NULL},
         NEW t, t = draw_window(s, w, f)
  PROVE  /\ t \in State /\ Aside(s, t)
         /\ t.split = [s.split EXCEPT ![f].win = w]
         /\ t.focus = s.focus /\ t.hidden = s.hidden
         /\ t.be_focus = s.be_focus
         /\ \A v \in Window : t.frame[v] = IF v = w THEN f ELSE s.frame[v]
         /\ \A v \in Window : t.shown[v] =
              IF v = w /\ s.shown[v] = NULL THEN s.split[f].screen ELSE s.shown[v]
PROOF
  <1>1. s.split[f] \in Node
    BY DEF State, Heap, Allocated
  <1>2. [s.split EXCEPT ![f].win = w] \in Heap
    <2>1. [s.split[f] EXCEPT !.win = w] \in Node
      BY <1>1 DEF Node
    <2> QED
      BY <2>1 DEF State, Heap
  <1>3. CASE w = NULL
    BY <1>2, <1>3, NullIsNoObject DEF draw_window, State, Aside
  <1>4. CASE w # NULL
    <2> DEFINE u == [s EXCEPT !.split[f].win = w, !.frame[w] = f]
    <2>1. w \in Window
      BY <1>4
    <2>2. /\ u \in State /\ Aside(s, u)
          /\ u.split = [s.split EXCEPT ![f].win = w]
          /\ u.focus = s.focus /\ u.hidden = s.hidden
          /\ u.be_focus = s.be_focus /\ u.shown = s.shown
          /\ \A v \in Window : u.frame[v] = IF v = w THEN f ELSE s.frame[v]
      BY <1>2, <2>1 DEF State, Aside
    <2>3. t = IF s.split[f].screen = NULL THEN u
              ELSE be_window_show(u, w, s.split[f].screen)
      BY <1>4 DEF draw_window
    <2> HIDE DEF u
    <2>4. CASE s.split[f].screen = NULL
      BY <2>2, <2>3, <2>4
    <2>5. CASE s.split[f].screen # NULL
      <3>1. s.split[f].screen \in Screen
        BY <1>1, <2>5 DEF Node
      <3>2. /\ t \in State /\ Aside(u, t)
            /\ t.split = u.split /\ t.focus = u.focus /\ t.hidden = u.hidden
            /\ t.frame = u.frame /\ t.be_focus = u.be_focus
            /\ \A v \in Window : t.shown[v] =
                 IF v = w /\ u.shown[v] = NULL THEN s.split[f].screen ELSE u.shown[v]
        BY <2>1, <2>2, <2>3, <2>5, <3>1, ShowEffect
      <3> QED
        BY <2>2, <3>2 DEF Aside
    <2> QED
      BY <2>4, <2>5
  <1> QED
    BY <1>3, <1>4

LEMMA FocusEffect ==
  ASSUME NEW s \in State, NEW f \in Frame, f \in Allocated(s.split),
         NEW t, t = workspace_focus_frame(s, f)
  PROVE  /\ t \in State /\ Aside(s, t)
         /\ t.split = s.split /\ t.hidden = s.hidden
         /\ t.frame = s.frame /\ t.shown = s.shown
         /\ t.focus = f /\ t.be_focus = s.split[f].win
PROOF
  <1>1. s.split[f].win \in Window \cup {NULL}
    BY DEF State, Heap, Allocated, Node
  <1> QED
    BY <1>1 DEF workspace_focus_frame, State, Aside

-----------------------------------------------------------------------------
(* What the operators do to the invariant.                                  *)

(* Two heaps with the same frames, that may differ in the windows. *)
SameFrames(h, g) ==
  /\ Allocated(g) = Allocated(h)
  /\ \A f \in Allocated(h) : /\ g[f].isleaf = h[f].isleaf
                             /\ g[f].parent = h[f].parent
                             /\ g[f].frames = h[f].frames
                             /\ g[f].screen = h[f].screen

LEMMA WinKeepsFrames ==
  ASSUME NEW h \in Heap, NEW g \in Heap, NEW f \in Allocated(h),
         NEW w \in Window \cup {NULL},
         g[f] = [h[f] EXCEPT !.win = w],
         \A x \in Frame : x # f => g[x] = h[x]
  PROVE  SameFrames(h, g) /\ g[f].win = w
PROOF
  <1>1. f \in Frame /\ h[f] \in Node
    BY DEF Heap, Allocated
  <1>2. [h[f] EXCEPT !.win = w] \in Node /\ [h[f] EXCEPT !.win = w] # NULL
    BY <1>1, NullIsNoNode DEF Node
  <1>3. /\ g[f].win = w /\ g[f].isleaf = h[f].isleaf
        /\ g[f].parent = h[f].parent /\ g[f].frames = h[f].frames
        /\ g[f].screen = h[f].screen
    BY <1>1 DEF Node
  <1>4. Allocated(g) = Allocated(h)
    BY <1>1, <1>2 DEF Allocated
  <1>5. ASSUME NEW x \in Allocated(h)
        PROVE  /\ g[x].isleaf = h[x].isleaf /\ g[x].parent = h[x].parent
               /\ g[x].frames = h[x].frames /\ g[x].screen = h[x].screen
    <2>1. CASE x = f
      BY <1>3, <2>1
    <2>2. CASE x # f
      BY <2>2 DEF Allocated
    <2> QED
      BY <2>1, <2>2
  <1> QED
    BY <1>3, <1>4, <1>5 DEF SameFrames

(* The heap after the window of one frame was set. *)
PutWin(h, f, w) == [h EXCEPT ![f].win = w]

LEMMA PutWinDoes ==
  ASSUME NEW h \in Heap, NEW f \in Allocated(h), NEW w \in Window \cup {NULL},
         NEW g, g = PutWin(h, f, w)
  PROVE  /\ g \in Heap /\ SameFrames(h, g) /\ g[f].win = w
         /\ \A x \in Frame : x # f => g[x] = h[x]
         /\ h[f].win = w => g = h
         /\ \A v \in Window \cup {NULL} : PutWin(g, f, v) = PutWin(h, f, v)
PROOF
  <1>1. f \in Frame /\ h[f] \in Node
    BY DEF Heap, Allocated
  <1>2. /\ [h[f] EXCEPT !.win = w] \in Node
        /\ h[f].win = w => [h[f] EXCEPT !.win = w] = h[f]
        /\ \A v : [[h[f] EXCEPT !.win = w] EXCEPT !.win = v] = [h[f] EXCEPT !.win = v]
    BY <1>1 DEF Node
  <1>3. /\ g \in Heap /\ g[f] = [h[f] EXCEPT !.win = w]
        /\ \A x \in Frame : x # f => g[x] = h[x]
    BY <1>1, <1>2 DEF PutWin, Heap
  <1>4. SameFrames(h, g) /\ g[f].win = w
    BY <1>3, WinKeepsFrames
  <1>5. h[f].win = w => g = h
    <2>1. h[f].win = w => \A x \in Frame : g[x] = h[x]
      BY <1>2, <1>3
    <2>2. h = [x \in Frame |-> h[x]] /\ g = [x \in Frame |-> g[x]]
      BY <1>3 DEF Heap
    <2> QED
      BY <2>1, <2>2
  <1>6. ASSUME NEW v \in Window \cup {NULL}
        PROVE  PutWin(g, f, v) = PutWin(h, f, v)
    <2> DEFINE a == PutWin(g, f, v)
               b == PutWin(h, f, v)
    <2>1. /\ a = [x \in Frame |-> IF x = f THEN [g[f] EXCEPT !.win = v] ELSE g[x]]
          /\ b = [x \in Frame |-> IF x = f THEN [h[f] EXCEPT !.win = v] ELSE h[x]]
      BY <1>3 DEF PutWin, Heap
    <2> DEFINE nf == [h[f] EXCEPT !.win = v]
    <2>2. [g[f] EXCEPT !.win = v] = nf
      BY <1>2, <1>3
    <2> HIDE DEF nf, a, b
    <2>3. a = [x \in Frame |-> IF x = f THEN nf ELSE h[x]]
      BY <1>3, <2>1, <2>2
    <2>4. b = [x \in Frame |-> IF x = f THEN nf ELSE h[x]]
      BY <2>1 DEF nf
    <2> QED
      BY <2>3, <2>4 DEF a, b
  <1> QED
    BY <1>3, <1>4, <1>5, <1>6

LEMMA SameFramesKeepForest ==
  ASSUME NEW h \in Heap, NEW g \in Heap, SameFrames(h, g),
         NEW R, Forest(h, R),
         \A f \in Allocated(h) : ~h[f].isleaf => g[f].win = NULL
  PROVE  Forest(g, R) /\ Leaves(g) = Leaves(h)
PROOF
  <1>1. Forest(g, R)
    BY ForestFromShape DEF SameFrames
  <1> QED
    BY <1>1 DEF SameFrames, Leaves

LEMMA LeafIsFrame ==
  ASSUME NEW h \in Heap, NEW f \in Leaves(h)
  PROVE  f \in Frame /\ f \in Allocated(h) /\ h[f] \in Node /\ h[f].isleaf
BY DEF Heap, Leaves, Allocated

(* The window of frame f joins the hidden queue at one end. *)
Bares(s, t, f, prepend) ==
  LET w == s.split[f].win
  IN  /\ t.hidden = (IF w = NULL THEN s.hidden
                     ELSE IF prepend THEN <<w>> \o s.hidden ELSE Append(s.hidden, w))
      /\ \A v \in Window : t.frame[v] = IF v = w THEN NULL ELSE s.frame[v]
      /\ \A v \in Window : t.shown[v] = IF v = w THEN NULL ELSE s.shown[v]

LEMMA RemoveKeepsCore ==
  ASSUME NEW s, NEW loose, Core(s, loose), NEW f \in Allocated(s.split),
         NEW prepend \in BOOLEAN,
         NEW t, t = workspace_remove_window_from_frame(s, f, prepend)
  PROVE  /\ Core(t, loose) /\ Aside(s, t) /\ t.focus = s.focus
         /\ SameFrames(s.split, t.split)
         /\ t.split[f].win = NULL
         /\ \A x \in Frame : x # f => t.split[x] = s.split[x]
         /\ Bares(s, t, f, prepend)
PROOF
  <1> DEFINE w == s.split[f].win
  <1>1. /\ s \in State /\ s.split \in Heap /\ f \in Frame /\ s.split[f] \in Node
        /\ w \in Window \cup {NULL}
    BY DEF Core, State, Heap, Allocated, Node
  <1>2. CASE w = NULL
    <2>1. t = s
      BY <1>2 DEF workspace_remove_window_from_frame
    <2> QED
      BY <1>1, <1>2, <2>1, NullIsNoObject DEF Aside, SameFrames, Bares
  <1>3. CASE w # NULL
    <2>1. /\ t \in State /\ Aside(s, t)
          /\ t.split = [s.split EXCEPT ![f].win = NULL]
          /\ t.focus = s.focus
          /\ t.hidden = IF prepend THEN <<w>> \o s.hidden ELSE Append(s.hidden, w)
          /\ \A v \in Window : t.frame[v] = IF v = w THEN NULL ELSE s.frame[v]
          /\ \A v \in Window : t.shown[v] = IF v = w THEN NULL ELSE s.shown[v]
          /\ t.be_focus = IF s.shown[w] # NULL /\ s.be_focus = w THEN NULL
                          ELSE s.be_focus
      BY <1>1, <1>3, RemoveEffect
    <2>2. /\ t.split \in Heap /\ SameFrames(s.split, t.split)
          /\ t.split[f].win = NULL
          /\ \A x \in Frame : x # f => t.split[x] = s.split[x]
      <3>1. /\ t.split \in Heap /\ s.split \in Heap
            /\ t.split[f] = [s.split[f] EXCEPT !.win = NULL]
            /\ \A x \in Frame : x # f => t.split[x] = s.split[x]
        BY <1>1, <2>1 DEF State, Heap
      <3> QED
        BY <1>1, <3>1, WinKeepsFrames
    <2>3. /\ w \in Window /\ s.frame[w] = f /\ w \in s.windows \ loose
          /\ s.split[f].isleaf /\ f # NULL
      BY <1>1, <1>3, NullIsNoObject DEF Core, Framed
    <2> HIDE DEF w
    <2>4. Trees(t)
      <3>1. Forest(s.split, Elems(s.roots)) /\ Distinct(s.roots)
        BY DEF Core, Trees
      <3>2. \A x \in Allocated(s.split) : ~s.split[x].isleaf => t.split[x].win = NULL
        BY <2>2, <3>1 DEF Forest, NodeOK, Allocated
      <3>3. Forest(t.split, Elems(s.roots))
        BY <1>1, <2>2, <3>1, <3>2, SameFramesKeepForest
      <3> QED
        BY <2>1, <3>1, <3>3 DEF Trees, Aside
    <2>5. Queued(t, loose)
      <3>1. Distinct(s.hidden) /\ s.hidden \in Seq(Window) /\ w \notin Elems(s.hidden)
        BY <1>1, <2>3, NullIsNoObject DEF Core, Queued, State
      <3>2. /\ <<w>> \in Seq(Window) /\ Elems(<<w>>) = {w} /\ Distinct(<<w>>)
        BY <2>3, ElemsOfOne
      <3>3. Distinct(t.hidden) /\ Elems(t.hidden) = Elems(s.hidden) \cup {w}
        <4>1. CASE prepend
          <5>1. /\ Elems(<<w>> \o s.hidden) = {w} \cup Elems(s.hidden)
                /\ Distinct(<<w>> \o s.hidden)
            <6> DEFINE one == <<w>>
            <6>1. /\ one \in Seq(Window) /\ Elems(one) = {w} /\ Distinct(one)
                  /\ Elems(one) \cap Elems(s.hidden) = {}
              BY <3>1, <3>2
            <6> HIDE DEF one
            <6>2. /\ Elems(one \o s.hidden) = Elems(one) \cup Elems(s.hidden)
                  /\ Distinct(one \o s.hidden)
              BY <3>1, <6>1, ElemsOfConcat
            <6> QED
              BY <6>1, <6>2 DEF one
          <5> QED
            BY <2>1, <4>1, <5>1
        <4>2. CASE ~prepend
          BY <2>1, <2>3, <3>1, <4>2, ElemsOfAppend
        <4> QED
          BY <4>1, <4>2
      <3>4. Elems(s.hidden) = {v \in s.windows \ loose : s.frame[v] = NULL}
        BY DEF Core, Queued
      <3>5. t.windows = s.windows /\ loose \subseteq s.windows /\ s.windows \subseteq Window
        BY <1>1, <2>1 DEF Aside, Core, Queued, State
      <3> QED
        BY <2>1, <2>3, <3>3, <3>4, <3>5 DEF Queued
    <2>6. Framed(t, loose)
      <3>1. Framed(s, loose)
        BY DEF Core
      <3>2. ASSUME NEW v \in Window, t.frame[v] # NULL
            PROVE  /\ v \in t.windows \ loose
                   /\ t.frame[v] \in Allocated(t.split)
                   /\ t.split[t.frame[v]].win = v
        <4>1. v # w /\ t.frame[v] = s.frame[v]
          BY <2>1, <3>2
        <4>2. /\ v \in s.windows \ loose /\ s.frame[v] \in Allocated(s.split)
              /\ s.split[s.frame[v]].win = v
          BY <3>1, <3>2, <4>1 DEF Framed
        <4>3. s.frame[v] # f
          BY <4>1, <4>2 DEF w
        <4> QED
          BY <2>1, <2>2, <4>1, <4>2, <4>3 DEF Aside, SameFrames, Allocated
      <3>3. ASSUME NEW x \in Allocated(t.split), t.split[x].win # NULL
            PROVE  t.split[x].isleaf /\ t.frame[t.split[x].win] = x
        <4>1. x # f /\ x \in Allocated(s.split) /\ t.split[x] = s.split[x]
          BY <2>2, <3>3 DEF SameFrames, Allocated
        <4>2. s.split[x].isleaf /\ s.frame[s.split[x].win] = x
          BY <3>1, <3>3, <4>1 DEF Framed
        <4>3. s.split[x].win \in Window /\ s.split[x].win # w
          <5>1. s.split[x] \in Node
            BY <1>1, <4>1 DEF Heap, Allocated
          <5> QED
            BY <2>3, <3>3, <4>1, <4>2, <5>1 DEF Node
        <4> QED
          BY <2>1, <4>1, <4>2, <4>3
      <3> QED
        BY <3>2, <3>3 DEF Framed
    <2>7. Lit(t)
      <3>1. Lit(s)
        BY DEF Core
      <3>2. s.be_focus \in Window \cup {NULL}
        BY <1>1 DEF State
      <3>3. s.shown[w] # NULL
        BY <2>3, <3>1 DEF Lit
      <3> QED
        BY <2>1, <3>1, <3>2, <3>3 DEF Lit
    <2>8. Bares(s, t, f, prepend)
      BY <1>3, <2>1 DEF Bares, w
    <2> QED
      BY <2>1, <2>2, <2>4, <2>5, <2>6, <2>7, <2>8 DEF Core, w
  <1> QED
    BY <1>1, <1>2, <1>3

(* A frame on a screen that has no window, and what drawing one there does. *)
Vacant(s, f) ==
  f \in Leaves(s.split) /\ s.split[f].win = NULL /\ s.split[f].screen # NULL

Draws(s, t, w, f) ==
  /\ Aside(s, t) /\ t.focus = s.focus
  /\ t.hidden = s.hidden /\ t.be_focus = s.be_focus
  /\ SameFrames(s.split, t.split)
  /\ t.split[f].win = w
  /\ \A x \in Frame : x # f => t.split[x] = s.split[x]
  /\ \A v \in Window : t.frame[v] = IF v = w THEN f ELSE s.frame[v]
  /\ \A v \in Window : t.shown[v] =
       IF v = w THEN s.split[f].screen ELSE s.shown[v]

LEMMA DrawKeepsCore ==
  ASSUME NEW s, NEW loose, Core(s, loose), NEW w \in loose,
         NEW f, Vacant(s, f), NEW t, t = draw_window(s, w, f)
  PROVE  Core(t, loose \ {w}) /\ Draws(s, t, w, f)
PROOF
  <1>0. f \in Leaves(s.split) /\ s.split[f].win = NULL /\ s.split[f].screen # NULL
    BY DEF Vacant
  <1>1. /\ s \in State /\ s.split \in Heap /\ f \in Frame
        /\ f \in Allocated(s.split) /\ s.split[f] \in Node /\ s.split[f].isleaf
        /\ f # NULL /\ w \in Window /\ w \in s.windows /\ w # NULL
    BY <1>0, LeafIsFrame, NullIsNoObject DEF Core, State, Queued
  <1>2. /\ t \in State /\ Aside(s, t)
        /\ t.split = [s.split EXCEPT ![f].win = w]
        /\ t.focus = s.focus /\ t.hidden = s.hidden
        /\ t.be_focus = s.be_focus
        /\ \A v \in Window : t.frame[v] = IF v = w THEN f ELSE s.frame[v]
        /\ \A v \in Window : t.shown[v] =
             IF v = w /\ s.shown[v] = NULL THEN s.split[f].screen ELSE s.shown[v]
    BY <1>1, DrawEffect
  <1>3. /\ t.split \in Heap /\ SameFrames(s.split, t.split)
        /\ t.split[f].win = w
        /\ \A x \in Frame : x # f => t.split[x] = s.split[x]
    <2>1. /\ t.split \in Heap /\ s.split \in Heap /\ w \in Window \cup {NULL}
          /\ t.split[f] = [s.split[f] EXCEPT !.win = w]
          /\ \A x \in Frame : x # f => t.split[x] = s.split[x]
      BY <1>0, <1>1, <1>2 DEF State, Heap
    <2> QED
      BY <1>1, <2>1, WinKeepsFrames
  <1>4. s.frame[w] = NULL
    BY <1>1 DEF Core, Framed
  <1>5. Trees(t)
    <2>1. Forest(s.split, Elems(s.roots)) /\ Distinct(s.roots)
      BY DEF Core, Trees
    <2>2. \A x \in Allocated(s.split) : ~s.split[x].isleaf => t.split[x].win = NULL
      BY <1>1, <1>3, <2>1 DEF Forest, NodeOK, Allocated
    <2>3. Forest(t.split, Elems(s.roots))
      BY <1>1, <1>3, <2>1, <2>2, SameFramesKeepForest
    <2> QED
      BY <1>2, <2>1, <2>3 DEF Trees, Aside
  <1>6. Queued(t, loose \ {w})
    <2>1. /\ Distinct(s.hidden) /\ loose \subseteq s.windows
          /\ Elems(s.hidden) = {v \in s.windows \ loose : s.frame[v] = NULL}
          /\ s.windows \subseteq Window
      BY <1>1 DEF Core, Queued, State
    <2>2. {v \in s.windows \ (loose \ {w}) : t.frame[v] = NULL}
            = {v \in s.windows \ loose : s.frame[v] = NULL}
      BY <1>1, <1>2, <2>1
    <2> QED
      BY <1>2, <2>1, <2>2 DEF Queued, Aside
  <1>7. Framed(t, loose \ {w})
    <2>1. Framed(s, loose)
      BY DEF Core
    <2>2. ASSUME NEW v \in Window, t.frame[v] # NULL
          PROVE  /\ v \in t.windows \ (loose \ {w})
                 /\ t.frame[v] \in Allocated(t.split)
                 /\ t.split[t.frame[v]].win = v
      <3>1. CASE v = w
        BY <1>1, <1>2, <1>3, <3>1 DEF Aside, SameFrames
      <3>2. CASE v # w
        <4>1. /\ v \in s.windows \ loose /\ s.frame[v] \in Allocated(s.split)
              /\ s.split[s.frame[v]].win = v /\ t.frame[v] = s.frame[v]
          BY <1>2, <2>1, <2>2, <3>2 DEF Framed
        <4>2. s.frame[v] # f
          BY <1>0, <1>1, <4>1, NullIsNoObject
        <4> QED
          BY <1>2, <1>3, <4>1, <4>2 DEF Aside, SameFrames, Allocated
      <3> QED
        BY <3>1, <3>2
    <2>3. ASSUME NEW x \in Allocated(t.split), t.split[x].win # NULL
          PROVE  t.split[x].isleaf /\ t.frame[t.split[x].win] = x
      <3>1. CASE x = f
        BY <1>1, <1>2, <1>3, <3>1 DEF SameFrames
      <3>2. CASE x # f
        <4>1. x \in Allocated(s.split) /\ t.split[x] = s.split[x]
          BY <1>3, <2>3, <3>2 DEF SameFrames, Allocated
        <4>2. s.split[x].isleaf /\ s.frame[s.split[x].win] = x
          BY <2>1, <2>3, <4>1 DEF Framed
        <4>3. s.split[x].win \in Window /\ s.split[x].win # w
          <5>1. s.split[x] \in Node /\ x # NULL
            BY <1>1, <4>1, NullIsNoObject DEF Heap, Allocated
          <5> QED
            BY <1>4, <2>3, <4>1, <4>2, <5>1 DEF Node
        <4>4. t.frame[s.split[x].win] = s.frame[s.split[x].win]
          BY <1>2, <4>3
        <4> QED
          BY <4>1, <4>2, <4>4
      <3> QED
        BY <3>1, <3>2
    <2> QED
      BY <2>2, <2>3 DEF Framed
  <1>8. Lit(t)
    <2>1. Lit(s) /\ s.be_focus \in Window \cup {NULL}
      BY <1>1 DEF Core, State
    <2> QED
      BY <1>0, <1>1, <1>2, <1>4, <2>1 DEF Lit
  <1> QED
    <2>1. s.shown[w] = NULL
      BY <1>1, <1>4 DEF Core, Lit
    <2> QED
      BY <1>2, <1>3, <1>5, <1>6, <1>7, <1>8, <2>1 DEF Core, Draws

LEMMA FocusKeepsCore ==
  ASSUME NEW s, NEW loose, Core(s, loose), NEW f \in Leaves(s.split),
         NEW t, t = workspace_focus_frame(s, f)
  PROVE  /\ Core(t, loose) /\ Aside(s, t) /\ t.split = s.split
         /\ t.hidden = s.hidden /\ t.frame = s.frame /\ t.shown = s.shown
         /\ t.focus = f
PROOF
  <1>1. /\ s \in State /\ s.split \in Heap /\ f \in Frame
        /\ f \in Allocated(s.split) /\ s.split[f] \in Node /\ f # NULL
    BY LeafIsFrame, NullIsNoObject DEF Core, State
  <1>2. /\ t \in State /\ Aside(s, t)
        /\ t.split = s.split /\ t.hidden = s.hidden
        /\ t.frame = s.frame /\ t.shown = s.shown
        /\ t.focus = f /\ t.be_focus = s.split[f].win
    BY <1>1, FocusEffect
  <1>3. Trees(t)
    BY <1>2 DEF Core, Trees, Aside
  <1>4. Queued(t, loose)
    BY <1>2 DEF Core, Queued, Aside
  <1>5. Framed(t, loose)
    BY <1>2 DEF Core, Framed, Aside
  <1>6. Lit(t)
    BY <1>1, <1>2 DEF Core, Lit, Framed
  <1> QED
    BY <1>2, <1>3, <1>4, <1>5, <1>6 DEF Core

LEMMA SameFramesKeepRest ==
  ASSUME NEW s, NEW t, Aside(s, t), SameFrames(s.split, t.split),
         OnScreens(s), Plugged(s), FocusOK(s),
         t.focus \in Leaves(t.split) \cup {s.focus}
  PROVE  OnScreens(t) /\ Plugged(t) /\ FocusOK(t)
BY DEF Aside, SameFrames, OnScreens, Inherited, Hung, Plugged, FocusOK, Leaves

LEMMA SameFramesCompose ==
  ASSUME NEW h, NEW g, NEW k, SameFrames(h, g), SameFrames(g, k)
  PROVE  SameFrames(h, k) /\ Leaves(k) = Leaves(h)
BY DEF SameFrames, Leaves

LEMMA PopFirstLoosens ==
  ASSUME NEW s, Core(s, {}), s.hidden # <<>>, NEW t, t = pop_first(s)
  PROVE  /\ Core(t, {Head(s.hidden)}) /\ Aside(s, t)
         /\ t.split = s.split /\ t.focus = s.focus /\ t.be_focus = s.be_focus
         /\ t.hidden = Tail(s.hidden) /\ t.frame = s.frame /\ t.shown = s.shown
         /\ Head(s.hidden) \in Window /\ s.frame[Head(s.hidden)] = NULL
PROOF
  <1> DEFINE w == Head(s.hidden)
  <1>1. s \in State /\ s.hidden \in Seq(Window) /\ Distinct(s.hidden)
        /\ Elems(s.hidden) = {v \in s.windows : s.frame[v] = NULL}
    BY DEF Core, Queued, State
  <1>2. /\ Tail(s.hidden) \in Seq(Window) /\ Distinct(Tail(s.hidden))
        /\ Elems(Tail(s.hidden)) = Elems(s.hidden) \ {w}
        /\ w \in Elems(s.hidden)
    BY <1>1, ElemsOfTail
  <1>3. t = [s EXCEPT !.hidden = Tail(s.hidden)]
    BY DEF pop_first
  <1> HIDE DEF w
  <1>4. t \in State /\ Aside(s, t) /\ t.split = s.split /\ t.focus = s.focus
        /\ t.be_focus = s.be_focus /\ t.frame = s.frame /\ t.shown = s.shown
        /\ t.hidden = Tail(s.hidden)
    BY <1>1, <1>2, <1>3 DEF State, Aside
  <1>5. w \in s.windows /\ s.frame[w] = NULL
    BY <1>1, <1>2
  <1>6. Queued(t, {w})
    BY <1>1, <1>2, <1>4, <1>5 DEF Queued, Aside
  <1>7. Framed(t, {w})
    BY <1>4, <1>5 DEF Core, Framed, Aside
  <1>8. Trees(t) /\ Lit(t)
    BY <1>4 DEF Core, Trees, Lit, Aside
  <1> QED
    BY <1>1, <1>4, <1>5, <1>6, <1>7, <1>8 DEF Core, State, w

LEMMA PopLastLoosens ==
  ASSUME NEW s, Core(s, {}), s.hidden # <<>>, NEW t, t = pop_last(s)
  PROVE  /\ Core(t, {s.hidden[Len(s.hidden)]}) /\ Aside(s, t)
         /\ t.split = s.split /\ t.focus = s.focus /\ t.be_focus = s.be_focus
PROOF
  <1> DEFINE w == s.hidden[Len(s.hidden)]
             front == SubSeq(s.hidden, 1, Len(s.hidden) - 1)
  <1>1. s \in State /\ s.hidden \in Seq(Window) /\ Distinct(s.hidden)
        /\ Elems(s.hidden) = {v \in s.windows : s.frame[v] = NULL}
    BY DEF Core, Queued, State
  <1>2. /\ front \in Seq(Window) /\ Distinct(front)
        /\ Elems(front) = Elems(s.hidden) \ {w}
        /\ w \in Elems(s.hidden)
    BY <1>1, ElemsOfFront
  <1>3. t = [s EXCEPT !.hidden = front]
    BY DEF pop_last
  <1> HIDE DEF w, front
  <1>4. t \in State /\ Aside(s, t) /\ t.split = s.split /\ t.focus = s.focus
        /\ t.be_focus = s.be_focus /\ t.frame = s.frame /\ t.shown = s.shown
        /\ t.hidden = front
    BY <1>1, <1>2, <1>3 DEF State, Aside
  <1>5. w \in s.windows /\ s.frame[w] = NULL
    BY <1>1, <1>2
  <1>6. Queued(t, {w})
    BY <1>1, <1>2, <1>4, <1>5 DEF Queued, Aside
  <1>7. Framed(t, {w})
    BY <1>4, <1>5 DEF Core, Framed, Aside
  <1>8. Trees(t) /\ Lit(t)
    BY <1>4 DEF Core, Trees, Lit, Aside
  <1> QED
    BY <1>4, <1>6, <1>7, <1>8 DEF Core, w

(* A loose window goes into a frame; whatever was there is hidden. *)
LEMMA ReplaceKeepsWhole ==
  ASSUME NEW s, NEW w, Core(s, {w}), OnScreens(s), Plugged(s), FocusOK(s),
         NEW f \in Leaves(s.split), NEW prepend \in BOOLEAN,
         NEW t, t = replace_window(s, w, f, prepend)
  PROVE  Whole(t) /\ t.phase = s.phase
PROOF
  <1> DEFINE bare  == workspace_remove_window_from_frame(s, f, prepend)
             drawn == draw_window(bare, w, f)
  <1>1. f \in Allocated(s.split) /\ f \in Frame /\ s.split[f].screen # NULL
    BY LeafIsFrame DEF Core, State, OnScreens, Inherited, Hung
  <1>2. /\ Core(bare, {w}) /\ Aside(s, bare) /\ bare.focus = s.focus
        /\ SameFrames(s.split, bare.split)
        /\ bare.split[f].win = NULL
    BY <1>1, RemoveKeepsCore
  <1> HIDE DEF bare
  <1>3. f \in Leaves(bare.split) /\ bare.split[f].screen # NULL
    BY <1>1, <1>2 DEF SameFrames, Leaves
  <1>4. /\ Core(drawn, {w} \ {w}) /\ Aside(bare, drawn)
        /\ SameFrames(bare.split, drawn.split)
    <2>1. Vacant(bare, f) /\ Core(bare, {w}) /\ w \in {w}
      BY <1>2, <1>3 DEF Vacant
    <2>2. Core(drawn, {w} \ {w}) /\ Draws(bare, drawn, w, f)
      BY <2>1, DrawKeepsCore
    <2> QED
      BY <2>2 DEF Draws
  <1> HIDE DEF drawn
  <1>5. Core(drawn, {}) /\ f \in Leaves(drawn.split)
    <2>1. {w} \ {w} = {}
      OBVIOUS
    <2> QED
      BY <1>3, <1>4, <2>1 DEF SameFrames, Leaves
  <1>6. t = workspace_focus_frame(drawn, f)
    BY DEF replace_window, bare, drawn
  <1>7. /\ Core(t, {}) /\ Aside(drawn, t) /\ t.split = drawn.split
        /\ t.focus = f
    BY <1>5, <1>6, FocusKeepsCore
  <1>8. SameFrames(s.split, t.split)
    BY <1>2, <1>4, <1>7, SameFramesCompose
  <1>9. Aside(s, t)
    BY <1>2, <1>4, <1>7 DEF Aside
  <1>10. OnScreens(t) /\ Plugged(t) /\ FocusOK(t)
    BY <1>5, <1>7, <1>8, <1>9, SameFramesKeepRest
  <1> QED
    BY <1>7, <1>9, <1>10 DEF Whole, Aside

LEMMA NextKeepsWhole ==
  ASSUME NEW s, Whole(s), NEW f \in Leaves(s.split) \cup {NULL},
         NEW t, t = workspace_next_hidden_win_at(s, f)
  PROVE  Whole(t) /\ t.phase = s.phase
PROOF
  <1>1. CASE f = NULL \/ s.hidden = <<>>
    BY <1>1 DEF workspace_next_hidden_win_at
  <1>2. CASE f # NULL /\ s.hidden # <<>>
    <2> DEFINE u == pop_first(s)
               w == Head(s.hidden)
    <2>1. /\ Core(u, {w}) /\ Aside(s, u)
          /\ u.split = s.split /\ u.focus = s.focus
      BY <1>2, PopFirstLoosens DEF Whole
    <2> DEFINE prepend == FALSE
    <2>2. t = replace_window(u, w, f, prepend) /\ prepend \in BOOLEAN
      BY <1>2 DEF workspace_next_hidden_win_at
    <2> HIDE DEF u, w, prepend
    <2>3. f \in Leaves(u.split) /\ OnScreens(u) /\ Plugged(u) /\ FocusOK(u)
      BY <1>2, <2>1 DEF Whole, OnScreens, Inherited, Hung, Plugged, FocusOK, Aside
    <2> QED
      BY <2>1, <2>2, <2>3, ReplaceKeepsWhole DEF Aside
  <1> QED
    BY <1>1, <1>2

LEMMA PrevKeepsWhole ==
  ASSUME NEW s, Whole(s), NEW f \in Leaves(s.split) \cup {NULL},
         NEW t, t = workspace_prev_hidden_win_at(s, f)
  PROVE  Whole(t) /\ t.phase = s.phase
PROOF
  <1>1. CASE f = NULL \/ s.hidden = <<>>
    BY <1>1 DEF workspace_prev_hidden_win_at
  <1>2. CASE f # NULL /\ s.hidden # <<>>
    <2> DEFINE u == pop_last(s)
               w == s.hidden[Len(s.hidden)]
    <2>1. /\ Core(u, {w}) /\ Aside(s, u)
          /\ u.split = s.split /\ u.focus = s.focus
      BY <1>2, PopLastLoosens DEF Whole
    <2> DEFINE prepend == TRUE
    <2>2. t = replace_window(u, w, f, prepend) /\ prepend \in BOOLEAN
      BY <1>2 DEF workspace_prev_hidden_win_at
    <2> HIDE DEF u, w, prepend
    <2>3. f \in Leaves(u.split) /\ OnScreens(u) /\ Plugged(u) /\ FocusOK(u)
      BY <1>2, <2>1 DEF Whole, OnScreens, Inherited, Hung, Plugged, FocusOK, Aside
    <2> QED
      BY <2>1, <2>2, <2>3, ReplaceKeepsWhole DEF Aside
  <1> QED
    BY <1>1, <1>2

LEMMA AddKeepsWhole ==
  ASSUME NEW s, Whole(s), s.focus \in Leaves(s.split),
         NEW w \in Window, w \notin s.windows,
         NEW t, t = workspace_add_window(s, w)
  PROVE  Whole(t) /\ t.phase = s.phase
PROOF
  <1> DEFINE added == [s EXCEPT !.windows = @ \cup {w}]
  <1>1. s \in State /\ Core(s, {})
    BY DEF Whole, Core
  <1>2. /\ added \in State /\ added.windows = s.windows \cup {w}
        /\ added.split = s.split /\ added.focus = s.focus /\ added.roots = s.roots
        /\ added.hidden = s.hidden /\ added.frame = s.frame
        /\ added.shown = s.shown /\ added.be_focus = s.be_focus
        /\ added.g_screens = s.g_screens /\ added.be_screens = s.be_screens
        /\ added.phase = s.phase
    BY <1>1 DEF State
  <1> DEFINE prepend == FALSE
  <1>3. t = replace_window(added, w, added.focus, prepend) /\ prepend \in BOOLEAN
    BY <1>2 DEF workspace_add_window, replace_window
  <1> HIDE DEF added, prepend
  <1>4. s.frame[w] = NULL
    BY <1>1 DEF Core, Framed
  <1>5. Queued(added, {w})
    BY <1>1, <1>2 DEF Core, Queued
  <1>6. Framed(added, {w})
    BY <1>1, <1>2, <1>4 DEF Core, Framed
  <1>7. Core(added, {w})
    BY <1>1, <1>2, <1>5, <1>6 DEF Core, Trees, Lit
  <1>8. OnScreens(added) /\ Plugged(added) /\ FocusOK(added)
    BY <1>2 DEF Whole, OnScreens, Inherited, Hung, Plugged, FocusOK
  <1>9. added.focus \in Leaves(added.split)
    BY <1>2
  <1> QED
    BY <1>2, <1>3, <1>7, <1>8, <1>9, ReplaceKeepsWhole

(* workspace_remove_window() up to the search for a window to take the place. *)
Dropped(s, w) ==
  LET dropped == [s EXCEPT !.windows = @ \ {w}]
  IN  [workspace_remove_window_from_frame(dropped, s.frame[w], FALSE)
         EXCEPT !.hidden = Without(@, w)]

LEMMA DropDoes ==
  ASSUME NEW s, Whole(s), NEW w \in s.windows, NEW f, f = s.frame[w],
         NEW gone, gone = Dropped(s, w)
  PROVE  /\ Whole(gone)
         /\ gone.phase = s.phase /\ gone.roots = s.roots
         /\ gone.g_screens = s.g_screens /\ gone.be_screens = s.be_screens
         /\ gone.focus = s.focus
         /\ w \in Window /\ f \in Leaves(s.split) \cup {NULL}
         /\ f \in Leaves(gone.split) \cup {NULL}
         /\ f # NULL => s.split[f].win = w
         /\ gone.split = IF f = NULL THEN s.split ELSE PutWin(s.split, f, NULL)
         /\ gone.hidden = IF f = NULL THEN Without(s.hidden, w) ELSE s.hidden
         /\ gone.be_focus = IF s.be_focus = w THEN NULL ELSE s.be_focus
         /\ \A v \in Window : gone.frame[v] = IF v = w THEN NULL ELSE s.frame[v]
         /\ \A v \in Window : gone.shown[v] = IF v = w THEN NULL ELSE s.shown[v]
PROOF
  <1> DEFINE dropped == [s EXCEPT !.windows = @ \ {w}]
             bare == workspace_remove_window_from_frame(dropped, f, FALSE)
             kept == workspace_remove_window_from_frame(s, f, FALSE)
  <1>1. /\ s \in State /\ Core(s, {}) /\ w \in Window
        /\ s.split \in Heap /\ s.windows \subseteq Window
    BY DEF Whole, Core, State
  <1>2. f # NULL => /\ f \in Leaves(s.split) /\ s.split[f].win = w
    BY <1>1, NullIsNoObject DEF Core, Framed, Leaves
  <1>3. /\ Core(kept, {}) /\ Aside(s, kept) /\ kept.focus = s.focus
        /\ SameFrames(s.split, kept.split)
        /\ kept.frame[w] = NULL
    <2>1. CASE f = NULL
      <3>1. kept = s
        BY <2>1 DEF workspace_remove_window_from_frame
      <3> QED
        BY <1>1, <2>1, <3>1 DEF Aside, SameFrames
    <2>2. CASE f # NULL
      <3> DEFINE prepend == FALSE
      <3>1. f \in Allocated(s.split) /\ prepend \in BOOLEAN
        BY <1>2, <2>2 DEF Leaves
      <3>2. kept = workspace_remove_window_from_frame(s, f, prepend)
        OBVIOUS
      <3> HIDE DEF prepend, kept
      <3> QED
        <4>1. /\ Core(kept, {}) /\ Aside(s, kept) /\ kept.focus = s.focus
              /\ SameFrames(s.split, kept.split) /\ Bares(s, kept, f, prepend)
          BY <1>1, <1>2, <2>2, <3>1, <3>2, RemoveKeepsCore
        <4> QED
          BY <1>1, <1>2, <2>2, <4>1 DEF Bares
    <2> QED
      BY <2>1, <2>2
  <1>4. bare = [kept EXCEPT !.windows = @ \ {w}]
    <2> DEFINE v == s.split[f].win
    <2>1. /\ dropped.split = s.split /\ dropped.shown = s.shown
          /\ dropped.be_screens = s.be_screens
      BY <1>1 DEF State
    <2>2. be_window_hide(dropped, v) = [be_window_hide(s, v) EXCEPT !.windows = @ \ {w}]
      BY <1>1, <2>1 DEF be_window_hide, UnlinkSafe, State
    <2>3. CASE f = NULL \/ v = NULL
      BY <1>1, <2>1, <2>3 DEF workspace_remove_window_from_frame, kept
    <2>4. CASE ~(f = NULL \/ v = NULL)
      <3> DEFINE X == be_window_hide(s, v)
                 Y == be_window_hide(dropped, v)
      <3>1. v \in Window
        BY <1>1, <2>4 DEF Core, State, Framed, Heap, Node, Allocated
      <3>2. X \in State
        BY <1>1, <3>1, HideEffect
      <3>3. kept = [X EXCEPT !.split[f].win = NULL, !.frame[v] = NULL,
                             !.hidden = Append(@, v)]
        BY <2>4 DEF workspace_remove_window_from_frame, kept
      <3>4. bare = [Y EXCEPT !.split[f].win = NULL, !.frame[v] = NULL,
                             !.hidden = Append(@, v)]
        BY <2>1, <2>4 DEF workspace_remove_window_from_frame
      <3>5. Y = [X EXCEPT !.windows = @ \ {w}]
        BY <2>2
      <3> HIDE DEF X, Y, v, bare
      <3> QED
        BY <3>2, <3>3, <3>4, <3>5 DEF State
    <2> QED
      BY <2>3, <2>4
  <1>5. /\ kept.split = IF f = NULL THEN s.split ELSE PutWin(s.split, f, NULL)
        /\ Without(kept.hidden, w) = IF f = NULL THEN Without(s.hidden, w) ELSE s.hidden
        /\ kept.be_focus = IF s.be_focus = w THEN NULL ELSE s.be_focus
        /\ \A v \in Window : kept.frame[v] = IF v = w THEN NULL ELSE s.frame[v]
        /\ \A v \in Window : kept.shown[v] = IF v = w THEN NULL ELSE s.shown[v]
    <2>1. CASE f = NULL
      <3>1. kept = s
        BY <2>1 DEF workspace_remove_window_from_frame
      <3>2. s.shown[w] = NULL /\ s.be_focus # w
        BY <1>1, <2>1, NullIsNoObject DEF Core, Lit
      <3> QED
        BY <2>1, <3>1, <3>2
    <2>2. CASE f # NULL
      <3> DEFINE prepend == FALSE
      <3>1. /\ f \in Allocated(s.split) /\ f \in Frame /\ prepend \in BOOLEAN
            /\ w = s.split[f].win
        BY <1>1, <1>2, <2>2, LeafIsFrame
      <3>2. kept = workspace_remove_window_from_frame(s, f, prepend)
        OBVIOUS
      <3> HIDE DEF kept, prepend
      <3>3. /\ kept.split = [s.split EXCEPT ![f].win = NULL]
            /\ kept.hidden = IF prepend THEN <<w>> \o s.hidden ELSE Append(s.hidden, w)
            /\ \A v \in Window : kept.frame[v] = IF v = w THEN NULL ELSE s.frame[v]
            /\ \A v \in Window : kept.shown[v] = IF v = w THEN NULL ELSE s.shown[v]
            /\ kept.be_focus = IF s.shown[w] # NULL /\ s.be_focus = w THEN NULL
                               ELSE s.be_focus
        <4>1. /\ s \in State /\ f \in Frame /\ f \in Allocated(s.split)
              /\ w \in Window /\ w = s.split[f].win /\ prepend \in BOOLEAN
          BY <1>1, <3>1
        <4> QED
          BY ONLY <3>2, <4>1, RemoveEffect
      <3>4. s.shown[w] # NULL
        BY <1>1, <2>2 DEF Core, Lit
      <3>5. s.hidden \in Seq(Window) /\ w \notin Elems(s.hidden)
        BY <1>1, <2>2 DEF Core, Queued, State
      <3>6. Without(Append(s.hidden, w), w) = s.hidden
        BY <1>1, <3>5, WithoutLast
      <3> QED
        BY <2>2, <3>3, <3>4, <3>6 DEF prepend, PutWin
    <2> QED
      BY <2>1, <2>2
  <1> HIDE DEF kept
  <1>6. kept \in State /\ kept.hidden \in Seq(Window) /\ Distinct(kept.hidden)
    BY <1>3 DEF Core, Queued, State
  <1>7. /\ Without(kept.hidden, w) \in Seq(Window)
        /\ Elems(Without(kept.hidden, w)) = Elems(kept.hidden) \ {w}
        /\ Distinct(Without(kept.hidden, w))
    BY <1>6, ElemsOfWithout
  <1>8. gone = [kept EXCEPT !.windows = @ \ {w}, !.hidden = Without(kept.hidden, w)]
    <2>1. gone = [bare EXCEPT !.hidden = Without(@, w)]
      BY DEF Dropped
    <2> HIDE DEF bare
    <2> QED
      BY <1>4, <1>6, <2>1 DEF State
  <1> HIDE DEF bare
  <1>9. /\ gone \in State /\ gone.windows = kept.windows \ {w}
        /\ gone.hidden = Without(kept.hidden, w)
        /\ gone.split = kept.split /\ gone.focus = kept.focus
        /\ gone.roots = kept.roots /\ gone.frame = kept.frame
        /\ gone.shown = kept.shown /\ gone.be_focus = kept.be_focus
        /\ gone.g_screens = kept.g_screens /\ gone.be_screens = kept.be_screens
        /\ gone.phase = kept.phase
    BY ONLY <1>6, <1>7, <1>8 DEF State
  <1>10. Queued(gone, {})
    BY ONLY <1>3, <1>7, <1>9 DEF Core, Queued
  <1>11. Framed(gone, {})
    BY ONLY <1>3, <1>9 DEF Core, Framed
  <1>12. Core(gone, {})
    BY <1>3, <1>9, <1>10, <1>11 DEF Core, Trees, Lit
  <1>13. OnScreens(kept) /\ Plugged(kept) /\ FocusOK(kept)
    BY <1>3, SameFramesKeepRest DEF Whole
  <1>14. Whole(gone)
    BY <1>9, <1>12, <1>13 DEF Whole, OnScreens, Inherited, Hung, Plugged, FocusOK
  <1>15. f \in Leaves(gone.split) \cup {NULL}
    BY <1>2, <1>3, <1>9 DEF SameFrames, Leaves
  <1>16. gone.phase = s.phase
    BY <1>3, <1>9 DEF Aside
  <1> HIDE DEF bare
  <1> QED
    BY <1>1, <1>2, <1>3, <1>5, <1>9, <1>14, <1>15, <1>16 DEF Aside

LEMMA DestroyKeepsWhole ==
  ASSUME NEW s, Whole(s), NEW w \in s.windows,
         NEW t, t = workspace_remove_window(s, w)
  PROVE  Whole(t) /\ t.phase = s.phase
PROOF
  <1> DEFINE f    == s.frame[w]
             gone == Dropped(s, w)
  <1>1. t = workspace_next_hidden_win_at(gone, f)
    BY DEF workspace_remove_window, Dropped
  <1>2. Whole(gone) /\ gone.phase = s.phase /\ f \in Leaves(gone.split) \cup {NULL}
    <2>1. f = s.frame[w] /\ gone = Dropped(s, w)
      OBVIOUS
    <2> HIDE DEF f, gone
    <2> QED
      BY <2>1, DropDoes
  <1> HIDE DEF f, gone
  <1> QED
    BY <1>1, <1>2, NextKeepsWhole

(* Drawing a window where it is already drawn changes nothing. *)
LEMMA RedrawKeepsCore ==
  ASSUME NEW s, NEW loose, Core(s, loose), NEW f \in Allocated(s.split),
         NEW w, w = s.split[f].win, NEW t, t = draw_window(s, w, f)
  PROVE  /\ Core(t, loose) /\ Aside(s, t) /\ t.split = s.split
         /\ t.focus = s.focus /\ t.hidden = s.hidden
         /\ t.frame = s.frame /\ t.shown = s.shown /\ t.be_focus = s.be_focus
PROOF
  <1>1. /\ s \in State /\ s.split \in Heap /\ f \in Frame /\ s.split[f] \in Node
        /\ w \in Window \cup {NULL} /\ f # NULL
        /\ s.frame \in [Window -> Frame \cup {NULL}]
        /\ s.shown \in [Window -> Screen \cup {NULL}]
    BY NullIsNoObject DEF Core, State, Heap, Allocated, Node
  <1>2. /\ t \in State /\ Aside(s, t)
        /\ t.split = [s.split EXCEPT ![f].win = w]
        /\ t.focus = s.focus /\ t.hidden = s.hidden
        /\ t.be_focus = s.be_focus
        /\ \A v \in Window : t.frame[v] = IF v = w THEN f ELSE s.frame[v]
        /\ \A v \in Window : t.shown[v] =
             IF v = w /\ s.shown[v] = NULL THEN s.split[f].screen ELSE s.shown[v]
    BY <1>1, DrawEffect
  <1>3. t.split = s.split
    <2>1. [s.split[f] EXCEPT !.win = w] = s.split[f]
      BY <1>1 DEF Node
    <2> QED
      BY <1>1, <1>2, <2>1 DEF Heap
  <1>4. /\ t.frame \in [Window -> Frame \cup {NULL}]
        /\ t.shown \in [Window -> Screen \cup {NULL}]
    BY <1>2 DEF State
  <1>5. \A v \in Window : v = w => s.frame[v] = f /\ s.shown[v] # NULL
    BY <1>1, NullIsNoObject DEF Core, Framed, Lit
  <1>6. t.frame = s.frame
    BY <1>1, <1>2, <1>4, <1>5
  <1>7. t.shown = s.shown
    BY <1>1, <1>2, <1>4, <1>5
  <1> QED
    BY <1>2, <1>3, <1>6, <1>7 DEF Core, Trees, Queued, Framed, Lit, Aside

(* Frame f makes way for c0, with its window and the focus, and c1, with    *)
(* the window that waited longest.                                          *)
Halves(s, t, f, c0, c1) ==
  /\ Aside(s, t) /\ t.be_focus = s.be_focus
  /\ t.focus = (IF s.focus = f THEN c0 ELSE s.focus)
  /\ t.hidden = (IF s.hidden = <<>> THEN <<>> ELSE Tail(s.hidden))
  /\ c0 \in Leaves(t.split) /\ t.split[c0].win = s.split[f].win
  /\ \A x \in Leaves(s.split) \ {f} :
       x \in Leaves(t.split) /\ t.split[x].win = s.split[x].win
  /\ \A x \in Allocated(s.split) :
       x \in Allocated(t.split) /\ t.split[x].screen = s.split[x].screen
  /\ \A x \in {c0, c1} : t.split[x].screen = s.split[f].screen
  /\ t.split[f].frames = Children(c0, c1)
  /\ t.split[f].parent = s.split[f].parent
  /\ \A x \in Allocated(s.split) \ {f} : t.split[x] = s.split[x]
  /\ \A v \in Window : t.frame[v] =
       IF v = s.split[f].win THEN c0
       ELSE IF s.hidden # <<>> /\ v = Head(s.hidden) THEN c1 ELSE s.frame[v]
  /\ \A v \in Window : t.shown[v] =
       IF s.hidden # <<>> /\ v = Head(s.hidden) THEN s.split[f].screen
       ELSE s.shown[v]

LEMMA SplitKeepsWhole ==
  ASSUME NEW s, Whole(s), NEW f \in Leaves(s.split), NEW vertical \in BOOLEAN,
         NEW fraction \in Fraction,
         NEW c0 \in Free(s.split), NEW c1 \in Free(s.split), c0 # c1,
         NEW t, t = workspace_do_split(s, f, vertical, fraction, c0, c1)
  PROVE  Whole(t) /\ t.phase = s.phase /\ Halves(s, t, f, c0, c1)
PROOF
  <1> DEFINE w == s.split[f].win
             g == split_do_split(s.split, f, vertical, fraction, c0, c1)
             cut == [repoint(s, w, c0) EXCEPT
                       !.split = split_do_split(@, f, vertical, fraction, c0, c1),
                       !.focus = IF @ = f THEN c0 ELSE @]
             redrawn == draw_window(cut, w, c0)
  <1>1. /\ s \in State /\ Core(s, {}) /\ s.split \in Heap
        /\ f \in Frame /\ f \in Allocated(s.split) /\ s.split[f] \in Node /\ f # NULL
        /\ w \in Window \cup {NULL}
        /\ c0 \in Frame /\ c1 \in Frame /\ c0 # NULL /\ c1 # NULL
        /\ Forest(s.split, Elems(s.roots)) /\ Distinct(s.roots)
    BY LeafIsFrame, NullIsNoObject DEF Whole, Core, State, Trees, Node, Free
  <1>2. /\ g \in Heap
        /\ Allocated(g) = Allocated(s.split) \cup {c0, c1}
        /\ g[c0].isleaf /\ g[c0].win = w /\ g[c0].screen = s.split[f].screen
        /\ g[c1].isleaf /\ g[c1].win = NULL /\ g[c1].screen = s.split[f].screen
        /\ ~g[f].isleaf /\ g[f].win = NULL /\ g[f].screen = s.split[f].screen
        /\ g[c0].parent = f /\ g[c1].parent = f /\ g[f].parent = s.split[f].parent
        /\ \A x \in Allocated(s.split) \ {f} : g[x] = s.split[x]
        /\ Forest(g, Elems(s.roots))
    BY <1>1, SplitKeepsForest
  <1>3. c0 \notin Allocated(s.split) /\ c1 \notin Allocated(s.split)
    BY DEF Free, Allocated
  <1>15. /\ g[f].frames = Children(c0, c1) /\ g[f].parent = s.split[f].parent
         /\ \A x \in Allocated(s.split) \ {f} : g[x] = s.split[x]
    <2>1. g[f] = [s.split[f] EXCEPT !.isleaf = FALSE, !.isvertical = vertical,
                                    !.fraction = fraction, !.frames = Children(c0, c1),
                                    !.win = NULL]
      BY <1>1, <1>3 DEF split_do_split, Heap
    <2> HIDE DEF g
    <2> QED
      BY <1>1, <1>2, <2>1 DEF Node
  <1>4. /\ cut \in State /\ Aside(s, cut) /\ cut.split = g
        /\ cut.focus = (IF s.focus = f THEN c0 ELSE s.focus)
        /\ cut.hidden = s.hidden /\ cut.shown = s.shown
        /\ cut.be_focus = s.be_focus
        /\ \A v \in Window : cut.frame[v] = IF v = w THEN c0 ELSE s.frame[v]
    <2> DEFINE h == g
    <2>1. h = g
      OBVIOUS
    <2> HIDE DEF h
    <2>2. CASE w = NULL
      <3>1. cut = [s EXCEPT !.split = h, !.focus = IF @ = f THEN c0 ELSE @]
        BY <1>1, <2>1, <2>2 DEF repoint
      <3> HIDE DEF cut, g
      <3> QED
        BY <1>1, <1>2, <2>1, <2>2, <3>1, NullIsNoObject DEF State, Aside
    <2>3. CASE w # NULL
      <3>1. cut = [s EXCEPT !.split = h, !.focus = IF @ = f THEN c0 ELSE @,
                            !.frame[w] = c0]
        BY <1>1, <2>1, <2>3 DEF repoint, State
      <3> HIDE DEF cut, g
      <3> QED
        BY <1>1, <1>2, <2>1, <2>3, <3>1 DEF State, Aside
    <2> QED
      BY <2>2, <2>3
  <1>5. t = IF s.hidden = <<>> THEN draw_window(redrawn, NULL, c1)
            ELSE draw_window(pop_first(redrawn), Head(s.hidden), c1)
    BY DEF workspace_do_split
  <1>6. w # NULL => w \in Window /\ w \in s.windows /\ s.frame[w] = f
    BY <1>1 DEF Core, Framed
  <1> HIDE DEF w, g, cut
  <1>7. Core(cut, {})
    <2>1. Trees(cut)
      BY <1>1, <1>2, <1>4 DEF Trees, Aside
    <2>2. Queued(cut, {})
      BY NullIsNoObject, <1>1, <1>4, <1>6 DEF Core, Queued, Aside, State
    <2>3. Framed(cut, {})
      <3>1. Framed(s, {})
        BY <1>1 DEF Core
      <3>2. ASSUME NEW v \in Window, cut.frame[v] # NULL
            PROVE  /\ v \in cut.windows \ {}
                   /\ cut.frame[v] \in Allocated(cut.split)
                   /\ cut.split[cut.frame[v]].win = v
        <4>1. CASE v = w
          BY <1>2, <1>4, <1>6, <4>1, NullIsNoObject DEF Aside
        <4>2. CASE v # w
          <5>1. /\ cut.frame[v] = s.frame[v] /\ v \in s.windows
                /\ s.frame[v] \in Allocated(s.split)
                /\ s.split[s.frame[v]].win = v
            BY <1>4, <3>1, <3>2, <4>2 DEF Framed
          <5>2. s.frame[v] # f
            BY <4>2, <5>1 DEF w
          <5> QED
            BY <1>2, <1>4, <5>1, <5>2 DEF Aside
        <4> QED
          BY <4>1, <4>2
      <3>3. ASSUME NEW x \in Allocated(cut.split), cut.split[x].win # NULL
            PROVE  cut.split[x].isleaf /\ cut.frame[cut.split[x].win] = x
        <4>1. CASE x = c0
          BY <1>1, <1>2, <1>4, <3>3, <4>1
        <4>2. CASE x # c0
          <5>1. /\ x \in Allocated(s.split) /\ x # f
                /\ cut.split[x] = s.split[x]
            BY <1>2, <1>4, <3>3, <4>2
          <5>2. s.split[x].isleaf /\ s.frame[s.split[x].win] = x
            BY <3>1, <3>3, <5>1 DEF Framed
          <5>3. s.split[x].win \in Window /\ s.split[x].win # w
            <6>1. s.split[x] \in Node
              BY <1>1, <5>1 DEF Heap, Allocated
            <6> QED
              BY <1>6, <3>3, <5>1, <5>2, <6>1 DEF Node
          <5>4. cut.frame[s.split[x].win] = s.frame[s.split[x].win]
            BY <1>4, <5>3
          <5> QED
            BY <5>1, <5>2, <5>4
        <4> QED
          BY <4>1, <4>2
      <3> QED
        BY <3>2, <3>3 DEF Framed
    <2>4. Lit(cut)
      BY NullIsNoObject, <1>1, <1>4, <1>6 DEF Core, Lit, State
    <2> QED
      BY <1>4, <2>1, <2>2, <2>3, <2>4 DEF Core
  <1>8. OnScreens(cut) /\ Plugged(cut) /\ FocusOK(cut)
    <2>1. OnScreens(cut)
      <3>1. \A x \in Allocated(g) : g[x].screen # NULL
        BY <1>1, <1>2 DEF Whole, OnScreens
      <3>2. ASSUME NEW x \in Allocated(g), NEW p \in Allocated(g), g[x].parent = p
            PROVE  g[x].screen = g[p].screen
        <4>1. CASE x \in {c0, c1}
          BY <1>2, <3>2, <4>1
        <4>2. CASE x \notin {c0, c1}
          <5>1. /\ x \in Allocated(s.split) /\ g[x].parent = s.split[x].parent
                /\ g[x].screen = s.split[x].screen
            BY <1>2, <4>2
          <5>2. p \in Allocated(s.split)
            BY <1>1, <3>2, <5>1, NullIsNoObject DEF Forest, NodeOK, Allocated
          <5>3. g[p].screen = s.split[p].screen
            BY <1>2, <5>2
          <5> QED
            BY <3>2, <5>1, <5>2, <5>3 DEF Whole, OnScreens, Inherited
        <4> QED
          BY <4>1, <4>2
      <3>3. ASSUME NEW x \in Allocated(g), NEW i \in 1..Len(s.roots), x = s.roots[i]
            PROVE  g[x].screen = s.g_screens[i]
        <4>1. x \in Elems(s.roots)
          BY <3>3 DEF Elems
        <4>2. x \in Allocated(s.split) /\ g[x].screen = s.split[x].screen
          BY <1>1, <1>2, <4>1 DEF Forest
        <4> QED
          BY <3>3, <4>2 DEF Whole, OnScreens, Hung
      <3> QED
        BY <1>4, <3>1, <3>2, <3>3 DEF OnScreens, Inherited, Hung, Aside
    <2>2. \A x \in Leaves(s.split) \ {f} : x \in Leaves(g)
      BY <1>2 DEF Leaves
    <2>3. c0 \in Leaves(g)
      BY <1>2 DEF Leaves
    <2> QED
      BY <1>4, <2>1, <2>2, <2>3 DEF Whole, Plugged, FocusOK, Aside
  <1>9. c0 \in Allocated(cut.split) /\ w = cut.split[c0].win
    BY <1>2, <1>4
  <1>10. /\ Core(redrawn, {}) /\ Aside(cut, redrawn) /\ redrawn.split = cut.split
         /\ redrawn.focus = cut.focus /\ redrawn.hidden = cut.hidden
         /\ redrawn.frame = cut.frame /\ redrawn.shown = cut.shown
         /\ redrawn.be_focus = cut.be_focus
    BY <1>7, <1>9, RedrawKeepsCore
  <1> HIDE DEF redrawn
  <1>11. /\ c1 \in Leaves(cut.split) /\ cut.split[c1].win = NULL
         /\ cut.split[c1].screen # NULL
    BY <1>2, <1>4, <1>8 DEF Leaves, OnScreens, Inherited, Hung
  <1>14. /\ c0 \in Leaves(g) /\ g[c0].win = w /\ w = s.split[f].win
         /\ c0 # c1 /\ c0 \in Allocated(g)
         /\ \A x \in Leaves(s.split) \ {f} : x \in Leaves(g) /\ g[x].win = s.split[x].win
         /\ \A x \in Allocated(s.split) :
              x \in Allocated(g) /\ g[x].screen = s.split[x].screen
         /\ \A x \in {c0, c1} : g[x].screen = s.split[f].screen
    BY <1>2 DEF Leaves, w
  <1>12. CASE s.hidden = <<>>
    <2>1. /\ Core(t, {}) /\ Aside(redrawn, t) /\ t.split = redrawn.split
          /\ t.focus = redrawn.focus /\ t.hidden = redrawn.hidden
          /\ t.frame = redrawn.frame /\ t.shown = redrawn.shown
          /\ t.be_focus = redrawn.be_focus
      <3>1. c1 \in Allocated(redrawn.split) /\ NULL = redrawn.split[c1].win
        BY <1>10, <1>11 DEF Leaves
      <3> QED
        BY <1>5, <1>10, <1>12, <3>1, RedrawKeepsCore
    <2>2. Whole(t) /\ Aside(s, t)
      BY <1>4, <1>8, <1>10, <2>1
         DEF Whole, OnScreens, Inherited, Hung, Plugged, FocusOK, Aside
    <2>3. Halves(s, t, f, c0, c1)
      BY <1>4, <1>10, <1>12, <1>14, <1>15, <2>1, <2>2 DEF Halves
    <2> QED
      BY <2>2, <2>3 DEF Aside
  <1>13. CASE s.hidden # <<>>
    <2> DEFINE u == pop_first(redrawn)
               v == Head(s.hidden)
    <2>1. v = Head(redrawn.hidden) /\ redrawn.hidden # <<>>
      BY <1>4, <1>10, <1>13
    <2>2. /\ Core(u, {v}) /\ Aside(redrawn, u)
          /\ u.split = redrawn.split /\ u.focus = redrawn.focus
          /\ u.be_focus = redrawn.be_focus /\ u.hidden = Tail(redrawn.hidden)
          /\ u.frame = redrawn.frame /\ u.shown = redrawn.shown
          /\ redrawn.frame[v] = NULL /\ v \in Window
      BY <1>10, <2>1, PopFirstLoosens
    <2>3. t = draw_window(u, v, c1)
      BY <1>5, <1>13
    <2> HIDE DEF u, v
    <2>4. /\ c1 \in Leaves(u.split) /\ u.split[c1].win = NULL
          /\ u.split[c1].screen # NULL
      BY <1>10, <1>11, <2>2
    <2>5. /\ Core(t, {v} \ {v}) /\ Aside(u, t) /\ t.focus = u.focus
          /\ SameFrames(u.split, t.split)
          /\ t.hidden = u.hidden /\ t.be_focus = u.be_focus
          /\ \A x \in Frame : x # c1 => t.split[x] = u.split[x]
          /\ \A x \in Window : t.frame[x] = IF x = v THEN c1 ELSE u.frame[x]
          /\ \A x \in Window : t.shown[x] =
               IF x = v THEN u.split[c1].screen ELSE u.shown[x]
      <3>1. Vacant(u, c1) /\ Core(u, {v}) /\ v \in {v}
        BY <2>2, <2>4 DEF Vacant
      <3>2. Core(t, {v} \ {v}) /\ Draws(u, t, v, c1)
        BY ONLY <2>3, <3>1, DrawKeepsCore
      <3> QED
        BY <3>2 DEF Draws
    <2>6. Core(t, {})
      <3>1. {v} \ {v} = {}
        OBVIOUS
      <3> QED
        BY <2>5, <3>1
    <2>7. OnScreens(u) /\ Plugged(u) /\ FocusOK(u)
      BY <1>8, <1>10, <2>2 DEF OnScreens, Inherited, Hung, Plugged, FocusOK, Aside
    <2>8. OnScreens(t) /\ Plugged(t) /\ FocusOK(t)
      BY <2>5, <2>7, SameFramesKeepRest
    <2>9. Whole(t) /\ Aside(s, t)
      BY <1>4, <1>10, <2>2, <2>5, <2>6, <2>8 DEF Whole, Aside
    <2>10. v # w
      BY <1>1, <1>4, <1>6, <1>10, <2>2, NullIsNoObject
    <2>11. /\ t.be_focus = s.be_focus /\ t.hidden = Tail(s.hidden)
           /\ t.focus = (IF s.focus = f THEN c0 ELSE s.focus)
      BY <1>4, <1>10, <2>2, <2>5
    <2>12. \A x \in Window :
             /\ t.frame[x] = IF x = w THEN c0 ELSE IF x = v THEN c1 ELSE s.frame[x]
             /\ t.shown[x] = IF x = v THEN s.split[f].screen ELSE s.shown[x]
      <3>1. u.split[c1].screen = s.split[f].screen
        BY <1>4, <1>10, <1>14, <2>2
      <3>2. ASSUME NEW x \in Window
            PROVE  /\ u.frame[x] = IF x = w THEN c0 ELSE s.frame[x]
                   /\ u.shown[x] = s.shown[x]
        BY <1>4, <1>10, <2>2
      <3>3. ASSUME NEW x \in Window
            PROVE  /\ t.frame[x] = IF x = w THEN c0 ELSE IF x = v THEN c1 ELSE s.frame[x]
                   /\ t.shown[x] = IF x = v THEN s.split[f].screen ELSE s.shown[x]
        BY ONLY <2>5, <2>10, <3>1, <3>2, x \in Window
      <3> QED
        BY <3>3
    <2>13. /\ Allocated(t.split) = Allocated(g) /\ Leaves(t.split) = Leaves(g)
           /\ \A x \in Allocated(g) : t.split[x].screen = g[x].screen
           /\ \A x \in Allocated(g) \ {c1} : t.split[x].win = g[x].win
      BY <1>4, <1>10, <2>2, <2>5 DEF SameFrames, Leaves, Allocated
    <2>14. /\ c0 \in Leaves(t.split) /\ t.split[c0].win = s.split[f].win
           /\ \A x \in Leaves(s.split) \ {f} :
                x \in Leaves(t.split) /\ t.split[x].win = s.split[x].win
           /\ \A x \in Allocated(s.split) :
                x \in Allocated(t.split) /\ t.split[x].screen = s.split[x].screen
           /\ \A x \in {c0, c1} : t.split[x].screen = s.split[f].screen
      <3>1. \A x \in Leaves(s.split) \ {f} : x # c1 /\ x \in Allocated(g)
        BY <1>3, <1>14 DEF Leaves
      <3> QED
        BY <1>2, <1>14, <2>13, <3>1
    <2>16. \A x \in Allocated(s.split) : t.split[x] = g[x]
      <3>1. u.split = g
        BY <1>4, <1>10, <2>2
      <3>2. \A x \in Allocated(s.split) : x \in Frame /\ x # c1
        BY <1>3 DEF Allocated
      <3> QED
        BY <2>5, <3>1, <3>2
    <2>17. /\ t.split[f].frames = Children(c0, c1)
           /\ t.split[f].parent = s.split[f].parent
           /\ \A x \in Allocated(s.split) \ {f} : t.split[x] = s.split[x]
      BY <1>1, <1>15, <2>16
    <2>15. Halves(s, t, f, c0, c1)
      BY <1>13, <1>14, <2>9, <2>11, <2>12, <2>14, <2>17 DEF Halves, v
    <2> QED
      BY <2>9, <2>15 DEF Aside
  <1> QED
    BY <1>12, <1>13

LEMMA FocusKeepsWhole ==
  ASSUME NEW s, Whole(s), NEW f \in Leaves(s.split),
         NEW t, t = workspace_focus_frame(s, f)
  PROVE  Whole(t) /\ t.phase = s.phase
PROOF
  <1>1. Core(t, {}) /\ Aside(s, t) /\ t.split = s.split /\ t.focus = f
    BY FocusKeepsCore DEF Whole
  <1> QED
    BY <1>1 DEF Whole, OnScreens, Inherited, Hung, Plugged, FocusOK, Aside

(* The windows of two frames change places, and the focus of src with them. *)
Swaps(s, t, src, dst) ==
  /\ Aside(s, t) /\ t.hidden = s.hidden /\ t.be_focus = s.be_focus
  /\ t.focus = (IF s.focus = src THEN dst ELSE s.focus)
  /\ SameFrames(s.split, t.split)
  /\ t.split[dst].win = s.split[src].win
  /\ \A x \in Frame \ {src, dst} : t.split[x] = s.split[x]
  /\ \A v \in Window : t.frame[v] = IF v = s.split[dst].win THEN src
                                    ELSE IF v = s.split[src].win THEN dst
                                    ELSE s.frame[v]
  /\ \A v \in Window : t.shown[v] = s.shown[v]

LEMMA SwapKeepsWhole ==
  ASSUME NEW s, Whole(s), NEW src \in Leaves(s.split), NEW dst \in Leaves(s.split),
         NEW t, t = workspace_swap_windows_from_frames(s, src, dst)
  PROVE  Whole(t) /\ t.phase = s.phase /\ Swaps(s, t, src, dst)
PROOF
  <1>1. CASE src = dst
    <2>1. t = s
      BY <1>1 DEF workspace_swap_windows_from_frames
    <2>2. \A v \in Window : v = s.split[dst].win => s.frame[v] = src
      BY <1>1, LeafIsFrame, NullIsNoObject DEF Whole, Core, State, Framed
    <2> QED
      BY <1>1, <2>1, <2>2 DEF Swaps, Aside, SameFrames
  <1>2. CASE src # dst
    <2> DEFINE a == s.split[src].win
               b == s.split[dst].win
               u == draw_window(s, a, dst)
               v == draw_window(u, b, src)
    <2>1. /\ s \in State /\ Core(s, {}) /\ s.split \in Heap
          /\ src \in Frame /\ src \in Allocated(s.split)
          /\ dst \in Frame /\ dst \in Allocated(s.split)
          /\ s.split[src] \in Node /\ s.split[dst] \in Node
          /\ s.split[src].isleaf /\ s.split[dst].isleaf
          /\ src # NULL /\ dst # NULL
          /\ a \in Window \cup {NULL} /\ b \in Window \cup {NULL}
          /\ Forest(s.split, Elems(s.roots)) /\ Distinct(s.roots)
      BY LeafIsFrame, NullIsNoObject DEF Whole, Core, State, Trees, Node
    <2>2. t = [v EXCEPT !.focus = IF @ = src THEN dst ELSE @]
      BY <1>2 DEF workspace_swap_windows_from_frames, swap_windows
    <2>20. /\ u = draw_window(s, a, dst) /\ v = draw_window(u, b, src)
           /\ a = s.split[src].win /\ b = s.split[dst].win
      OBVIOUS
    <2>3. /\ a # NULL => a \in s.windows /\ s.frame[a] = src /\ s.shown[a] # NULL
          /\ b # NULL => b \in s.windows /\ s.frame[b] = dst /\ s.shown[b] # NULL
      BY <2>1 DEF Core, Framed, Lit
    <2> HIDE DEF u, v, a, b
    <2>4. /\ u \in State /\ Aside(s, u)
          /\ u.split = [s.split EXCEPT ![dst].win = a]
          /\ u.focus = s.focus /\ u.hidden = s.hidden
          /\ u.be_focus = s.be_focus
          /\ \A x \in Window : u.frame[x] = IF x = a THEN dst ELSE s.frame[x]
          /\ \A x \in Window : u.shown[x] =
               IF x = a /\ s.shown[x] = NULL THEN s.split[dst].screen ELSE s.shown[x]
      <3>1. /\ s \in State /\ dst \in Frame /\ dst \in Allocated(s.split)
            /\ a \in Window \cup {NULL} /\ u = draw_window(s, a, dst)
        BY <2>1, <2>20
      <3> QED
        BY <3>1, DrawEffect
    <2>5. /\ u.split \in Heap /\ SameFrames(s.split, u.split)
          /\ u.split[dst].win = a
          /\ \A x \in Frame : x # dst => u.split[x] = s.split[x]
      <3>1. /\ s.split \in Heap /\ dst \in Allocated(s.split) /\ dst \in Frame
            /\ a \in Window \cup {NULL}
        BY <2>1, <2>4
      <3>2. u.split \in Heap
        BY <2>4 DEF State
      <3>3. /\ u.split[dst] = [s.split[dst] EXCEPT !.win = a]
            /\ \A x \in Frame : x # dst => u.split[x] = s.split[x]
        BY <2>4, <3>1 DEF Heap
      <3> QED
        BY <3>1, <3>2, <3>3, WinKeepsFrames
    <2>6. src \in Allocated(u.split)
      BY <2>1, <2>5 DEF SameFrames
    <2>7. /\ v \in State /\ Aside(u, v)
          /\ v.split = [u.split EXCEPT ![src].win = b]
          /\ v.focus = u.focus /\ v.hidden = u.hidden
          /\ v.be_focus = u.be_focus
          /\ \A x \in Window : v.frame[x] = IF x = b THEN src ELSE u.frame[x]
          /\ \A x \in Window : v.shown[x] =
               IF x = b /\ u.shown[x] = NULL THEN u.split[src].screen ELSE u.shown[x]
      <3>1. /\ u \in State /\ src \in Frame /\ src \in Allocated(u.split)
            /\ b \in Window \cup {NULL} /\ v = draw_window(u, b, src)
        BY <2>1, <2>4, <2>6, <2>20
      <3> QED
        BY <3>1, DrawEffect
    <2>8. /\ v.split \in Heap /\ SameFrames(u.split, v.split)
          /\ v.split[src].win = b
          /\ \A x \in Frame : x # src => v.split[x] = u.split[x]
      <3>1. /\ u.split \in Heap /\ src \in Allocated(u.split) /\ src \in Frame
            /\ b \in Window \cup {NULL}
        BY <2>1, <2>5, <2>6, <2>7
      <3>2. v.split \in Heap
        BY <2>7 DEF State
      <3>3. /\ v.split[src] = [u.split[src] EXCEPT !.win = b]
            /\ \A x \in Frame : x # src => v.split[x] = u.split[x]
        BY <2>7, <3>1 DEF Heap
      <3> QED
        BY <3>1, <3>2, <3>3, WinKeepsFrames
    <2>9. /\ SameFrames(s.split, v.split) /\ Leaves(v.split) = Leaves(s.split)
      BY <2>5, <2>8, SameFramesCompose
    <2>10. /\ v.split[dst].win = a /\ v.split[src].win = b
           /\ \A x \in Frame \ {src, dst} : v.split[x] = s.split[x]
      BY <1>2, <2>1, <2>5, <2>8
    <2>11. /\ t \in State /\ Aside(s, t) /\ t.split = v.split
           /\ t.hidden = s.hidden /\ t.be_focus = s.be_focus
           /\ t.focus = (IF s.focus = src THEN dst ELSE s.focus)
           /\ t.frame = v.frame /\ t.shown = v.shown
      <3>1. t \in State /\ Aside(v, t) /\ t.split = v.split
            /\ t.hidden = v.hidden /\ t.be_focus = v.be_focus
            /\ t.focus = (IF v.focus = src THEN dst ELSE v.focus)
            /\ t.frame = v.frame /\ t.shown = v.shown
        BY <2>1, <2>2, <2>7 DEF State, Aside
      <3> QED
        BY <2>4, <2>7, <3>1 DEF Aside
    <2>12. \A x \in Window : t.frame[x] = IF x = b THEN src
                                         ELSE IF x = a THEN dst ELSE s.frame[x]
      BY <2>4, <2>7, <2>11
    <2>13. \A x \in Window : t.shown[x] = s.shown[x]
      <3>1. \A x \in Window : u.shown[x] = s.shown[x]
        BY <2>3, <2>4, NullIsNoObject
      <3> QED
        BY <2>3, <2>7, <2>11, <3>1, NullIsNoObject
    <2>14. Trees(t)
      <3>1. \A x \in Allocated(s.split) : ~s.split[x].isleaf => v.split[x].win = NULL
        BY <2>1, <2>10 DEF Forest, NodeOK, Allocated
      <3>2. Forest(v.split, Elems(s.roots))
        BY <2>1, <2>8, <2>9, <3>1, SameFramesKeepForest
      <3> QED
        BY <2>1, <2>11, <3>2 DEF Trees, Aside
    <2>15. Queued(t, {})
      BY <2>1, <2>3, <2>11, <2>12, NullIsNoObject DEF Core, Queued, Aside, State
    <2>16. Framed(t, {})
      <3>1. Framed(s, {})
        BY <2>1 DEF Core
      <3>2. ASSUME NEW x \in Window, t.frame[x] # NULL
            PROVE  /\ x \in t.windows \ {}
                   /\ t.frame[x] \in Allocated(t.split)
                   /\ t.split[t.frame[x]].win = x
        <4>1. CASE x = a \/ x = b
          BY <2>1, <2>3, <2>9, <2>10, <2>11, <2>12, <4>1, NullIsNoObject
             DEF SameFrames, Aside
        <4>2. CASE x # a /\ x # b
          <5>1. /\ t.frame[x] = s.frame[x] /\ x \in s.windows
                /\ s.frame[x] \in Allocated(s.split)
                /\ s.split[s.frame[x]].win = x
            BY <2>12, <3>1, <3>2, <4>2 DEF Framed
          <5>2. s.frame[x] \in Frame \ {src, dst}
            BY <4>2, <5>1 DEF a, b, Allocated
          <5> QED
            BY <2>9, <2>10, <2>11, <5>1, <5>2 DEF SameFrames, Aside
        <4> QED
          BY <4>1, <4>2
      <3>3. ASSUME NEW x \in Allocated(t.split), t.split[x].win # NULL
            PROVE  t.split[x].isleaf /\ t.frame[t.split[x].win] = x
        <4>1. x \in Allocated(s.split) /\ t.split[x].isleaf = s.split[x].isleaf
          BY <2>9, <2>11, <3>3 DEF SameFrames
        <4>2. CASE x = dst
          <5>1. t.split[x].win = a /\ a \in Window /\ (a # b)
            BY <1>2, <2>1, <2>3, <2>10, <2>11, <3>3, <4>2
          <5> QED
            BY <2>1, <2>12, <4>1, <4>2, <5>1
        <4>3. CASE x = src
          <5>1. t.split[x].win = b /\ b \in Window
            BY <2>1, <2>10, <2>11, <3>3, <4>3
          <5> QED
            BY <2>1, <2>12, <4>1, <4>3, <5>1
        <4>4. CASE x # src /\ x # dst
          <5>1. t.split[x] = s.split[x] /\ s.split[x] \in Node
            BY <2>1, <2>10, <2>11, <4>1, <4>4 DEF Heap, Allocated
          <5>2. s.split[x].isleaf /\ s.frame[s.split[x].win] = x
            BY <3>1, <3>3, <4>1, <5>1 DEF Framed
          <5>3. s.split[x].win \in Window /\ s.split[x].win \notin {a, b}
            BY <2>3, <3>3, <4>4, <5>1, <5>2 DEF Node
          <5>4. t.frame[s.split[x].win] = s.frame[s.split[x].win]
            BY <2>12, <5>3
          <5> QED
            BY <5>1, <5>2, <5>4
        <4> QED
          BY <4>2, <4>3, <4>4
      <3> QED
        BY <3>2, <3>3 DEF Framed
    <2>17. Lit(t)
      <3>1. Lit(s) /\ s.be_focus \in Window \cup {NULL} /\ t.be_focus = s.be_focus
        BY <2>1, <2>11 DEF Core, State
      <3>2. \A x \in Window : t.frame[x] # NULL <=> s.frame[x] # NULL
        BY ONLY <2>1, <2>3, <2>12, NullIsNoObject
      <3> QED
        BY ONLY <2>13, <3>1, <3>2 DEF Lit
    <2>18. SameFrames(s.split, t.split) /\ t.focus \in Leaves(t.split) \cup {s.focus}
      BY <2>9, <2>11
    <2>19. OnScreens(t) /\ Plugged(t) /\ FocusOK(t)
      BY <2>11, <2>18, SameFramesKeepRest DEF Whole
    <2>21. Swaps(s, t, src, dst)
      BY <2>9, <2>10, <2>11, <2>12, <2>13 DEF Swaps, a, b
    <2> QED
      BY <2>11, <2>14, <2>15, <2>16, <2>17, <2>19, <2>21 DEF Whole, Core, Aside
  <1> QED
    BY <1>1, <1>2

-----------------------------------------------------------------------------
(* Rendering the workspace again.                                           *)

(* What workspace_restore() leaves alone. *)
Outside(s, t) ==
  /\ t.windows = s.windows /\ t.g_screens = s.g_screens
  /\ t.be_screens = s.be_screens /\ t.phase = s.phase

(* The windows of lost leave their frames for the end of the queue. *)
Evicts(s, t, lost) ==
  /\ lost \in SUBSET Window /\ \A w \in lost : s.frame[w] # NULL
  /\ \E order \in Orderings(lost) : t.hidden = s.hidden \o order
  /\ \A w \in Window : t.frame[w] = IF w \in lost THEN NULL ELSE s.frame[w]
  /\ \A w \in Window : t.shown[w] = IF w \in lost THEN NULL ELSE s.shown[w]
  /\ t.be_focus = (IF s.be_focus \in lost THEN NULL ELSE s.be_focus)

(* The frames on screens are where rendering them again would put them. *)
Settled(s) ==
  /\ \A f \in Allocated(s.split) : s.split[f].screen # NULL
  /\ Inherited(s)
  /\ \A f \in Allocated(s.split), i \in 1..Len(s.roots) :
       i <= Len(s.g_screens) /\ f = s.roots[i] => s.split[f].screen = s.g_screens[i]

Rendered(s, t, lost) ==
  /\ Evicts(s, t, lost)
  /\ Len(s.roots) <= Len(s.g_screens) =>
       lost = {} /\ Allocated(s.split) \subseteq Allocated(t.split)
  /\ Len(s.roots) = Len(s.g_screens) => Allocated(t.split) = Allocated(s.split)
  /\ Settled(s) => \A f \in Allocated(s.split) \cap Allocated(t.split) :
                     t.split[f].screen = s.split[f].screen

LEMMA NothingToOrder ==
  ASSUME NEW q \in Seq(Window)
  PROVE  /\ \E order \in Orderings({}) : q = q \o order
         /\ \A order \in Orderings({}) : q \o order = q
PROOF
  <1>1. Cardinality({}) = 0
    BY FS_EmptySet
  <1>2. <<>> \in [1..0 -> {}] /\ Elems(<<>>) = {} /\ Distinct(<<>>)
    BY DEF Elems, Distinct
  <1>3. <<>> \in Orderings({})
    BY <1>1, <1>2 DEF Orderings
  <1>4. q = q \o <<>>
    OBVIOUS
  <1>5. ASSUME NEW order \in Orderings({}) PROVE order = <<>>
    <2>1. order \in [1..0 -> {}]
      BY <1>1, <1>5 DEF Orderings
    <2>2. order \in Seq({}) /\ Len(order) = 0
      BY <2>1
    <2> QED
      BY <2>2
  <1> QED
    BY <1>3, <1>4, <1>5

LEMMA PopRootKeepsCore ==
  ASSUME NEW s, Core(s, {}), s.roots # <<>>, NEW t \in pop_root(s)
  PROVE  /\ Core(t, {}) /\ Outside(s, t) /\ Len(t.roots) = Len(s.roots) - 1
         /\ \A i \in 1..Len(t.roots) : t.roots[i] = s.roots[i]
         /\ \A f \in Allocated(t.split) :
              f \in Allocated(s.split) /\ t.split[f] = s.split[f]
         /\ \E lost \in SUBSET Window : Evicts(s, t, lost)
PROOF
  <1> DEFINE r       == s.roots[Len(s.roots)]
             tree    == Tree(s.split, r)
             evicted == {s.split[f].win : f \in tree} \ {NULL}
             h       == [f \in Frame |-> IF f \in tree THEN NULL ELSE s.split[f]]
             front   == SubSeq(s.roots, 1, Len(s.roots) - 1)
  <1>1. /\ s \in State /\ s.split \in Heap /\ s.roots \in Seq(Frame)
        /\ Forest(s.split, Elems(s.roots)) /\ Distinct(s.roots)
        /\ Framed(s, {}) /\ Queued(s, {}) /\ Lit(s)
        /\ s.hidden \in Seq(Window) /\ s.windows \subseteq Window
        /\ s.be_focus \in Window \cup {NULL}
    BY DEF Core, State, Trees
  <1>2. /\ r \in Elems(s.roots) /\ front \in Seq(Frame)
        /\ Len(front) = Len(s.roots) - 1
        /\ \A i \in 1..(Len(s.roots) - 1) : front[i] = s.roots[i]
        /\ Distinct(front) /\ Elems(front) = Elems(s.roots) \ {r}
    BY <1>1, ElemsOfFront
  <1>3. PICK order \in Orderings(evicted) :
          t = [s EXCEPT
                 !.roots    = front,
                 !.split    = [f \in Frame |-> IF f \in tree THEN NULL ELSE @[f]],
                 !.hidden   = @ \o order,
                 !.frame    = [w \in Window |-> IF w \in evicted THEN NULL ELSE @[w]],
                 !.shown    = [w \in Window |-> IF w \in evicted THEN NULL ELSE @[w]],
                 !.be_focus = IF @ \in evicted THEN NULL ELSE @,
                 !.fault    = IF UnlinkSafe(s, evicted) THEN @ ELSE "link"]
    BY DEF pop_root
  <1>4. r \in Allocated(s.split) /\ tree \subseteq Allocated(s.split)
    <2>1. r \in Allocated(s.split)
      BY <1>1, <1>2 DEF Forest
    <2> QED
      BY <1>1, <2>1, TreeIsClosed
  <1>5. /\ h \in Heap /\ Allocated(h) = Allocated(s.split) \ tree
        /\ \A x \in Allocated(h) : h[x] = s.split[x]
        /\ Forest(h, Elems(s.roots) \ {r})
    <2> DEFINE R == Elems(s.roots)
    <2>1. /\ s.split \in Heap /\ Forest(s.split, R) /\ r \in R
          /\ \A f \in Frame :
               h[f] = IF f \in Tree(s.split, r) THEN NULL ELSE s.split[f]
          /\ h \in Heap
          /\ tree = Tree(s.split, r)
      BY <1>1, <1>2 DEF Heap
    <2> HIDE DEF R, r, tree, h
    <2>2. /\ Allocated(h) = Allocated(s.split) \ Tree(s.split, r)
          /\ \A x \in Allocated(h) : h[x] = s.split[x]
          /\ Forest(h, R \ {r})
      BY <2>1, DropKeepsForest
    <2> QED
      BY <2>1, <2>2 DEF R
  <1>6. \A w \in evicted : /\ w \in Window /\ w \in s.windows
                           /\ s.frame[w] \in tree /\ s.frame[w] # NULL
    <2> SUFFICES ASSUME NEW f \in tree, s.split[f].win # NULL
                 PROVE  LET w == s.split[f].win IN
                        /\ w \in Window /\ w \in s.windows
                        /\ s.frame[w] \in tree /\ s.frame[w] # NULL
      BY DEF evicted
    <2>1. f \in Allocated(s.split) /\ f \in Frame /\ s.split[f] \in Node
      BY <1>1, <1>4 DEF Heap, Allocated
    <2>2. s.split[f].win \in Window
      BY <2>1 DEF Node
    <2>3. s.frame[s.split[f].win] = f /\ f # NULL
      BY <1>1, <2>1, NullIsNoObject DEF Framed
    <2> QED
      BY <1>1, <2>2, <2>3 DEF Framed
  <1>7. \A w \in Window : s.frame[w] \in tree => w \in evicted
    <2> SUFFICES ASSUME NEW w \in Window, s.frame[w] \in tree
                 PROVE  w \in evicted
      OBVIOUS
    <2>1. s.split[s.frame[w]].win = w /\ w # NULL
      BY <1>1, <1>4, NullIsNoObject DEF Framed, Allocated
    <2> QED
      BY <2>1 DEF evicted
  <1> HIDE DEF r, tree, evicted, front
  <1>8. order \in Seq(Window) /\ Distinct(order) /\ Elems(order) = evicted
    <2>1. IsFiniteSet(evicted)
      BY <1>6, WindowIsFinite, FS_Subset
    <2>2. Cardinality(evicted) \in Nat
      BY <2>1, FS_CardinalityType
    <2>3. order \in [1..Cardinality(evicted) -> Window]
      BY <1>3, <1>6 DEF Orderings
    <2> QED
      BY <1>3, <2>2, <2>3 DEF Orderings
  <1>9. /\ s.hidden \o order \in Seq(Window)
        /\ Elems(s.hidden \o order) = Elems(s.hidden) \cup evicted
        /\ Distinct(s.hidden \o order)
    <2>1. Distinct(s.hidden) /\ Elems(s.hidden) \cap Elems(order) = {}
      BY <1>1, <1>6, <1>8 DEF Queued
    <2> QED
      BY <1>1, <1>8, <2>1, ElemsOfConcat
  <1>10. /\ t \in State /\ Outside(s, t)
         /\ t.roots = front /\ t.split = h /\ t.hidden = s.hidden \o order
         /\ \A w \in Window : t.frame[w] = IF w \in evicted THEN NULL ELSE s.frame[w]
         /\ \A w \in Window : t.shown[w] = IF w \in evicted THEN NULL ELSE s.shown[w]
         /\ t.be_focus = IF s.be_focus \in evicted THEN NULL ELSE s.be_focus
    <2> DEFINE q == s.hidden \o order
               m == [w \in Window |-> IF w \in evicted THEN NULL ELSE s.frame[w]]
               l == [w \in Window |-> IF w \in evicted THEN NULL ELSE s.shown[w]]
               k == IF s.be_focus \in evicted THEN NULL ELSE s.be_focus
               e == IF UnlinkSafe(s, evicted) THEN s.fault ELSE "link"
    <2>1. t = [s EXCEPT !.roots = front, !.split = h, !.hidden = q, !.frame = m,
                        !.shown = l, !.be_focus = k, !.fault = e]
      BY <1>1, <1>3 DEF State
    <2>2. /\ q \in Seq(Window) /\ m \in [Window -> Frame \cup {NULL}]
          /\ l \in [Window -> Screen \cup {NULL}]
          /\ k \in Window \cup {NULL} /\ e \in Faults
      BY <1>1, <1>9 DEF State, Faults
    <2>3. /\ \A w \in Window : m[w] = IF w \in evicted THEN NULL ELSE s.frame[w]
          /\ \A w \in Window : l[w] = IF w \in evicted THEN NULL ELSE s.shown[w]
      OBVIOUS
    <2>4. q = s.hidden \o order /\ k = IF s.be_focus \in evicted THEN NULL ELSE s.be_focus
      OBVIOUS
    <2> HIDE DEF q, m, l, k, e, h
    <2>5. /\ t \in State /\ Outside(s, t)
          /\ t.roots = front /\ t.split = h /\ t.hidden = q /\ t.frame = m
          /\ t.shown = l /\ t.be_focus = k
      BY <1>1, <1>2, <1>5, <2>1, <2>2 DEF State, Outside
    <2> QED
      BY <2>3, <2>4, <2>5
  <1> HIDE DEF h
  <1>11. Trees(t)
    BY <1>2, <1>5, <1>10 DEF Trees
  <1>12. Queued(t, {})
    BY <1>1, <1>6, <1>9, <1>10 DEF Queued, Outside
  <1>13. Framed(t, {})
    <2>1. ASSUME NEW w \in Window, t.frame[w] # NULL
          PROVE  /\ w \in t.windows \ {} /\ t.frame[w] \in Allocated(t.split)
                 /\ t.split[t.frame[w]].win = w
      <3>1. w \notin evicted /\ t.frame[w] = s.frame[w]
        BY <1>10, <2>1
      <3>2. /\ w \in s.windows /\ s.frame[w] \in Allocated(s.split)
            /\ s.split[s.frame[w]].win = w
        BY <1>1, <2>1, <3>1 DEF Framed
      <3>3. s.frame[w] \in Allocated(h)
        BY <1>5, <1>7, <3>1, <3>2
      <3> QED
        BY <1>5, <1>10, <3>1, <3>2, <3>3 DEF Outside
    <2>2. ASSUME NEW x \in Allocated(t.split), t.split[x].win # NULL
          PROVE  t.split[x].isleaf /\ t.frame[t.split[x].win] = x
      <3>1. x \in Allocated(s.split) \ tree /\ t.split[x] = s.split[x]
        BY <1>5, <1>10, <2>2
      <3>2. s.split[x].isleaf /\ s.frame[s.split[x].win] = x
        BY <1>1, <2>2, <3>1 DEF Framed
      <3>3. s.split[x].win \in Window /\ s.split[x].win \notin evicted
        <4>1. s.split[x] \in Node
          BY <1>1, <3>1 DEF Heap, Allocated
        <4> QED
          BY <1>6, <2>2, <3>1, <3>2, <4>1 DEF Node
      <3>4. t.frame[s.split[x].win] = s.frame[s.split[x].win]
        BY <1>10, <3>3
      <3> QED
        BY <3>1, <3>2, <3>4
    <2> QED
      BY <2>1, <2>2 DEF Framed
  <1>14. Lit(t)
    BY <1>1, <1>6, <1>10 DEF Lit
  <1>15. evicted \in SUBSET Window /\ Evicts(s, t, evicted)
    BY <1>3, <1>6, <1>10 DEF Evicts
  <1>16. \A f \in Allocated(t.split) :
           f \in Allocated(s.split) /\ t.split[f] = s.split[f]
    BY <1>5, <1>10
  <1>17. \A i \in 1..Len(t.roots) : t.roots[i] = s.roots[i]
    BY <1>2, <1>10
  <1> QED
    BY <1>2, <1>10, <1>11, <1>12, <1>13, <1>14, <1>15, <1>16, <1>17 DEF Core

(* The new root has no screen until the roots are mapped. *)
Pushed(s, t, f) ==
  /\ \A i \in 1..Len(s.roots) : t.roots[i] = s.roots[i]
  /\ t.roots[Len(s.roots) + 1] = f
  /\ Allocated(t.split) = Allocated(s.split) \cup {f}
  /\ \A x \in Allocated(s.split) : t.split[x] = s.split[x]
  /\ t.split[f].screen = NULL /\ t.split[f].parent = NULL
  /\ t.hidden = s.hidden /\ t.frame = s.frame /\ t.shown = s.shown
  /\ t.be_focus = s.be_focus

LEMMA PushRootKeepsCore ==
  ASSUME NEW s, Core(s, {}), NEW f \in Free(s.split),
         NEW t, t = [s EXCEPT !.split[f] = split_new(NULL, NULL),
                              !.roots = Append(@, f)]
  PROVE  /\ Core(t, {}) /\ Outside(s, t) /\ Len(t.roots) = Len(s.roots) + 1
         /\ Pushed(s, t, f)
PROOF
  <1> DEFINE h == [s.split EXCEPT ![f] = split_new(NULL, NULL)]
             q == Append(s.roots, f)
  <1>1. /\ s \in State /\ s.split \in Heap /\ s.roots \in Seq(Frame) /\ f \in Frame
        /\ Forest(s.split, Elems(s.roots)) /\ Distinct(s.roots)
        /\ Framed(s, {}) /\ Queued(s, {}) /\ Lit(s)
    BY DEF Core, State, Trees, Free
  <1>2. /\ h \in Heap /\ Allocated(h) = Allocated(s.split) \cup {f}
        /\ \A x \in Allocated(s.split) : h[x] = s.split[x]
        /\ h[f].isleaf /\ h[f].win = NULL /\ f \notin Allocated(s.split)
        /\ h[f].screen = NULL /\ h[f].parent = NULL
        /\ Forest(h, Elems(s.roots) \cup {f})
    <2> DEFINE R == Elems(s.roots)
    <2>1. /\ s.split \in Heap /\ Forest(s.split, R) /\ f \in Free(s.split)
          /\ h[f] = split_new(NULL, NULL) /\ h \in Heap
          /\ \A x \in Frame : x # f => h[x] = s.split[x]
      <3>1. split_new(NULL, NULL) \in Node
        BY SplitNewIsNode
      <3> QED
        BY <1>1, <3>1 DEF Heap
    <2> HIDE DEF R, h
    <2>2. /\ Allocated(h) = Allocated(s.split) \cup {f}
          /\ \A x \in Allocated(s.split) : h[x] = s.split[x]
          /\ h[f].isleaf /\ h[f].win = NULL /\ f \notin Allocated(s.split)
          /\ Forest(h, R \cup {f})
      BY <2>1, PushKeepsForest
    <2>3. h[f].screen = NULL /\ h[f].parent = NULL
      BY <2>1, SplitNewIsNode
    <2> QED
      BY <2>1, <2>2, <2>3 DEF R
  <1>3. f \notin Elems(s.roots)
    BY <1>1, <1>2 DEF Forest
  <1>4. /\ q \in Seq(Frame) /\ Elems(q) = Elems(s.roots) \cup {f}
        /\ Distinct(q) /\ Len(q) = Len(s.roots) + 1
        /\ \A i \in 1..Len(s.roots) : q[i] = s.roots[i]
        /\ q[Len(s.roots) + 1] = f
    <2>1. /\ \A i \in 1..Len(s.roots) : q[i] = s.roots[i]
          /\ q[Len(s.roots) + 1] = f /\ Len(q) = Len(s.roots) + 1
      BY <1>1
    <2> HIDE DEF q
    <2>2. q = Append(s.roots, f)
      BY DEF q
    <2> QED
      BY <1>1, <1>3, <2>1, <2>2, ElemsOfAppend
  <1>5. t = [s EXCEPT !.split = h, !.roots = q]
    OBVIOUS
  <1> HIDE DEF h, q
  <1>6. /\ t \in State /\ Outside(s, t) /\ t.split = h /\ t.roots = q
        /\ t.hidden = s.hidden /\ t.frame = s.frame /\ t.shown = s.shown
        /\ t.be_focus = s.be_focus
    BY <1>1, <1>2, <1>4, <1>5 DEF State, Outside
  <1>7. Trees(t)
    BY <1>2, <1>4, <1>6 DEF Trees
  <1>8. Queued(t, {})
    BY <1>1, <1>6 DEF Queued, Outside
  <1>9. Framed(t, {})
    <2>1. ASSUME NEW w \in Window, t.frame[w] # NULL
          PROVE  /\ w \in t.windows \ {} /\ t.frame[w] \in Allocated(t.split)
                 /\ t.split[t.frame[w]].win = w
      BY <1>1, <1>2, <1>6, <2>1 DEF Framed, Outside
    <2>2. ASSUME NEW x \in Allocated(t.split), t.split[x].win # NULL
          PROVE  t.split[x].isleaf /\ t.frame[t.split[x].win] = x
      <3>1. x \in Allocated(s.split) /\ t.split[x] = s.split[x]
        BY <1>2, <1>6, <2>2
      <3> QED
        BY <1>1, <1>6, <2>2, <3>1 DEF Framed
    <2> QED
      BY <2>1, <2>2 DEF Framed
  <1>10. Lit(t)
    BY <1>1, <1>6 DEF Lit
  <1> QED
    BY <1>2, <1>4, <1>6, <1>7, <1>8, <1>9, <1>10 DEF Core, Pushed

LEMMA MapRootsKeepsCore ==
  ASSUME NEW s, Core(s, {}), Len(s.roots) = Len(s.g_screens),
         NEW t, t = map_roots(s)
  PROVE  /\ Core(t, {}) /\ Aside(s, t) /\ OnScreens(t) /\ t.focus = s.focus
         /\ t.hidden = s.hidden /\ t.frame = s.frame /\ t.shown = s.shown
         /\ t.be_focus = s.be_focus /\ Allocated(t.split) = Allocated(s.split)
         /\ Inherited(s) => \A f \in Allocated(s.split) :
              \E i \in 1..Len(s.roots) :
                /\ t.split[f].screen = s.g_screens[i]
                /\ s.split[f].screen = s.split[s.roots[i]].screen
PROOF
  <1> DEFINE n    == Len(s.roots)
             tree == [i \in 1..n |-> Tree(s.split, s.roots[i])]
             in(i, w) == \E f \in tree[i] : s.split[f].win = w
             on(f) == s.g_screens[CHOOSE i \in 1..n : f \in tree[i]]
             h == [f \in Frame |-> IF \E i \in 1..n : f \in tree[i]
                                   THEN [s.split[f] EXCEPT !.screen = on(f)]
                                   ELSE s.split[f]]
             l == [w \in Window |->
                     IF s.shown[w] = NULL /\ \E i \in 1..n : in(i, w)
                     THEN s.g_screens[CHOOSE i \in 1..n : in(i, w)]
                     ELSE s.shown[w]]
  <1>1. /\ s \in State /\ s.split \in Heap /\ s.roots \in Seq(Frame)
        /\ s.g_screens \in Seq(Screen) /\ n = Len(s.g_screens)
        /\ s.shown \in [Window -> Screen \cup {NULL}]
        /\ Forest(s.split, Elems(s.roots)) /\ Distinct(s.roots)
        /\ Framed(s, {}) /\ Queued(s, {}) /\ Lit(s)
    BY DEF Core, State, Trees
  <1>2. \A i \in 1..n : tree[i] \subseteq Allocated(s.split)
    <2> SUFFICES ASSUME NEW i \in 1..n PROVE tree[i] \subseteq Allocated(s.split)
      OBVIOUS
    <2>1. s.roots[i] \in Allocated(s.split)
      BY <1>1 DEF Forest, Elems
    <2> QED
      BY <1>1, <2>1, TreeIsClosed
  <1>3. \A f \in Allocated(s.split) : \E i \in 1..n : f \in tree[i]
    BY <1>1 DEF Forest, Elems
  <1>4. \A i \in 1..n : s.g_screens[i] \in Screen
    BY <1>1
  <1>5. t = [s EXCEPT !.split = h, !.shown = l]
    BY <1>1 DEF map_roots, State
  <1>6. l = s.shown
    <2>1. ASSUME NEW w \in Window, s.shown[w] = NULL, NEW i \in 1..n, in(i, w)
          PROVE  FALSE
      <3>1. PICK f \in tree[i] : s.split[f].win = w
        BY <2>1
      <3>2. s.frame[w] = f /\ f # NULL
        <4>1. f \in Allocated(s.split) /\ w # NULL
          BY <1>2, <3>1, NullIsNoObject
        <4> QED
          BY <1>1, <3>1, <4>1, NullIsNoObject DEF Framed, Allocated
      <3> QED
        BY <1>1, <2>1, <3>2 DEF Lit
    <2> QED
      BY <1>1, <2>1
  <1> HIDE DEF tree, n
  <1>7. \A f \in Allocated(s.split) : on(f) \in Screen
    BY <1>3, <1>4
  <1>16. ASSUME NEW f \in Allocated(s.split), NEW p \in Allocated(s.split),
                s.split[f].parent = p
         PROVE  on(f) = on(p)
    <2>1. ASSUME NEW i \in 1..n
          PROVE  f \in tree[i] <=> p \in tree[i]
      <3>1. /\ s.roots[i] \in Elems(s.roots) /\ s.roots[i] \in Allocated(s.split)
            /\ s.split[s.roots[i]].parent = NULL
            /\ tree[i] = Tree(s.split, s.roots[i])
        BY <1>1 DEF Forest, Elems, tree, n
      <3>2. /\ f # s.roots[i] /\ ~s.split[p].isleaf
            /\ f \in {s.split[p].frames[0], s.split[p].frames[1]}
        BY <1>1, <1>16, <3>1, NullIsNoObject DEF Forest, NodeOK, Allocated
      <3>3. f \in tree[i] => p \in tree[i]
        BY <1>1, <1>16, <3>1, <3>2, TreeHasParents
      <3>4. p \in tree[i] => f \in tree[i]
        BY <1>1, <3>1, <3>2, TreeIsClosed DEF ClosedBelow
      <3> QED
        BY <3>3, <3>4
    <2>2. (CHOOSE i \in 1..n : f \in tree[i]) = (CHOOSE i \in 1..n : p \in tree[i])
      BY <2>1
    <2> QED
      BY <2>2
  <1>17. ASSUME NEW f \in Allocated(s.split), NEW i \in 1..n, f = s.roots[i]
         PROVE  on(f) = s.g_screens[i]
    <2>1. f \in tree[i] /\ s.split[f].parent = NULL
      BY <1>1, <1>17, TreeIsClosed DEF Forest, Elems, tree, n
    <2>2. ASSUME NEW j \in 1..n, f \in tree[j] PROVE j = i
      <3>1. /\ s.roots[j] \in Allocated(s.split)
            /\ tree[j] = Tree(s.split, s.roots[j])
        BY <1>1 DEF Forest, Elems, tree, n
      <3>2. f = s.roots[j]
        BY <1>1, <2>1, <2>2, <3>1, TreeHasParents, TreeIsClosed, NullIsNoObject
           DEF Allocated
      <3> QED
        BY <1>1, <1>17, <3>2 DEF Distinct, n
    <2>3. (CHOOSE j \in 1..n : f \in tree[j]) = i
      BY <2>1, <2>2
    <2> QED
      BY <2>3
  <1>18. ASSUME Inherited(s), NEW f \in Allocated(s.split)
         PROVE  \E i \in 1..n : /\ on(f) = s.g_screens[i]
                                /\ s.split[f].screen = s.split[s.roots[i]].screen
    <2> DEFINE i == CHOOSE i \in 1..n : f \in tree[i]
    <2>1. i \in 1..n /\ f \in tree[i] /\ on(f) = s.g_screens[i]
      BY <1>3
    <2> HIDE DEF i
    <2>2. s.roots[i] \in Allocated(s.split) /\ tree[i] = Tree(s.split, s.roots[i])
      BY <1>1, <2>1 DEF Forest, Elems, tree, n
    <2>3. s.split[f].screen = s.split[s.roots[i]].screen
      BY <1>1, <1>18, <2>1, <2>2, TreeOnOneScreen
    <2> QED
      BY <2>1, <2>3
  <1> HIDE DEF on
  <1>8. /\ \A f \in Allocated(s.split) : h[f] = [s.split[f] EXCEPT !.screen = on(f)]
        /\ \A f \in Frame : f \notin Allocated(s.split) => h[f] = s.split[f]
    BY <1>2, <1>3 DEF Allocated
  <1>9. \A f \in Allocated(s.split) :
          /\ h[f] \in Node /\ h[f].screen = on(f)
          /\ h[f].isleaf = s.split[f].isleaf /\ h[f].parent = s.split[f].parent
          /\ h[f].frames = s.split[f].frames /\ h[f].win = s.split[f].win
    <2> SUFFICES ASSUME NEW f \in Allocated(s.split)
                 PROVE /\ h[f] \in Node /\ h[f].screen = on(f)
                       /\ h[f].isleaf = s.split[f].isleaf
                       /\ h[f].parent = s.split[f].parent
                       /\ h[f].frames = s.split[f].frames
                       /\ h[f].win = s.split[f].win
      OBVIOUS
    <2>1. s.split[f] \in Node /\ on(f) \in Screen
      BY <1>1, <1>7 DEF Heap, Allocated
    <2>2. h[f] = [s.split[f] EXCEPT !.screen = on(f)]
      BY <1>8
    <2> HIDE DEF h
    <2> QED
      BY <2>1, <2>2 DEF Node
  <1>10. h \in Heap /\ Allocated(h) = Allocated(s.split)
    <2>1. \A f \in Frame : h[f] \in Node \cup {NULL}
      BY <1>1, <1>8, <1>9 DEF Heap, Allocated
    <2>2. h \in Heap
      BY <2>1 DEF Heap
    <2> HIDE DEF h
    <2> QED
      BY <1>8, <1>9, <2>2, NullIsNoNode DEF Allocated
  <1> HIDE DEF h, l
  <1>11. Forest(h, Elems(s.roots))
    <2>1. \A f \in Allocated(s.split) : ~s.split[f].isleaf => h[f].win = NULL
      BY <1>1, <1>9 DEF Forest, NodeOK
    <2> QED
      BY <1>1, <1>9, <1>10, <2>1, ForestFromShape
  <1>12. /\ t \in State /\ Aside(s, t) /\ t.split = h /\ t.focus = s.focus
         /\ t.hidden = s.hidden /\ t.frame = s.frame /\ t.shown = s.shown
         /\ t.be_focus = s.be_focus
    BY <1>1, <1>5, <1>6, <1>10 DEF State, Aside
  <1>13. Trees(t) /\ Queued(t, {}) /\ Lit(t)
    BY <1>1, <1>11, <1>12 DEF Trees, Queued, Lit, Aside
  <1>14. Framed(t, {})
    BY <1>1, <1>9, <1>10, <1>12 DEF Framed, Aside
  <1>15. OnScreens(t)
    <2>1. Inherited(t)
      BY <1>9, <1>10, <1>12, <1>16 DEF Inherited
    <2>2. Hung(t)
      BY <1>9, <1>10, <1>12, <1>17 DEF Hung, Aside, n
    <2> QED
      BY <1>7, <1>9, <1>10, <1>12, <2>1, <2>2, NullIsNoObject DEF OnScreens
  <1>19. Inherited(s) => \A f \in Allocated(s.split) :
           \E i \in 1..Len(s.roots) :
             /\ t.split[f].screen = s.g_screens[i]
             /\ s.split[f].screen = s.split[s.roots[i]].screen
    BY <1>9, <1>12, <1>18 DEF n
  <1> QED
    BY <1>10, <1>12, <1>13, <1>14, <1>15, <1>19 DEF Core

(* However many screens came or went, one at a time, rendering the          *)
(* workspace again leaves one root per screen, every frame on a screen, and *)
(* the focus on a leaf.                                                     *)
LEMMA RestoreKeepsCore ==
  ASSUME NEW s, Core(s, {}),
         Len(s.roots) \in {Len(s.g_screens) - 1, Len(s.g_screens),
                           Len(s.g_screens) + 1},
         NEW t \in workspace_restore(s)
  PROVE  /\ Core(t, {}) /\ OnScreens(t) /\ FocusOK(t) /\ Outside(s, t)
         /\ Len(t.roots) = Len(t.g_screens)
         /\ \E lost \in SUBSET Window : Rendered(s, t, lost)
PROOF
  <1>1. PICK u \in pop_excess_root(s) :
          t \in IF u.g_screens = <<>> THEN {u}
                ELSE UNION {reset_focus(map_roots(v)) : v \in push_missing_root(u)}
    BY DEF workspace_restore
  <1>2. /\ s \in State /\ s.roots \in Seq(Frame) /\ s.g_screens \in Seq(Screen)
        /\ Len(s.roots) \in Nat /\ Len(s.g_screens) \in Nat
    BY DEF Core, State
  <1>3. /\ Core(u, {}) /\ Outside(s, u)
        /\ Len(u.roots) \in {Len(u.g_screens) - 1, Len(u.g_screens)}
        /\ Len(u.roots) \in Nat
        /\ \A i \in 1..Len(u.roots) : u.roots[i] = s.roots[i]
        /\ \A f \in Allocated(u.split) :
             f \in Allocated(s.split) /\ u.split[f] = s.split[f]
        /\ \E lost \in SUBSET Window : Evicts(s, u, lost)
        /\ Len(s.roots) <= Len(s.g_screens) => u = s
        /\ Len(u.roots) <= Len(s.roots)
        /\ u = s \/ Len(u.roots) = Len(u.g_screens)
    <2>1. CASE Len(s.roots) <= Len(s.g_screens)
      <3>1. u = s
        BY <1>1, <2>1 DEF pop_excess_root
      <3>2. Evicts(s, u, {})
        <4>1. s.hidden \in Seq(Window)
          BY <1>2 DEF State
        <4> QED
          BY <3>1, <4>1, NothingToOrder DEF Evicts
      <3> QED
        BY <1>2, <2>1, <3>1, <3>2 DEF Outside
    <2>2. CASE ~(Len(s.roots) <= Len(s.g_screens))
      <3>1. u \in pop_root(s) /\ s.roots # <<>> /\ Len(s.roots) = Len(s.g_screens) + 1
        BY <1>1, <1>2, <2>2 DEF pop_excess_root
      <3>2. /\ Core(u, {}) /\ Outside(s, u) /\ Len(u.roots) = Len(s.roots) - 1
            /\ \A i \in 1..Len(u.roots) : u.roots[i] = s.roots[i]
            /\ \A f \in Allocated(u.split) :
                 f \in Allocated(s.split) /\ u.split[f] = s.split[f]
            /\ \E lost \in SUBSET Window : Evicts(s, u, lost)
        BY <3>1, PopRootKeepsCore
      <3> QED
        BY <1>2, <3>1, <3>2 DEF Outside
    <2> QED
      BY <2>1, <2>2
  <1>4. u \in State /\ u.roots \in Seq(Frame) /\ u.g_screens \in Seq(Screen)
    BY <1>3 DEF Core, State
  <1>7. PICK lost \in SUBSET Window : Evicts(s, u, lost) /\ (u = s => lost = {})
    <2>1. CASE u = s
      <3>1. s.hidden \in Seq(Window)
        BY <1>2 DEF State
      <3> QED
        BY <2>1, <3>1, NothingToOrder DEF Evicts
    <2> QED
      BY <1>3, <2>1
  <1>5. CASE u.g_screens = <<>>
    <2>1. t = u
      BY <1>1, <1>5
    <2>2. Len(u.roots) = 0 /\ u.roots = <<>>
      BY <1>3, <1>4, <1>5
    <2>3. Allocated(u.split) = {}
      BY <1>3, <2>2 DEF Core, Trees, Forest, Elems
    <2>4. OnScreens(u) /\ FocusOK(u)
      BY <1>5, <2>3 DEF OnScreens, Inherited, Hung, FocusOK
    <2>5. Rendered(s, u, lost)
      <3>1. Len(s.roots) <= Len(s.g_screens) => lost = {} /\ u = s
        BY <1>3, <1>7
      <3> QED
        BY <1>3, <1>7, <3>1, <1>2 DEF Rendered
    <2> QED
      BY <1>3, <1>5, <2>1, <2>2, <2>4, <2>5
  <1>6. CASE u.g_screens # <<>>
    <2>1. PICK v \in push_missing_root(u) : t \in reset_focus(map_roots(v))
      BY <1>1, <1>6
    <2>2. /\ Core(v, {}) /\ Outside(u, v) /\ Len(v.roots) = Len(v.g_screens)
          /\ v = u \/ \E x \in Free(u.split) : Pushed(u, v, x)
          /\ Len(u.roots) = Len(u.g_screens) => v = u
      <3>1. CASE Len(u.roots) >= Len(u.g_screens)
        <4>1. v = u
          BY <2>1, <3>1 DEF push_missing_root
        <4> QED
          BY <1>3, <1>4, <3>1, <4>1 DEF Outside
      <3>2. CASE ~(Len(u.roots) >= Len(u.g_screens))
        <4>1. PICK f \in Free(u.split) :
                v = [u EXCEPT !.split[f] = split_new(NULL, NULL),
                              !.roots = Append(@, f)]
          BY <2>1, <3>2 DEF push_missing_root
        <4>2. /\ Core(v, {}) /\ Outside(u, v) /\ Len(v.roots) = Len(u.roots) + 1
              /\ Pushed(u, v, f)
          BY <1>3, <4>1, PushRootKeepsCore
        <4> QED
          BY <1>3, <1>4, <3>2, <4>2 DEF Outside
      <3> QED
        BY <3>1, <3>2
    <2> DEFINE m == map_roots(v)
    <2>3. /\ Core(m, {}) /\ Aside(v, m) /\ OnScreens(m)
          /\ m.hidden = v.hidden /\ m.frame = v.frame /\ m.shown = v.shown
          /\ m.be_focus = v.be_focus /\ Allocated(m.split) = Allocated(v.split)
          /\ Inherited(v) => \A x \in Allocated(v.split) :
               \E i \in 1..Len(v.roots) :
                 /\ m.split[x].screen = v.g_screens[i]
                 /\ v.split[x].screen = v.split[v.roots[i]].screen
      BY <2>2, MapRootsKeepsCore
    <2> HIDE DEF m
    <2>4. PICK f \in Leaves(m.split) : t = [m EXCEPT !.focus = f]
      BY <2>1 DEF reset_focus, m
    <2>5. m \in State /\ f \in Frame
      BY <2>3, <2>4 DEF Core, Leaves, Allocated
    <2>6. /\ t \in State /\ Aside(m, t) /\ t.focus = f /\ t.split = m.split
          /\ t.hidden = m.hidden /\ t.frame = m.frame /\ t.shown = m.shown
          /\ t.be_focus = m.be_focus
      BY <2>4, <2>5 DEF State, Aside
    <2>7. Core(t, {})
      BY <2>3, <2>6 DEF Core, Trees, Queued, Framed, Lit, Aside
    <2>8. OnScreens(t) /\ FocusOK(t)
      BY <2>3, <2>4, <2>6 DEF OnScreens, Inherited, Hung, FocusOK
    <2>9. Outside(s, t) /\ Len(t.roots) = Len(t.g_screens)
      BY <1>3, <2>2, <2>3, <2>6 DEF Outside, Aside
    <2>10. /\ t.hidden = u.hidden /\ t.frame = u.frame /\ t.shown = u.shown
           /\ t.be_focus = u.be_focus
           /\ Allocated(u.split) \subseteq Allocated(t.split)
           /\ v = u => Allocated(t.split) = Allocated(u.split)
      BY <2>2, <2>3, <2>6 DEF Pushed
    <2>11. Evicts(s, t, lost)
      BY <1>7, <2>10 DEF Evicts
    <2>12. ASSUME Settled(s), NEW x \in Allocated(s.split) \cap Allocated(t.split)
           PROVE  t.split[x].screen = s.split[x].screen
      <3>1. x \in Allocated(u.split) /\ u.split[x] = s.split[x]
        BY <1>3, <2>2, <2>10, <2>12
      <3>2. Inherited(u)
        BY <1>3, <2>12 DEF Settled, Inherited
      <3>3. Inherited(v)
        <4>1. CASE v = u
          BY <3>2, <4>1
        <4>2. ASSUME NEW y \in Free(u.split), Pushed(u, v, y) PROVE Inherited(v)
          <5>1. ASSUME NEW c \in Allocated(v.split), NEW q \in Allocated(v.split),
                       v.split[c].parent = q
                PROVE  v.split[c].screen = v.split[q].screen
            <6>1. q # NULL /\ c # y
              BY <4>2, <5>1, NullIsNoObject DEF Pushed, Allocated
            <6>2. c \in Allocated(u.split) /\ v.split[c] = u.split[c]
              BY <4>2, <6>1 DEF Pushed
            <6>3. q \in Allocated(u.split) /\ v.split[q] = u.split[q]
              BY <1>3, <4>2, <5>1, <6>1, <6>2
                 DEF Core, Trees, Forest, NodeOK, Pushed
            <6> QED
              BY <3>2, <5>1, <6>2, <6>3 DEF Inherited
          <5> QED
            BY <5>1 DEF Inherited
        <4> QED
          BY <2>2, <4>1, <4>2
      <3>4. x \in Allocated(v.split) /\ v.split[x] = s.split[x]
        BY <2>2, <3>1 DEF Pushed
      <3>5. PICK i \in 1..Len(v.roots) :
              /\ m.split[x].screen = v.g_screens[i]
              /\ v.split[x].screen = v.split[v.roots[i]].screen
        BY <2>3, <3>3, <3>4
      <3>6. s.split[x].screen # NULL
        BY <2>12 DEF Settled
      <3>7. i \in 1..Len(u.roots) /\ v.roots[i] = u.roots[i]
        <4>1. CASE v = u
          BY <4>1
        <4>2. ASSUME NEW y \in Free(u.split), Pushed(u, v, y)
              PROVE  i \in 1..Len(u.roots) /\ v.roots[i] = u.roots[i]
          <5>1. Len(v.roots) = Len(u.roots) \/ Len(v.roots) = Len(u.roots) + 1
            BY <1>3, <1>4, <2>2 DEF Outside
          <5>2. i = Len(u.roots) + 1 => v.split[v.roots[i]].screen = NULL
            BY <4>2 DEF Pushed
          <5>3. i # Len(u.roots) + 1
            BY <3>4, <3>5, <3>6, <5>2
          <5>4. i \in 1..Len(u.roots)
            BY <1>3, <5>1, <5>3
          <5> QED
            BY <4>2, <5>4 DEF Pushed
        <4> QED
          BY <2>2, <4>1, <4>2
      <3>8. /\ u.roots[i] = s.roots[i] /\ i \in 1..Len(s.roots)
            /\ u.roots[i] \in Allocated(u.split) /\ u.roots[i] \in Allocated(v.split)
            /\ v.split[u.roots[i]] = s.split[u.roots[i]]
            /\ u.roots[i] \in Allocated(s.split)
        <4>1. u.roots[i] \in Allocated(u.split)
          BY <1>3, <3>7 DEF Core, Trees, Forest, Elems
        <4>2. /\ v.split[u.roots[i]] = u.split[u.roots[i]]
              /\ u.roots[i] \in Allocated(v.split)
          BY <2>2, <4>1 DEF Pushed
        <4> QED
          BY <1>2, <1>3, <3>7, <4>1, <4>2
      <3>9. v.g_screens = s.g_screens /\ i <= Len(s.g_screens)
        BY <1>2, <1>3, <2>2, <3>5 DEF Outside
      <3>10. s.split[s.roots[i]].screen = s.g_screens[i]
        BY <2>12, <3>8, <3>9 DEF Settled
      <3> QED
        BY <2>6, <3>4, <3>5, <3>7, <3>8, <3>9, <3>10
    <2>13. Rendered(s, t, lost)
      <3>1. Len(s.roots) <= Len(s.g_screens) => lost = {} /\ u = s
        BY <1>3, <1>7
      <3>2. Len(s.roots) = Len(s.g_screens) => v = s
        BY <1>2, <2>2, <3>1
      <3> QED
        BY <2>10, <2>11, <2>12, <3>1, <3>2 DEF Rendered
    <2> QED
      BY <2>7, <2>8, <2>9, <2>13
  <1> QED
    BY <1>5, <1>6

(* Frame f is gone, and what it showed waits at the end of the queue. *)
Merges(s, t, f) ==
  LET w == s.split[f].win
  IN  /\ f \notin Allocated(t.split)
      /\ t.hidden = (IF w = NULL THEN s.hidden ELSE Append(s.hidden, w))
      /\ \A v \in Window : t.frame[v] # NULL <=> v # w /\ s.frame[v] # NULL
      /\ \A v \in Window : t.frame[v] # NULL =>
           /\ t.shown[v] = s.shown[v]
           /\ t.split[t.frame[v]].screen = s.split[s.frame[v]].screen

LEMMA RemoveFrameKeepsWhole ==
  ASSUME NEW s, Whole(s), s.phase \in {"running", "terminated"},
         NEW f \in Leaves(s.split), NEW t \in workspace_remove_frame(s, f)
  PROVE  /\ Whole(t) /\ t.phase = s.phase /\ t.g_screens = s.g_screens
         /\ t.be_screens = s.be_screens
         /\ t = s \/ Merges(s, t, f)
PROOF
  <1> DEFINE prepend == FALSE
             bare    == workspace_remove_window_from_frame(s, f, prepend)
             up      == s.split[f].parent
             other   == Sibling(s.split, f)
             moved   == s.split[other].win
             cut     == [repoint(bare, moved, up) EXCEPT !.split = split_do_remove(@, f)]
             g       == split_do_remove(bare.split, f)
  <1>1. CASE up = NULL
    BY <1>1 DEF workspace_remove_frame
  <1>2. CASE up # NULL
    <2>1. PICK u \in IF s.focus # f THEN {cut}
                     ELSE {workspace_focus_frame(cut, x) : x \in Leaves(cut.split)} :
            t \in workspace_restore(u)
      <3>1. PICK u : /\ t \in workspace_restore(u)
                     /\ s.focus # f => u = cut
                     /\ s.focus = f => \E x \in Leaves(cut.split) :
                                         u = workspace_focus_frame(cut, x)
        BY <1>2 DEF workspace_remove_frame
      <3> HIDE DEF cut
      <3> QED
        BY <3>1
    <2>2. /\ s \in State /\ s.split \in Heap /\ Core(s, {})
          /\ f \in Frame /\ f \in Allocated(s.split) /\ prepend \in BOOLEAN
          /\ s.split[f].isleaf
          /\ Forest(s.split, Elems(s.roots)) /\ Distinct(s.roots)
      BY LeafIsFrame DEF Whole, Core, State, Trees
    <2>3. bare = workspace_remove_window_from_frame(s, f, prepend)
      OBVIOUS
    <2> HIDE DEF prepend
    <2>4. /\ Core(bare, {}) /\ Aside(s, bare) /\ bare.focus = s.focus
          /\ SameFrames(s.split, bare.split)
          /\ bare.split[f].win = NULL
          /\ \A x \in Frame : x # f => bare.split[x] = s.split[x]
          /\ Bares(s, bare, f, prepend)
      BY <2>2, <2>3, RemoveKeepsCore
    <2> HIDE DEF bare
    <2>5. /\ bare \in State /\ bare.split \in Heap
          /\ Forest(bare.split, Elems(s.roots))
          /\ Framed(bare, {}) /\ Queued(bare, {}) /\ Lit(bare)
          /\ bare.windows \subseteq Window
          /\ bare.be_focus \in Window \cup {NULL}
      BY <2>4 DEF Core, State, Trees, Aside
    <2>6. /\ f \in Leaves(bare.split) /\ bare.split[f].parent = up
          /\ Sibling(bare.split, f) = other
      <3>1. up \in Allocated(s.split)
        BY <1>2, <2>2 DEF Forest, NodeOK
      <3>2. bare.split[f].parent = up /\ f \in Leaves(bare.split)
        BY <2>2, <2>4 DEF SameFrames, Leaves
      <3>3. bare.split[up].frames = s.split[up].frames
        BY <2>4, <3>1 DEF SameFrames
      <3> QED
        BY <3>2, <3>3 DEF Sibling
    <2>7. g = split_do_remove(bare.split, f)
      OBVIOUS
    <2> HIDE DEF g, up, other
    <2>8. /\ up \in Allocated(bare.split) /\ other \in Allocated(bare.split)
          /\ f # up /\ other # up /\ other # f
          /\ ~bare.split[up].isleaf
          /\ g \in Heap
          /\ Allocated(g) = Allocated(bare.split) \ {f, other}
          /\ g[up].isleaf = bare.split[other].isleaf
          /\ g[up].win = bare.split[other].win
          /\ \A x \in Allocated(g) \ {up} : /\ g[x].isleaf = bare.split[x].isleaf
                                            /\ g[x].win = bare.split[x].win
                                            /\ g[x].screen = bare.split[x].screen
          /\ g[up].screen = bare.split[up].screen
          /\ bare.split[other].parent = up /\ g[up].parent = bare.split[up].parent
          /\ \A x \in Allocated(g) \ {up} :
               \/ g[x].parent = bare.split[x].parent
               \/ g[x].parent = up /\ bare.split[x].parent = other
          /\ Forest(g, Elems(s.roots))
      BY <1>2, <2>5, <2>6, <2>7, RemoveKeepsForest
    <2>9. /\ moved = bare.split[other].win /\ moved \in Window \cup {NULL}
          /\ up \in Frame /\ up # NULL /\ other # NULL
      <3>1. /\ other \in Frame /\ bare.split[other] \in Node /\ up \in Frame
        BY <2>5, <2>8 DEF Heap, Allocated
      <3> QED
        BY <2>4, <2>8, <3>1, NullIsNoObject DEF Node
    <2>10. moved # NULL => /\ moved \in bare.windows /\ bare.frame[moved] = other
                           /\ bare.split[other].isleaf
      BY <2>5, <2>8, <2>9 DEF Framed
    <2> HIDE DEF moved
    <2>11. /\ cut \in State /\ Aside(s, cut) /\ cut.split = g
           /\ cut.focus = s.focus
           /\ cut.hidden = bare.hidden /\ cut.shown = bare.shown
           /\ cut.be_focus = bare.be_focus
           /\ \A v \in Window : cut.frame[v] = IF v = moved THEN up ELSE bare.frame[v]
      <3>1. CASE moved = NULL
        <4>1. cut = [bare EXCEPT !.split = g]
          BY <2>5, <2>7, <3>1 DEF repoint, State
        <4> HIDE DEF cut
        <4> QED
          BY <2>4, <2>5, <2>8, <3>1, <4>1, NullIsNoObject DEF State, Aside
      <3>2. CASE moved # NULL
        <4>1. cut = [bare EXCEPT !.split = g, !.frame[moved] = up]
          BY <2>5, <2>7, <3>2 DEF repoint, State
        <4> HIDE DEF cut
        <4> QED
          BY <2>4, <2>5, <2>8, <2>9, <3>2, <4>1 DEF State, Aside
      <3> QED
        BY <3>1, <3>2
    <2> HIDE DEF cut
    <2>12. Trees(cut)
      BY <2>2, <2>8, <2>11 DEF Trees, Aside
    <2>13. Queued(cut, {})
      BY NullIsNoObject, <2>4, <2>5, <2>9, <2>10, <2>11 DEF Queued, Aside
    <2>14. Framed(cut, {})
      <3>1. ASSUME NEW v \in Window, cut.frame[v] # NULL
            PROVE  /\ v \in cut.windows \ {} /\ cut.frame[v] \in Allocated(cut.split)
                   /\ cut.split[cut.frame[v]].win = v
        <4>1. CASE v = moved
          <5>1. cut.frame[v] = up /\ v \in bare.windows /\ up \in Allocated(g)
            BY <2>8, <2>9, <2>10, <2>11, <4>1, NullIsNoObject
          <5> QED
            BY <2>4, <2>8, <2>9, <2>11, <4>1, <5>1 DEF Aside
        <4>2. CASE v # moved
          <5>1. /\ cut.frame[v] = bare.frame[v] /\ v \in bare.windows
                /\ bare.frame[v] \in Allocated(bare.split)
                /\ bare.split[bare.frame[v]].win = v /\ v # NULL
                /\ bare.split[bare.frame[v]].isleaf
            BY <2>5, <2>11, <3>1, <4>2, NullIsNoObject DEF Framed
          <5>2. bare.frame[v] \in Allocated(g) \ {up}
            BY <2>4, <2>8, <2>9, <4>2, <5>1
          <5> QED
            BY <2>4, <2>8, <2>11, <5>1, <5>2 DEF Aside
        <4> QED
          BY <4>1, <4>2
      <3>2. ASSUME NEW x \in Allocated(cut.split), cut.split[x].win # NULL
            PROVE  cut.split[x].isleaf /\ cut.frame[cut.split[x].win] = x
        <4>1. CASE x = up
          <5>1. cut.split[x].win = moved /\ moved \in Window
            BY <2>8, <2>9, <2>11, <3>2, <4>1
          <5> QED
            BY <2>8, <2>9, <2>10, <2>11, <4>1, <5>1, NullIsNoObject
        <4>2. CASE x # up
          <5>1. /\ x \in Allocated(bare.split) /\ x # other
                /\ g[x].win = bare.split[x].win /\ g[x].isleaf = bare.split[x].isleaf
            BY <2>8, <2>11, <4>2
          <5>2. bare.split[x].isleaf /\ bare.frame[bare.split[x].win] = x
            BY <2>5, <2>11, <3>2, <5>1 DEF Framed
          <5>3. bare.split[x].win \in Window /\ bare.split[x].win # moved
            <6>1. bare.split[x] \in Node
              BY <2>5, <5>1 DEF Heap, Allocated
            <6> QED
              BY <2>10, <2>11, <3>2, <5>1, <5>2, <6>1 DEF Node
          <5>4. cut.frame[bare.split[x].win] = bare.frame[bare.split[x].win]
            BY <2>11, <5>3
          <5> QED
            BY <2>11, <5>1, <5>2, <5>4
        <4> QED
          BY <4>1, <4>2
      <3> QED
        BY <3>1, <3>2 DEF Framed
    <2>15. Lit(cut)
      BY <2>5, <2>9, <2>10, <2>11, NullIsNoObject DEF Lit
    <2>16. Core(cut, {})
      BY <2>11, <2>12, <2>13, <2>14, <2>15 DEF Core
    <2>17. /\ Core(u, {}) /\ Aside(s, u) /\ u.split = cut.split
           /\ u.hidden = cut.hidden /\ u.frame = cut.frame /\ u.shown = cut.shown
      <3>1. CASE s.focus # f
        BY <2>1, <2>11, <2>16, <3>1
      <3>2. CASE s.focus = f
        <4>1. PICK x \in Leaves(cut.split) : u = workspace_focus_frame(cut, x)
          BY <2>1, <3>2
        <4>2. /\ Core(u, {}) /\ Aside(cut, u) /\ u.split = cut.split
              /\ u.hidden = cut.hidden /\ u.frame = cut.frame
              /\ u.shown = cut.shown
          BY <2>16, <4>1, FocusKeepsCore
        <4> QED
          BY <2>11, <4>2 DEF Aside
      <3> QED
        BY <3>1, <3>2
    <2>18. /\ Distinct(u.g_screens) /\ Elems(u.g_screens) = u.be_screens
           /\ Len(u.roots) = Len(u.g_screens)
      BY <2>17 DEF Whole, Plugged, Aside
    <2>19. Len(u.roots) \in {Len(u.g_screens) - 1, Len(u.g_screens),
                             Len(u.g_screens) + 1}
      BY <2>18
    <2>20. /\ Core(t, {}) /\ OnScreens(t) /\ FocusOK(t) /\ Outside(u, t)
           /\ Len(t.roots) = Len(t.g_screens)
           /\ \E lost \in SUBSET Window : Rendered(u, t, lost)
      BY <2>1, <2>17, <2>19, RestoreKeepsCore
    <2>21. Plugged(t)
      BY <2>18, <2>20 DEF Plugged, Outside
    <2>22. Inherited(bare) /\ Hung(bare) /\ OnScreens(bare)
      BY <2>4 DEF Whole, OnScreens, Inherited, Hung, SameFrames, Aside
    <2>23. \A x \in Allocated(g) : g[x].screen = bare.split[x].screen
      BY <2>8
    <2>24. bare.split[other].screen = bare.split[up].screen
      BY <2>8, <2>22 DEF Inherited
    <2>25. Settled(u)
      <3>1. ASSUME NEW x \in Allocated(g), NEW p \in Allocated(g), g[x].parent = p
            PROVE  g[x].screen = g[p].screen
        <4>1. bare.split[x].screen = bare.split[p].screen
          <5>1. CASE bare.split[x].parent = p
            BY <2>8, <2>22, <5>1 DEF Inherited
          <5>2. CASE bare.split[x].parent # p
            <6>1. p = up /\ bare.split[x].parent = other
              BY <2>8, <3>1, <5>2
            <6>2. bare.split[x].screen = bare.split[other].screen
              BY <2>8, <2>22, <6>1 DEF Inherited
            <6> QED
              BY <2>24, <6>1, <6>2
          <5> QED
            BY <5>1, <5>2
        <4> QED
          BY <2>23, <4>1
      <3>2. \A x \in Allocated(g) : g[x].screen # NULL
        BY <2>8, <2>22, <2>23 DEF OnScreens
      <3>3. \A x \in Allocated(g), i \in 1..Len(s.roots) :
              x = s.roots[i] => g[x].screen = s.g_screens[i]
        BY <2>4, <2>8, <2>22, <2>23 DEF Hung, Aside
      <3> QED
        BY <2>11, <2>17, <3>1, <3>2, <3>3 DEF Settled, Inherited, Aside
    <2>26. PICK lost \in SUBSET Window : Rendered(u, t, lost)
      BY <2>20
    <2>27. /\ lost = {} /\ Allocated(t.split) = Allocated(g)
           /\ \A x \in Allocated(g) : t.split[x].screen = bare.split[x].screen
           /\ t.hidden = bare.hidden
           /\ \A v \in Window : t.frame[v] = cut.frame[v]
           /\ \A v \in Window : t.shown[v] = bare.shown[v]
      <3>1. Len(u.roots) <= Len(u.g_screens)
        BY <2>17, <2>18 DEF Core, State
      <3>2. lost = {} /\ Allocated(t.split) = Allocated(g)
        BY <2>11, <2>17, <2>18, <2>26, <3>1 DEF Rendered
      <3>3. \A x \in Allocated(g) : t.split[x].screen = bare.split[x].screen
        BY <2>11, <2>17, <2>23, <2>25, <2>26, <3>2 DEF Rendered
      <3>4. Evicts(u, t, {})
        BY <2>26, <3>2 DEF Rendered
      <3>5. u.hidden \in Seq(Window)
        BY <2>17 DEF Core, State
      <3>6. t.hidden = u.hidden
        BY <3>4, <3>5, NothingToOrder DEF Evicts
      <3>7. \A v \in Window : t.frame[v] = u.frame[v] /\ t.shown[v] = u.shown[v]
        BY <3>4 DEF Evicts
      <3> QED
        BY <2>11, <2>17, <3>2, <3>3, <3>6, <3>7
    <2> DEFINE old == s.split[f].win
    <2>28. /\ bare.hidden = IF old = NULL THEN s.hidden ELSE Append(s.hidden, old)
           /\ \A v \in Window : bare.frame[v] = IF v = old THEN NULL ELSE s.frame[v]
           /\ \A v \in Window : bare.shown[v] = IF v = old THEN NULL ELSE s.shown[v]
      BY <2>4 DEF Bares, prepend
    <2>29. f \notin Allocated(t.split)
      BY <2>8, <2>27
    <2> HIDE DEF old
    <2>30. moved # NULL => moved # old /\ s.frame[moved] = other
      BY <2>9, <2>10, <2>28
    <2>31. ASSUME NEW v \in Window
           PROVE  /\ t.frame[v] = IF v = moved THEN up
                                 ELSE IF v = old THEN NULL ELSE s.frame[v]
                  /\ v # old => t.shown[v] = s.shown[v]
                  /\ t.frame[v] # NULL <=> v # old /\ s.frame[v] # NULL
      BY <2>9, <2>11, <2>27, <2>28, <2>30, NullIsNoObject
    <2>32. ASSUME NEW v \in Window, t.frame[v] # NULL
           PROVE  t.split[t.frame[v]].screen = s.split[s.frame[v]].screen
      <3>1. t.frame[v] \in Allocated(g)
        BY <2>20, <2>27, <2>32 DEF Core, Framed
      <3>2. t.split[t.frame[v]].screen = bare.split[t.frame[v]].screen
        BY <2>27, <3>1
      <3>3. s.frame[v] \in Allocated(s.split)
        BY <2>2, <2>31, <2>32 DEF Core, Framed
      <3>4. bare.split[s.frame[v]].screen = s.split[s.frame[v]].screen
        BY <2>4, <3>3 DEF SameFrames
      <3>5. bare.split[t.frame[v]].screen = bare.split[s.frame[v]].screen
        <4>1. CASE v = moved
          <5>1. t.frame[v] = up /\ s.frame[v] = other
            BY <2>30, <2>31, <4>1, NullIsNoObject
          <5> QED
            BY <2>24, <5>1
        <4>2. CASE v # moved
          BY <2>31, <2>32, <4>2
        <4> QED
          BY <4>1, <4>2
      <3> QED
        BY <3>2, <3>4, <3>5
    <2>33. Merges(s, t, f)
      BY <2>27, <2>28, <2>29, <2>31, <2>32 DEF Merges, old
    <2> QED
      BY <2>17, <2>20, <2>21, <2>33 DEF Whole, Outside, Aside
  <1> QED
    BY <1>1, <1>2

-----------------------------------------------------------------------------
(* The handlers.                                                            *)

IInv == Whole(This)

LEMMA BecomeIsThis ==
  ASSUME NEW t, Whole(t), Become(t)
  PROVE  IInv'
PROOF
  <1>1. t \in State
    BY DEF Whole, Core
  <1>2. This' = t
    BY <1>1 DEF Become, This, State
  <1> QED
    BY <1>2 DEF IInv

LEMMA InitEstablishes == Init => IInv
PROOF
  <1> SUFFICES ASSUME Init PROVE IInv
    OBVIOUS
  <1>1. This \in State
    BY DEF Init, This, State, Heap, Phases, Faults
  <1>2. Elems(<<>>) = {} /\ Distinct(<<>>)
    BY DEF Elems, Distinct
  <1>3. Allocated(split) = {}
    BY DEF Init, Allocated
  <1>4. Trees(This)
    BY <1>2, <1>3 DEF Init, This, Trees, Forest, Grounded
  <1>5. Queued(This, {}) /\ Framed(This, {}) /\ Lit(This)
    BY <1>2, <1>3 DEF Init, This, Queued, Framed, Lit
  <1>6. OnScreens(This) /\ Plugged(This) /\ FocusOK(This)
    BY <1>2, <1>3 DEF Init, This, OnScreens, Inherited, Hung, Plugged, FocusOK
  <1> QED
    BY <1>1, <1>4, <1>5, <1>6 DEF IInv, Whole, Core

(* The invariant does not look at the fault, and at the phase only to tell  *)
(* whether the workspace still exists.                                      *)
LEMMA EndingKeepsWhole ==
  ASSUME NEW s, Whole(s), NEW p \in Phases, NEW e \in Faults,
         s.phase \in {"running", "terminated"}
           \/ p \notin {"running", "terminated"},
         NEW t, t = [s EXCEPT !.phase = p, !.fault = e]
  PROVE  Whole(t)
PROOF
  <1>1. s \in State /\ Core(s, {})
    BY DEF Whole, Core
  <1>2. /\ t \in State /\ t.phase = p
        /\ t.split = s.split /\ t.roots = s.roots /\ t.focus = s.focus
        /\ t.hidden = s.hidden /\ t.frame = s.frame /\ t.windows = s.windows
        /\ t.g_screens = s.g_screens /\ t.be_screens = s.be_screens
        /\ t.shown = s.shown /\ t.be_focus = s.be_focus
    BY <1>1 DEF State
  <1>3. Core(t, {})
    BY <1>1, <1>2 DEF Core, Trees, Queued, Framed, Lit
  <1>4. OnScreens(t) /\ Plugged(t) /\ FocusOK(t)
    BY <1>2 DEF Whole, OnScreens, Inherited, Hung, Plugged, FocusOK
  <1> QED
    BY <1>3, <1>4 DEF Whole

(* The list of screens changed.  The frames that remain stay on their       *)
(* screens if no other screen takes the place of the one that went.         *)
Rerendered(s, t) ==
  /\ t.g_screens # s.g_screens
  /\ \E lost \in SUBSET Window : Evicts(s, t, lost)
  /\ (Len(t.g_screens) < Len(s.g_screens) =>
        t.g_screens = SubSeq(s.g_screens, 1, Len(t.g_screens)))
     => \A f \in Allocated(s.split) \cap Allocated(t.split) :
          t.split[f].screen = s.split[f].screen

LEMMA PlugKeeps ==
  ASSUME IInv, NEW screen \in Screen, handle_new_output(screen)
  PROVE  IInv' /\ \E t : Become(t) /\ Whole(t) /\ Rerendered(This, t)
PROOF
  <1> DEFINE s == [This EXCEPT !.g_screens = Append(@, screen),
                               !.be_screens = @ \cup {screen}]
  <1>1. PICK t \in workspace_restore(s) : Become(t)
    <2>1. handle_screen_new([This EXCEPT !.be_screens = @ \cup {screen}], screen)
            = workspace_restore(s)
      BY DEF handle_screen_new, This
    <2> QED
      BY <2>1 DEF handle_new_output
  <1>2. /\ This \in State /\ Core(This, {}) /\ Distinct(g_screens)
        /\ g_screens \in Seq(Screen) /\ roots \in Seq(Frame)
        /\ Elems(g_screens) = be_screens /\ Len(roots) = Len(g_screens)
        /\ screen \notin be_screens
    BY DEF IInv, Whole, Core, Plugged, This, State, handle_new_output, Dispatching
  <1> DEFINE q == Append(g_screens, screen)
  <1>3. /\ q \in Seq(Screen) /\ Elems(q) = be_screens \cup {screen}
        /\ Distinct(q) /\ Len(q) = Len(g_screens) + 1
        /\ \A i \in 1..Len(g_screens) : q[i] = g_screens[i]
    <2>1. \A i \in 1..Len(g_screens) : q[i] = g_screens[i]
      BY <1>2
    <2> QED
      BY <1>2, <2>1, ElemsOfAppend
  <1>4. s = [This EXCEPT !.g_screens = q, !.be_screens = @ \cup {screen}]
    BY DEF This
  <1> HIDE DEF q, s
  <1>5. /\ s \in State /\ s.g_screens = q /\ s.be_screens = be_screens \cup {screen}
        /\ s.split = split /\ s.roots = roots /\ s.hidden = hidden
        /\ s.frame = frame /\ s.windows = windows
        /\ s.shown = shown /\ s.be_focus = be_focus
    BY <1>2, <1>3, <1>4 DEF This, State
  <1>6. Core(s, {})
    BY <1>2, <1>5 DEF Core, Trees, Queued, Framed, Lit, This
  <1>7. Len(s.roots) \in {Len(s.g_screens) - 1, Len(s.g_screens),
                          Len(s.g_screens) + 1}
    BY <1>2, <1>3, <1>5
  <1>8. /\ Core(t, {}) /\ OnScreens(t) /\ FocusOK(t) /\ Outside(s, t)
        /\ Len(t.roots) = Len(t.g_screens)
        /\ \E lost \in SUBSET Window : Rendered(s, t, lost)
    BY <1>1, <1>6, <1>7, RestoreKeepsCore
  <1>9. Plugged(t)
    BY <1>3, <1>5, <1>8 DEF Plugged, Outside
  <1>10. Whole(t)
    BY <1>8, <1>9 DEF Whole
  <1>11. Settled(s)
    <2>1. /\ OnScreens(This) /\ This.g_screens = g_screens
          /\ This.split = split /\ This.roots = roots
      BY DEF IInv, Whole, This
    <2> QED
      BY <1>2, <1>3, <1>5, <2>1 DEF Settled, OnScreens, Inherited, Hung
  <1>12. Rerendered(This, t)
    <2>1. PICK lost \in SUBSET Window : Rendered(s, t, lost)
      BY <1>8
    <2>2. Evicts(This, t, lost)
      BY <1>5, <2>1 DEF Rendered, Evicts, This
    <2>3. t.g_screens # This.g_screens
      BY <1>2, <1>3, <1>5, <1>8 DEF Outside, This
    <2>4. \A f \in Allocated(This.split) \cap Allocated(t.split) :
            t.split[f].screen = This.split[f].screen
      BY <1>5, <1>11, <2>1 DEF Rendered, This
    <2> QED
      BY <2>2, <2>3, <2>4 DEF Rerendered
  <1> QED
    BY <1>1, <1>10, <1>12, BecomeIsThis

LEMMA UnplugKeeps ==
  ASSUME IInv, NEW screen \in Screen, handle_output_destroyed(screen)
  PROVE  IInv' /\ \E t : Become(t) /\ Whole(t) /\ Rerendered(This, t)
PROOF
  <1> DEFINE s == [This EXCEPT !.g_screens = Without(@, screen)]
             p(t) == IF be_screens \ {screen} = {} THEN "terminated" ELSE t.phase
             q == Without(g_screens, screen)
  <1>1. PICK t \in workspace_restore(s) :
          Become([t EXCEPT !.be_screens = @ \ {screen},
                           !.phase = IF be_screens \ {screen} = {}
                                     THEN "terminated" ELSE @])
    BY DEF handle_output_destroyed, unplug, handle_screen_destroy
  <1>2. /\ This \in State /\ Core(This, {}) /\ Distinct(g_screens)
        /\ g_screens \in Seq(Screen) /\ roots \in Seq(Frame)
        /\ Elems(g_screens) = be_screens /\ Len(roots) = Len(g_screens)
        /\ screen \in be_screens
        /\ phase \in {"running", "terminated"}
    BY DEF IInv, Whole, Core, Plugged, This, State, handle_output_destroyed,
           unplug, Dispatching
  <1>3. /\ q \in Seq(Screen) /\ Elems(q) = be_screens \ {screen}
        /\ Distinct(q) /\ Len(q) = Len(g_screens) - 1
    BY <1>2, ElemsOfWithout
  <1>4. s = [This EXCEPT !.g_screens = q]
    BY DEF This
  <1> HIDE DEF q, s
  <1>5. /\ s \in State /\ s.g_screens = q /\ s.be_screens = be_screens
        /\ s.split = split /\ s.roots = roots /\ s.hidden = hidden
        /\ s.frame = frame /\ s.windows = windows
        /\ s.shown = shown /\ s.be_focus = be_focus
    BY <1>2, <1>3, <1>4 DEF This, State
  <1>6. Core(s, {})
    BY <1>2, <1>5 DEF Core, Trees, Queued, Framed, Lit, This
  <1>7. Len(s.roots) \in {Len(s.g_screens) - 1, Len(s.g_screens),
                          Len(s.g_screens) + 1}
    BY <1>2, <1>3, <1>5
  <1>8. /\ Core(t, {}) /\ OnScreens(t) /\ FocusOK(t) /\ Outside(s, t)
        /\ Len(t.roots) = Len(t.g_screens)
        /\ \E lost \in SUBSET Window : Rendered(s, t, lost)
    BY <1>1, <1>6, <1>7, RestoreKeepsCore
  <1> DEFINE u == [t EXCEPT !.be_screens = @ \ {screen},
                            !.phase = IF be_screens \ {screen} = {}
                                      THEN "terminated" ELSE @]
  <1>9. /\ u \in State /\ u.split = t.split /\ u.roots = t.roots
        /\ u.focus = t.focus /\ u.hidden = t.hidden /\ u.frame = t.frame
        /\ u.windows = t.windows /\ u.g_screens = t.g_screens
        /\ u.be_screens = t.be_screens \ {screen}
        /\ u.shown = t.shown /\ u.be_focus = t.be_focus
    <2>1. t \in State /\ "terminated" \in Phases
      BY <1>8 DEF Core, Phases
    <2> QED
      BY <2>1 DEF State
  <1>10. Become(u)
    BY <1>1
  <1> HIDE DEF u
  <1>11. Core(u, {})
    BY <1>8, <1>9 DEF Core, Trees, Queued, Framed, Lit
  <1>12. OnScreens(u) /\ FocusOK(u)
    BY <1>8, <1>9 DEF OnScreens, Inherited, Hung, FocusOK
  <1>13. Plugged(u)
    BY <1>3, <1>5, <1>8, <1>9 DEF Plugged, Outside
  <1>14. Whole(u)
    BY <1>11, <1>12, <1>13 DEF Whole
  <1>15. ASSUME q = SubSeq(g_screens, 1, Len(q)) PROVE Settled(s)
    <2>1. /\ OnScreens(This) /\ This.g_screens = g_screens
          /\ This.split = split /\ This.roots = roots
      BY DEF IInv, Whole, This
    <2>2. \A i \in 1..Len(q) : q[i] = g_screens[i]
      <3> DEFINE n == Len(q)
      <3>1. n \in Nat /\ n <= Len(g_screens) /\ Len(g_screens) \in Nat
        BY <1>2, <1>3
      <3> HIDE DEF n
      <3>2. \A i \in 1..n : SubSeq(g_screens, 1, n)[i] = g_screens[i]
        BY <1>2, <3>1
      <3> QED
        BY <1>15, <3>2 DEF n
    <2> QED
      BY <1>2, <1>3, <1>5, <2>1, <2>2 DEF Settled, OnScreens, Inherited, Hung
  <1>16. Rerendered(This, u)
    <2>1. PICK lost \in SUBSET Window : Rendered(s, t, lost)
      BY <1>8
    <2>2. Evicts(This, u, lost)
      BY <1>5, <1>9, <2>1 DEF Rendered, Evicts, This
    <2>3. /\ u.g_screens = q /\ This.g_screens = g_screens
          /\ Len(q) < Len(g_screens) /\ u.g_screens # This.g_screens
      BY <1>2, <1>3, <1>5, <1>8, <1>9 DEF Outside, This
    <2>4. ASSUME q = SubSeq(g_screens, 1, Len(q))
          PROVE  \A f \in Allocated(This.split) \cap Allocated(u.split) :
                   u.split[f].screen = This.split[f].screen
      BY <1>5, <1>9, <1>15, <2>1, <2>4 DEF Rendered, This
    <2> QED
      BY <2>2, <2>3, <2>4 DEF Rerendered
  <1> QED
    BY <1>10, <1>14, <1>16, BecomeIsThis

LEMMA CleanupKeeps ==
  ASSUME IInv, compositor_main_cleanup
  PROVE  IInv'
PROOF
  <1> DEFINE l == [w \in Window |-> IF frame[w] = NULL THEN shown[w] ELSE NULL]
             k == IF be_focus # NULL /\ frame[be_focus] # NULL THEN NULL ELSE be_focus
             e == IF UnlinkSafe(This, {w \in Window : frame[w] # NULL})
                  THEN fault ELSE "link"
             u == [This EXCEPT
                     !.phase = "freed", !.g_screens = <<>>,
                     !.windows = {}, !.hidden = <<>>, !.roots = <<>>,
                     !.frame = [w \in Window |-> NULL],
                     !.shown = l, !.be_focus = k,
                     !.split = [f \in Frame |-> NULL], !.fault = e]
  <1>1. Become(u)
    BY DEF compositor_main_cleanup, This
  <1>2. This \in State /\ Lit(This)
    BY DEF IInv, Whole, Core
  <1>3. l = [w \in Window |-> NULL] /\ k = NULL /\ e \in Faults
    <2>1. \A w \in Window : frame[w] = NULL => shown[w] = NULL
      BY <1>2 DEF Lit, This
    <2>2. be_focus # NULL => frame[be_focus] # NULL
      BY <1>2 DEF Lit, This
    <2>3. fault \in Faults /\ "link" \in Faults
      BY <1>2 DEF State, This, Faults
    <2> QED
      BY <2>1, <2>2, <2>3
  <1> HIDE DEF l, k, e
  <1>4. /\ u.split = [f \in Frame |-> NULL] /\ u.roots = <<>>
        /\ u.hidden = <<>> /\ u.frame = [w \in Window |-> NULL]
        /\ u.windows = {} /\ u.g_screens = <<>> /\ u.phase = "freed"
        /\ u.shown = [w \in Window |-> NULL] /\ u.be_focus = NULL
    BY <1>3 DEF This
  <1>5. u \in State
    <2>1. /\ <<>> \in Seq(Frame) /\ <<>> \in Seq(Window) /\ <<>> \in Seq(Screen)
          /\ [f \in Frame |-> NULL] \in Heap /\ "freed" \in Phases
          /\ [w \in Window |-> NULL] \in [Window -> Frame \cup {NULL}]
          /\ [w \in Window |-> NULL] \in [Window -> Screen \cup {NULL}]
          /\ {} \in SUBSET Window
      BY DEF Heap, Phases
    <2> QED
      BY <1>2, <1>3, <2>1 DEF State, This
  <1> HIDE DEF u
  <1>6. Elems(<<>>) = {} /\ Distinct(<<>>)
    BY DEF Elems, Distinct
  <1>7. Allocated(u.split) = {}
    BY <1>4 DEF Allocated
  <1>8. Trees(u)
    BY <1>4, <1>6, <1>7 DEF Trees, Forest, Grounded
  <1>9. Queued(u, {}) /\ Framed(u, {}) /\ Lit(u)
    BY <1>4, <1>6, <1>7 DEF Queued, Framed, Lit
  <1>10. OnScreens(u) /\ Plugged(u) /\ FocusOK(u)
    BY <1>4, <1>7 DEF OnScreens, Inherited, Hung, Plugged, FocusOK
  <1>11. Whole(u)
    BY <1>5, <1>8, <1>9, <1>10 DEF Whole, Core
  <1> QED
    BY <1>1, <1>11, BecomeIsThis

LEMMA NextKeeps ==
  ASSUME IInv, [Next]_vars
  PROVE  IInv'
PROOF
  <1>1. Whole(This) /\ This \in State
    BY DEF IInv, Whole, Core
  <1>2. /\ This.split = split /\ This.focus = focus /\ This.phase = phase
        /\ This.windows = windows /\ This.fault = fault
    BY DEF This
  <1>3. ASSUME NEW screen \in Screen, handle_new_output(screen) PROVE IInv'
    BY <1>3, PlugKeeps
  <1>4. ASSUME NEW screen \in Screen, handle_output_destroyed(screen) PROVE IInv'
    BY <1>4, UnplugKeeps
  <1>5. ASSUME NEW w \in Window, handle_window_new(w) PROVE IInv'
    <2> DEFINE t == workspace_add_window(This, w)
    <2>1. Become(t) /\ This.focus \in Leaves(This.split) /\ w \notin This.windows
      BY <1>2, <1>5 DEF handle_window_new, HasFocus
    <2>2. Whole(t)
      BY <1>1, <2>1, AddKeepsWhole
    <2> QED
      BY <2>1, <2>2, BecomeIsThis
  <1>6. ASSUME NEW w \in Window, handle_window_destroy(w) PROVE IInv'
    <2> DEFINE t == workspace_remove_window(This, w)
    <2>1. Become(t) /\ w \in This.windows
      BY <1>2, <1>6 DEF handle_window_destroy
    <2>2. Whole(t)
      BY <1>1, <2>1, DestroyKeepsWhole
    <2> QED
      BY <2>1, <2>2, BecomeIsThis
  <1>7. ASSUME NEW vertical \in BOOLEAN, dosplit(vertical) PROVE IInv'
    <2>1. PICK c0 \in Free(split), c1 \in Free(split) :
            /\ c0 # c1
            /\ Become(workspace_do_split(This, focus, vertical, <<1, 2>>, c0, c1))
      BY <1>7 DEF dosplit
    <2> DEFINE half == <<1, 2>>
               t == workspace_do_split(This, focus, vertical, half, c0, c1)
    <2>2. /\ Become(t) /\ half \in Fraction /\ focus \in Leaves(This.split)
          /\ c0 \in Free(This.split) /\ c1 \in Free(This.split)
      BY <1>2, <1>7, <2>1 DEF dosplit, HasFocus, Fraction
    <2> HIDE DEF half
    <2>3. Whole(t)
      BY <1>1, <2>1, <2>2, SplitKeepsWhole
    <2> QED
      BY <2>2, <2>3, BecomeIsThis
  <1>8. ASSUME NEW vertical \in BOOLEAN, NEW increasing \in BOOLEAN,
               go(vertical, increasing)
        PROVE  IInv'
    <2>1. PICK new \in Leaves(This.split) : Become(workspace_focus_frame(This, new))
      BY <1>2, <1>8 DEF go
    <2>2. Whole(workspace_focus_frame(This, new))
      BY <1>1, <2>1, FocusKeepsWhole
    <2> QED
      BY <2>1, <2>2, BecomeIsThis
  <1>9. ASSUME NEW vertical \in BOOLEAN, NEW increasing \in BOOLEAN,
               swap(vertical, increasing)
        PROVE  IInv'
    <2>1. focus \in Leaves(This.split)
      BY <1>2, <1>9 DEF swap, HasFocus
    <2>2. PICK new \in Leaves(This.split) :
            Become(workspace_swap_windows_from_frames(This, focus, new))
      BY <1>2, <1>9 DEF swap
    <2>3. Whole(workspace_swap_windows_from_frames(This, focus, new))
      BY <1>1, <2>1, <2>2, SwapKeepsWhole
    <2> QED
      BY <2>2, <2>3, BecomeIsThis
  <1>10. ASSUME remove_frame PROVE IInv'
    <2>1. /\ focus \in Leaves(This.split)
          /\ This.phase \in {"running", "terminated"}
      BY <1>2, <1>10 DEF remove_frame, HasFocus, Dispatching
    <2>2. PICK t \in workspace_remove_frame(This, focus) : Become(t)
      BY <1>10 DEF remove_frame
    <2>3. Whole(t)
      BY <1>1, <2>1, <2>2, RemoveFrameKeepsWhole
    <2> QED
      BY <2>2, <2>3, BecomeIsThis
  <1>11. ASSUME next_win PROVE IInv'
    <2> DEFINE t == workspace_next_hidden_win_at(This, focus)
    <2>1. Become(t) /\ focus \in Leaves(This.split) \cup {NULL}
      BY <1>2, <1>11 DEF next_win, HasFocus
    <2>2. Whole(t)
      BY <1>1, <2>1, NextKeepsWhole
    <2> QED
      BY <2>1, <2>2, BecomeIsThis
  <1>12. ASSUME prev_win PROVE IInv'
    <2> DEFINE t == workspace_prev_hidden_win_at(This, focus)
    <2>1. Become(t) /\ focus \in Leaves(This.split) \cup {NULL}
      BY <1>2, <1>12 DEF prev_win, HasFocus
    <2>2. Whole(t)
      BY <1>1, <2>1, PrevKeepsWhole
    <2> QED
      BY <2>1, <2>2, BecomeIsThis
  <1>13. ASSUME NEW p \in Phases, NEW e \in Faults,
                phase \in {"running", "terminated"}
                  \/ p \notin {"running", "terminated"},
                Become([This EXCEPT !.phase = p, !.fault = e])
         PROVE  IInv'
    <2>1. Whole([This EXCEPT !.phase = p, !.fault = e])
      BY <1>1, <1>2, <1>13, EndingKeepsWhole
    <2> QED
      BY <1>13, <2>1, BecomeIsThis
  <1>14. phase \in Phases /\ fault \in Faults
    BY <1>1 DEF This, State
  <1>15. ASSUME quit PROVE IInv'
    <2>1. /\ Become([This EXCEPT !.phase = "terminated", !.fault = fault])
          /\ phase \in {"running", "terminated"} /\ "terminated" \in Phases
      BY <1>15 DEF quit, Dispatching, Phases, Become, This
    <2> QED
      BY <1>13, <1>14, <2>1
  <1>16. ASSUME follow_dangling_focus PROVE IInv'
    <2>1. /\ Become([This EXCEPT !.phase = phase, !.fault = "focus"])
          /\ phase \in {"running", "terminated"} /\ "focus" \in Faults
      BY <1>16 DEF follow_dangling_focus, Dispatching, Faults, Become, This
    <2> QED
      BY <1>13, <1>14, <2>1
  <1>17. ASSUME compositor_main_cleanup PROVE IInv'
    BY <1>17, CleanupKeeps
  <1>18. ASSUME backend_free PROVE IInv'
    <2>1. CASE be_screens = {}
      <3>1. /\ Become([This EXCEPT !.phase = "exited", !.fault = fault])
            /\ "exited" \in Phases /\ "exited" \notin {"running", "terminated"}
        BY <1>18, <2>1 DEF backend_free, Phases, Become, This
      <3> QED
        BY <1>13, <1>14, <3>1
    <2>2. CASE be_screens # {}
      <3>1. /\ Become([This EXCEPT !.phase = phase, !.fault = "teardown"])
            /\ "teardown" \in Faults /\ phase \notin {"running", "terminated"}
        BY <1>18, <2>2 DEF backend_free, Faults, Become, This
      <3> QED
        BY <1>13, <1>14, <3>1
    <2> QED
      BY <2>1, <2>2
  <1>19. ASSUME UNCHANGED vars PROVE IInv'
    <2>1. Become(This)
      BY <1>19 DEF vars, Become, This
    <2> QED
      BY <1>1, <2>1, BecomeIsThis
  <1> QED
    BY <1>3, <1>4, <1>5, <1>6, <1>7, <1>8, <1>9, <1>10, <1>11, <1>12, <1>15,
       <1>16, <1>17, <1>18, <1>19 DEF Next

(* The inductive invariant holds in every reachable state. *)
THEOREM Invariance == Spec => []IInv
BY InitEstablishes, NextKeeps, PTL DEF Spec

-----------------------------------------------------------------------------
(* What follows from the invariant.                                         *)

(* Every handler maps states of the right types to such states: no list,    *)
(* pointer or map ever holds a thing of another kind.                       *)
THEOREM TypeCorrect == Spec => []TypeOK
PROOF
  <1>1. IInv => TypeOK
    BY DEF IInv, Whole, Core, TypeOK
  <1> QED
    BY <1>1, Invariance, PTL

(* Splitting, removing and rendering leave the frames of split.c a forest   *)
(* with one tree per root, whatever the number of frames.                   *)
THEOREM FramesFormTrees == Spec => []FrameForest
PROOF
  <1>1. IInv => FrameForest
    BY DEF IInv, Whole, Core, Trees, FrameForest, This
  <1> QED
    BY <1>1, Invariance, PTL

(* No handler loses a window, queues it twice or leaves a pointer between   *)
(* windows and frames that is not answered.                                 *)
THEOREM WindowsHaveOneHome == Spec => []OneHome
PROOF
  <1>1. IInv => OneHome
    BY DEF IInv, Whole, Core, Queued, Framed, OneHome, This
  <1> QED
    BY <1>1, Invariance, PTL

(* The backend shows the windows in the frames and no others.               *)
THEOREM FramedWindowsAreShown == Spec => []ShownIffFramed
PROOF
  <1>1. IInv => ShownIffFramed
    BY DEF IInv, Whole, Core, Lit, ShownIffFramed, This
  <1> QED
    BY <1>1, Invariance, PTL

(* The keyboard never stays with a window that is hidden or destroyed.      *)
THEOREM KeyboardIsVisible == Spec => []KeyboardOnFramed
PROOF
  <1>1. IInv => KeyboardOnFramed
    BY DEF IInv, Whole, Core, Lit, KeyboardOnFramed, This
  <1> QED
    BY <1>1, Invariance, PTL

(* No handler frees the focused frame or turns it into an inner node        *)
(* without moving the focus to a leaf, while there is a screen.             *)
THEOREM FocusStaysOnLeaf == Spec => []FocusIsLeaf
PROOF
  <1>1. IInv => FocusIsLeaf
    BY DEF IInv, Whole, FocusOK, FocusIsLeaf, This
  <1> QED
    BY <1>1, Invariance, PTL

(* Splitting, removing and rendering leave every frame on the screen of the *)
(* root it is below, so no frame ever points at a screen that was freed.    *)
THEOREM FramesStayOnScreens == Spec => []FramesOnTheirScreen
PROOF
  <1>1. IInv => FramesOnTheirScreen
    <2> SUFFICES ASSUME IInv, NEW f \in Allocated(split)
                 PROVE  \E i \in 1..Len(roots) :
                          /\ f \in Tree(split, roots[i])
                          /\ split[f].screen = g_screens[i]
      BY DEF FramesOnTheirScreen
    <2>1. /\ This \in State /\ Forest(split, Elems(roots))
          /\ Inherited(This) /\ Hung(This)
          /\ This.split = split /\ This.roots = roots /\ This.g_screens = g_screens
      BY DEF IInv, Whole, Core, Trees, OnScreens, This
    <2>2. PICK i \in 1..Len(roots) : f \in Tree(split, roots[i])
      BY <2>1 DEF Forest, Elems
    <2>3. roots[i] \in Allocated(split)
      BY <2>1 DEF Forest, Elems
    <2>4. split[f].screen = split[roots[i]].screen
      BY <2>1, <2>2, <2>3, TreeOnOneScreen
    <2>5. split[roots[i]].screen = g_screens[i]
      BY <2>1, <2>3 DEF Hung
    <2> QED
      BY <2>2, <2>4, <2>5
  <1> QED
    BY <1>1, Invariance, PTL

(* Rendering after every change of the screens leaves one root per screen.  *)
THEOREM OneRootPerScreen == Spec => []RootPerScreen
PROOF
  <1>1. IInv => RootPerScreen
    BY DEF IInv, Whole, Core, Trees, Plugged, RootPerScreen, This
  <1> QED
    BY <1>1, Invariance, PTL

(* From a leaf a move ends at a leaf of the same screen, although the walk   *)
(* of do_split_move() turns where the fractions of the frames tell it to.   *)
THEOREM MovesEndOnScreen == Spec => []MovesStayOnScreen
PROOF
  <1>1. IInv => MovesStayOnScreen
    <2>1. SUFFICES ASSUME IInv, HasFocus,
                          NEW vertical \in BOOLEAN, NEW increasing \in BOOLEAN
                   PROVE  LET new == do_split_move(split, focus, vertical, increasing)
                          IN  /\ new \in Leaves(split)
                              /\ split[new].screen = split[focus].screen
      BY DEF MovesStayOnScreen
    <2>2. /\ split \in Heap /\ Forest(split, Elems(roots)) /\ focus \in Leaves(split)
          /\ \A f, p \in Allocated(split) :
               split[f].parent = p => split[f].screen = split[p].screen
      BY <2>1 DEF IInv, Whole, Core, Trees, OnScreens, Inherited, State, This, HasFocus
    <2> QED
      BY <2>2, MoveStays
  <1> QED
    BY <1>1, Invariance, PTL

=============================================================================
