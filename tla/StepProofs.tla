----------------------------- MODULE StepProofs -----------------------------
(***************************************************************************)
(* What the steps of Workspace do: the action properties, and that every   *)
(* step keeps what Placement promises.  The operators of a handler compose *)
(* into a few lines on windows, queue, keyboard and frames; one lemma per  *)
(* operator says which, and the theorems follow from those.  The second    *)
(* half proves of Drawing where the steps draw the windows: that both ways *)
(* through a tree give a leaf the same part of its screen, that the leaves *)
(* share the pixels out, and that a window always fills its frame.         *)
(***************************************************************************)
EXTENDS WorkspaceProofs, Drawing

Line(w) == Promise!Line(w)

(* Window w is what frame f shows after a step, and has the keyboard there; *)
(* old made way.                                                            *)
Shows(s, t, w, f, old) ==
  /\ t.roots = s.roots /\ t.g_screens = s.g_screens
  /\ t.be_screens = s.be_screens /\ t.phase = s.phase
  /\ w \in Window /\ w # old /\ s.frame[w] = NULL /\ s.shown[w] = NULL
  /\ t.split = PutWin(s.split, f, w)
  /\ t.focus = f /\ t.be_focus = w
  /\ \A v \in Window : t.frame[v] = IF v = w THEN f
                                    ELSE IF v = old THEN NULL ELSE s.frame[v]
  /\ \A v \in Window : t.shown[v] = IF v = w THEN s.split[f].screen
                                    ELSE IF v = old THEN NULL ELSE s.shown[v]

(* A window takes the place of another, which joins the queue at one end.   *)
LEMMA ReplaceDoes ==
  ASSUME NEW s, NEW w, Core(s, {w}), NEW f \in Leaves(s.split),
         NEW prepend \in BOOLEAN, NEW old, old = s.split[f].win,
         NEW t, t = replace_window(s, w, f, prepend)
  PROVE  /\ Shows(s, t, w, f, old) /\ t.windows = s.windows
         /\ t.hidden = IF prepend THEN Line(old) \o s.hidden
                                  ELSE s.hidden \o Line(old)
PROOF
  <1> DEFINE bare == workspace_remove_window_from_frame(s, f, prepend)
             drawn == draw_window(bare, w, f)
  <1>1. /\ s \in State /\ s.split \in Heap /\ f \in Frame /\ f \in Allocated(s.split)
        /\ s.split[f] \in Node /\ old \in Window \cup {NULL}
        /\ s.hidden \in Seq(Window) /\ f # NULL
    BY LeafIsFrame, NullIsNoObject DEF Core, State, Node
  <1>2. /\ w \in Window /\ w # NULL /\ s.frame[w] = NULL /\ s.shown[w] = NULL
        /\ w # old
    <2>1. w \in Window
      BY <1>1 DEF Core, Queued, State
    <2> QED
      BY <1>1, <2>1, NullIsNoObject DEF Core, Framed, Lit
  <1>3. /\ bare \in State /\ Aside(s, bare)
        /\ bare.split = [s.split EXCEPT ![f].win = NULL]
        /\ bare.hidden = IF prepend THEN Line(old) \o s.hidden
                                    ELSE s.hidden \o Line(old)
        /\ \A v \in Window : bare.frame[v] = IF v = old THEN NULL ELSE s.frame[v]
        /\ \A v \in Window : bare.shown[v] = IF v = old THEN NULL ELSE s.shown[v]
    <2>1. CASE old = NULL
      <3>1. bare = s /\ Line(old) = <<>>
        BY <2>1 DEF workspace_remove_window_from_frame, Line, Promise!Line
      <3>2. s.split = [s.split EXCEPT ![f].win = NULL]
        <4>1. [s.split[f] EXCEPT !.win = NULL] = s.split[f]
          BY <1>1, <2>1 DEF Node
        <4> QED
          BY <1>1, <4>1 DEF Heap
      <3> QED
        BY <1>1, <2>1, <3>1, <3>2, NullIsNoObject DEF Aside
    <2>2. CASE old # NULL
      <3>1. /\ old \in Window /\ Line(old) = <<old>>
        BY <1>1, <2>2 DEF Line, Promise!Line
      <3>2. Append(s.hidden, old) = s.hidden \o <<old>>
        BY <1>1, <3>1
      <3>3. /\ bare \in State /\ Aside(s, bare)
            /\ bare.split = [s.split EXCEPT ![f].win = NULL]
            /\ bare.hidden = IF prepend THEN <<old>> \o s.hidden ELSE Append(s.hidden, old)
            /\ \A v \in Window : bare.frame[v] = IF v = old THEN NULL ELSE s.frame[v]
            /\ \A v \in Window : bare.shown[v] = IF v = old THEN NULL ELSE s.shown[v]
        BY <1>1, <3>1, RemoveEffect
      <3> HIDE DEF bare
      <3> QED
        BY <3>1, <3>2, <3>3
    <2> QED
      BY <2>1, <2>2
  <1>4. t = workspace_focus_frame(drawn, f)
    BY DEF replace_window
  <1> HIDE DEF bare
  <1>5. /\ [s.split EXCEPT ![f].win = NULL][f].screen = s.split[f].screen
        /\ [[s.split EXCEPT ![f].win = NULL] EXCEPT ![f].win = w]
             = [s.split EXCEPT ![f].win = w]
        /\ f \in Allocated(bare.split)
    <2>1. /\ [s.split[f] EXCEPT !.win = NULL] \in Node
          /\ [s.split[f] EXCEPT !.win = NULL].screen = s.split[f].screen
          /\ [[s.split[f] EXCEPT !.win = NULL] EXCEPT !.win = w]
               = [s.split[f] EXCEPT !.win = w]
      BY <1>1 DEF Node
    <2> QED
      BY <1>1, <1>3, <2>1, NullIsNoNode DEF Heap, Allocated
  <1>6. /\ drawn \in State /\ Aside(bare, drawn)
        /\ drawn.split = [s.split EXCEPT ![f].win = w]
        /\ drawn.hidden = bare.hidden
        /\ \A v \in Window : drawn.frame[v] = IF v = w THEN f ELSE bare.frame[v]
        /\ \A v \in Window : drawn.shown[v] =
             IF v = w /\ bare.shown[v] = NULL THEN s.split[f].screen ELSE bare.shown[v]
    <2>1. /\ drawn \in State /\ Aside(bare, drawn)
          /\ drawn.split = [bare.split EXCEPT ![f].win = w]
          /\ drawn.hidden = bare.hidden
          /\ \A v \in Window : drawn.frame[v] = IF v = w THEN f ELSE bare.frame[v]
          /\ \A v \in Window : drawn.shown[v] =
               IF v = w /\ bare.shown[v] = NULL THEN bare.split[f].screen
               ELSE bare.shown[v]
      <3>1. /\ bare \in State /\ f \in Frame /\ f \in Allocated(bare.split)
            /\ w \in Window \cup {NULL}
        BY <1>1, <1>2, <1>3, <1>5
      <3> QED
        BY ONLY <3>1, DrawEffect
    <2> HIDE DEF drawn
    <2> QED
      BY <1>3, <1>5, <2>1
  <1> HIDE DEF drawn
  <1>7. f \in Allocated(drawn.split) /\ drawn.split[f].win = w
    <2>1. /\ [s.split[f] EXCEPT !.win = w] \in Node
          /\ [s.split[f] EXCEPT !.win = w].win = w
      BY <1>1, <1>2 DEF Node
    <2> QED
      BY <1>1, <1>6, <2>1, NullIsNoNode DEF Heap, Allocated
  <1>8. /\ t \in State /\ Aside(drawn, t)
        /\ t.split = drawn.split /\ t.hidden = drawn.hidden
        /\ t.frame = drawn.frame /\ t.shown = drawn.shown
        /\ t.focus = f /\ t.be_focus = w
    <2>1. /\ drawn \in State /\ f \in Frame /\ f \in Allocated(drawn.split)
          /\ drawn.split[f].win = w
      BY <1>1, <1>6, <1>7
    <2> QED
      BY <1>4, <2>1, FocusEffect
  <1>9. Aside(s, t)
    BY <1>3, <1>6, <1>8 DEF Aside
  <1>10. ASSUME NEW v \in Window
         PROVE  /\ t.frame[v] = IF v = w THEN f
                                ELSE IF v = old THEN NULL ELSE s.frame[v]
                /\ t.shown[v] = IF v = w THEN s.split[f].screen
                                ELSE IF v = old THEN NULL ELSE s.shown[v]
    BY <1>2, <1>3, <1>6, <1>8
  <1> QED
    BY <1>2, <1>3, <1>6, <1>8, <1>9, <1>10 DEF PutWin, Shows, Aside

LEMMA NextDoes ==
  ASSUME NEW s, Whole(s), NEW f \in Leaves(s.split), s.hidden # <<>>,
         NEW t, t = workspace_next_hidden_win_at(s, f)
  PROVE  /\ Shows(s, t, Head(s.hidden), f, s.split[f].win)
         /\ t.hidden = Tail(s.hidden) \o Line(s.split[f].win)
         /\ t.windows = s.windows
PROOF
  <1> DEFINE u == pop_first(s)
             w == Head(s.hidden)
             prepend == FALSE
             old == s.split[f].win
  <1>1. s \in State /\ f # NULL
    BY LeafIsFrame, NullIsNoObject DEF Whole, Core, State
  <1>2. /\ Core(u, {w}) /\ Aside(s, u) /\ u.split = s.split
    BY PopFirstLoosens DEF Whole
  <1>3. u.hidden = Tail(s.hidden) /\ u.frame = s.frame /\ u.shown = s.shown
    BY <1>1 DEF pop_first, State
  <1>4. t = replace_window(u, w, f, prepend) /\ prepend \in BOOLEAN
    BY <1>1 DEF workspace_next_hidden_win_at
  <1>5. f \in Leaves(u.split) /\ old = u.split[f].win
    BY <1>2
  <1> HIDE DEF u, w, prepend, old
  <1>6. /\ Shows(u, t, w, f, old) /\ t.windows = u.windows
        /\ t.hidden = IF prepend THEN Line(old) \o u.hidden ELSE u.hidden \o Line(old)
    BY <1>2, <1>4, <1>5, ReplaceDoes
  <1>7. Shows(s, t, w, f, old)
    BY <1>2, <1>3, <1>6 DEF Shows, Aside
  <1>8. t.hidden = Tail(s.hidden) \o Line(old) /\ t.windows = s.windows
    BY <1>2, <1>3, <1>6 DEF prepend, Aside
  <1> QED
    BY <1>7, <1>8 DEF w, old

LEMMA PrevDoes ==
  ASSUME NEW s, Whole(s), NEW f \in Leaves(s.split), s.hidden # <<>>,
         NEW t, t = workspace_prev_hidden_win_at(s, f)
  PROVE  /\ Shows(s, t, s.hidden[Len(s.hidden)], f, s.split[f].win)
         /\ t.hidden = Line(s.split[f].win) \o SubSeq(s.hidden, 1, Len(s.hidden) - 1)
         /\ t.windows = s.windows
PROOF
  <1> DEFINE u == pop_last(s)
             w == s.hidden[Len(s.hidden)]
             prepend == TRUE
             old == s.split[f].win
  <1>1. s \in State /\ f # NULL
    BY LeafIsFrame, NullIsNoObject DEF Whole, Core, State
  <1>2. /\ Core(u, {w}) /\ Aside(s, u) /\ u.split = s.split
    BY PopLastLoosens DEF Whole
  <1>3. /\ u.hidden = SubSeq(s.hidden, 1, Len(s.hidden) - 1)
        /\ u.frame = s.frame /\ u.shown = s.shown
    BY <1>1 DEF pop_last, State
  <1>4. t = replace_window(u, w, f, prepend) /\ prepend \in BOOLEAN
    BY <1>1 DEF workspace_prev_hidden_win_at
  <1>5. f \in Leaves(u.split) /\ old = u.split[f].win
    BY <1>2
  <1> HIDE DEF u, w, prepend, old
  <1>6. /\ Shows(u, t, w, f, old) /\ t.windows = u.windows
        /\ t.hidden = IF prepend THEN Line(old) \o u.hidden ELSE u.hidden \o Line(old)
    BY <1>2, <1>4, <1>5, ReplaceDoes
  <1>7. Shows(s, t, w, f, old)
    BY <1>2, <1>3, <1>6 DEF Shows, Aside
  <1>8. /\ t.hidden = Line(old) \o SubSeq(s.hidden, 1, Len(s.hidden) - 1)
        /\ t.windows = s.windows
    BY <1>2, <1>3, <1>6 DEF prepend, Aside
  <1> QED
    BY <1>7, <1>8 DEF w, old

LEMMA AddDoes ==
  ASSUME NEW s, Whole(s), NEW f \in Leaves(s.split), f = s.focus,
         NEW w \in Window, w \notin s.windows,
         NEW t, t = workspace_add_window(s, w)
  PROVE  /\ Shows(s, t, w, f, s.split[f].win)
         /\ t.hidden = s.hidden \o Line(s.split[f].win)
PROOF
  <1> DEFINE u == [s EXCEPT !.windows = @ \cup {w}]
             prepend == FALSE
             old == s.split[f].win
  <1>1. s \in State /\ Core(s, {})
    BY DEF Whole, Core
  <1>2. /\ u \in State /\ u.windows = s.windows \cup {w}
        /\ u.split = s.split /\ u.focus = s.focus /\ u.roots = s.roots
        /\ u.hidden = s.hidden /\ u.frame = s.frame
        /\ u.shown = s.shown /\ u.be_focus = s.be_focus
        /\ u.g_screens = s.g_screens /\ u.be_screens = s.be_screens
        /\ u.phase = s.phase
    BY <1>1 DEF State
  <1>3. t = replace_window(u, w, f, prepend) /\ prepend \in BOOLEAN
    BY <1>2 DEF workspace_add_window, replace_window
  <1> HIDE DEF u, prepend
  <1>4. s.frame[w] = NULL
    BY <1>1 DEF Core, Framed
  <1>5. Core(u, {w})
    <2>1. Queued(u, {w})
      BY <1>1, <1>2 DEF Core, Queued
    <2>2. Framed(u, {w})
      BY <1>1, <1>2, <1>4 DEF Core, Framed
    <2> QED
      BY <1>1, <1>2, <2>1, <2>2 DEF Core, Trees, Lit
  <1>6. f \in Leaves(u.split) /\ old = u.split[f].win
    BY <1>2
  <1> HIDE DEF old
  <1>7. /\ Shows(u, t, w, f, old) /\ t.windows = u.windows
        /\ t.hidden = IF prepend THEN Line(old) \o u.hidden ELSE u.hidden \o Line(old)
    BY <1>3, <1>5, <1>6, ReplaceDoes
  <1>8. Shows(s, t, w, f, old)
    BY <1>2, <1>7 DEF Shows, Aside
  <1>9. t.hidden = s.hidden \o Line(old)
    BY <1>2, <1>7 DEF prepend
  <1> QED
    BY <1>8, <1>9 DEF old

(* Window w is gone.  If it had a frame, the window that waited longest     *)
(* gets it.                                                                 *)
Unmaps(s, t, w) ==
  LET f == s.frame[w]
  IN  /\ w \in s.windows /\ f \in Leaves(s.split) \cup {NULL}
      /\ t.g_screens = s.g_screens /\ t.be_screens = s.be_screens
      /\ f # NULL => s.split[f].win = w
      /\ f = NULL =>
           /\ t.split = s.split /\ t.hidden = Without(s.hidden, w)
           /\ t.focus = s.focus /\ t.be_focus = s.be_focus
           /\ \A v \in Window : t.frame[v] = s.frame[v] /\ t.shown[v] = s.shown[v]
      /\ f # NULL /\ s.hidden = <<>> =>
           /\ t.split = PutWin(s.split, f, NULL) /\ t.hidden = s.hidden
           /\ t.focus = s.focus
           /\ t.be_focus = (IF s.be_focus = w THEN NULL ELSE s.be_focus)
           /\ \A v \in Window : t.frame[v] = IF v = w THEN NULL ELSE s.frame[v]
           /\ \A v \in Window : t.shown[v] = IF v = w THEN NULL ELSE s.shown[v]
      /\ f # NULL /\ s.hidden # <<>> =>
           Shows(s, t, Head(s.hidden), f, w) /\ t.hidden = Tail(s.hidden)

LEMMA DestroyDoes ==
  ASSUME NEW s, Whole(s), NEW w \in s.windows,
         NEW t, t = workspace_remove_window(s, w)
  PROVE  Unmaps(s, t, w)
PROOF
  <1> DEFINE f    == s.frame[w]
             gone == Dropped(s, w)
  <1>1. t = workspace_next_hidden_win_at(gone, f)
    BY DEF workspace_remove_window, Dropped
  <1>2. f = s.frame[w] /\ gone = Dropped(s, w)
    OBVIOUS
  <1> HIDE DEF f, gone
  <1>3. /\ Whole(gone)
        /\ gone.phase = s.phase /\ gone.roots = s.roots
        /\ gone.g_screens = s.g_screens /\ gone.be_screens = s.be_screens
        /\ gone.focus = s.focus
        /\ w \in Window /\ f \in Leaves(s.split) \cup {NULL}
        /\ f \in Leaves(gone.split) \cup {NULL}
        /\ f # NULL => s.split[f].win = w
        /\ gone.split = IF f = NULL THEN s.split ELSE PutWin(s.split, f, NULL)
        /\ gone.hidden = IF f = NULL THEN Without(s.hidden, w) ELSE s.hidden
        /\ gone.be_focus = IF s.be_focus = w THEN NULL ELSE s.be_focus
        /\ \A v \in Window : gone.frame[v] = IF v = w THEN NULL ELSE s.frame[v]
        /\ \A v \in Window : gone.shown[v] = IF v = w THEN NULL ELSE s.shown[v]
    BY <1>2, DropDoes
  <1>4. s \in State /\ Lit(s) /\ s.split \in Heap
    BY DEF Whole, Core, State
  <1>5. CASE f = NULL
    <2>1. t = gone
      BY <1>1, <1>5 DEF workspace_next_hidden_win_at
    <2>2. s.be_focus # w /\ s.shown[w] = NULL
      BY <1>2, <1>3, <1>4, <1>5, NullIsNoObject DEF Lit
    <2> QED
      BY <1>2, <1>3, <1>5, <2>1, <2>2 DEF Unmaps
  <1>6. CASE f # NULL /\ s.hidden = <<>>
    <2>1. t = gone
      BY <1>1, <1>3, <1>6 DEF workspace_next_hidden_win_at
    <2> QED
      BY <1>2, <1>3, <1>6, <2>1 DEF Unmaps
  <1>7. CASE f # NULL /\ s.hidden # <<>>
    <2> DEFINE x   == Head(s.hidden)
               old == gone.split[f].win
    <2>1. /\ f \in Leaves(gone.split) /\ f \in Leaves(s.split)
          /\ gone.hidden = s.hidden /\ gone.split = PutWin(s.split, f, NULL)
      BY <1>3, <1>7
    <2>2. /\ Shows(gone, t, x, f, old)
          /\ t.hidden = Tail(s.hidden) \o Line(old)
      <3>1. gone.hidden # <<>>
        BY <1>7, <2>1
      <3>2. /\ Shows(gone, t, Head(gone.hidden), f, gone.split[f].win)
            /\ t.hidden = Tail(gone.hidden) \o Line(gone.split[f].win)
        <4>1. Whole(gone) /\ f \in Leaves(gone.split)
          BY <1>3, <2>1
        <4> QED
          BY ONLY <1>1, <3>1, <4>1, NextDoes
      <3> QED
        BY <2>1, <3>2
    <2>3. old = NULL /\ f \in Allocated(s.split) /\ SameFrames(s.split, gone.split)
          /\ PutWin(gone.split, f, x) = PutWin(s.split, f, x)
      <3>1. f \in Allocated(s.split)
        BY <1>4, <2>1, LeafIsFrame
      <3>2. x \in Window \cup {NULL}
        BY <2>2 DEF Shows
      <3> HIDE DEF x
      <3>3. /\ SameFrames(s.split, gone.split) /\ gone.split[f].win = NULL
            /\ \A v \in Window \cup {NULL} :
                 PutWin(gone.split, f, v) = PutWin(s.split, f, v)
        BY <1>4, <2>1, <3>1, PutWinDoes
      <3> QED
        BY <3>1, <3>2, <3>3
    <2>4. t.hidden = Tail(s.hidden)
      <3>1. Line(old) = <<>> /\ Tail(s.hidden) \in Seq(Window)
        BY <1>4, <1>7, <2>3 DEF Line, Promise!Line, State
      <3> QED
        BY <2>2, <3>1
    <2>5. gone.split[f].screen = s.split[f].screen
      BY <2>3 DEF SameFrames
    <2> HIDE DEF x, old
    <2>6. Shows(gone, t, x, f, NULL)
      BY <2>2, <2>3
    <2>7. x # w /\ s.frame[x] = NULL /\ s.shown[x] = NULL
      <3>1. x \in Elems(s.hidden)
        BY <1>4, <1>7, ElemsOfTail DEF x, State
      <3>2. s.frame[x] = NULL /\ x \in Window
        BY <3>1, <1>4 DEF Whole, Core, Queued, State
      <3> QED
        BY <1>2, <1>4, <1>7, <3>2 DEF Lit
    <2>8. Shows(s, t, x, f, w)
      BY <1>3, <2>3, <2>5, <2>6, <2>7, NullIsNoObject DEF Shows
    <2> QED
      BY <1>2, <1>3, <1>7, <2>4, <2>8 DEF Unmaps, x, Shows
  <1> QED
    BY <1>5, <1>6, <1>7

-----------------------------------------------------------------------------
(* Forwards and backwards through the hidden windows.                       *)

LEMMA QueueTurnsBack ==
  ASSUME NEW q \in Seq(Window), q # <<>>, NEW w \in Window,
         NEW p, p = Tail(q) \o <<w>>
  PROVE  /\ p \in Seq(Window) /\ p # <<>> /\ p[Len(p)] = w
         /\ <<Head(q)>> \o SubSeq(p, 1, Len(p) - 1) = q
PROOF
  <1> DEFINE n     == Len(q)
             front == SubSeq(p, 1, Len(p) - 1)
             one   == <<Head(q)>>
             b     == one \o front
  <1>1. /\ n \in Nat \ {0} /\ p \in Seq(Window) /\ Len(p) = n
        /\ p[n] = w
        /\ \A i \in 1..(n - 1) : p[i] = q[i + 1]
    OBVIOUS
  <1>2. p # <<>>
    BY <1>1
  <1>3. /\ front \in Seq(Window) /\ Len(front) = Len(p) - 1
        /\ \A i \in 1..(Len(p) - 1) : front[i] = p[i]
    <2> HIDE DEF n
    <2>1. /\ front \in Seq(Window) /\ Len(front) = Len(p) - 1
          /\ \A i \in 1..(Len(p) - 1) : SubSeq(p, 1, Len(p) - 1)[i] = p[i]
      BY ONLY <1>1, <1>2, ElemsOfFront
    <2> QED
      BY <2>1
  <1>4. one \in Seq(Window) /\ Len(one) = 1 /\ one[1] = q[1]
    OBVIOUS
  <1>5. n = Len(q)
    OBVIOUS
  <1> HIDE DEF front, one, n
  <1>6. /\ b \in Seq(Window) /\ Len(b) = 1 + (n - 1)
        /\ \A i \in 1..(1 + (n - 1)) : b[i] = IF i <= 1 THEN one[i] ELSE front[i - 1]
    <2>1. /\ b \in Seq(Window) /\ Len(b) = Len(one) + Len(front)
          /\ \A i \in 1..(Len(one) + Len(front)) :
               b[i] = IF i <= Len(one) THEN one[i] ELSE front[i - Len(one)]
      BY ONLY <1>3, <1>4, ConcatProperties
    <2> QED
      BY ONLY <1>1, <1>3, <1>4, <2>1
  <1> HIDE DEF b
  <1>7. ASSUME NEW i \in 1..n PROVE b[i] = q[i]
    <2>1. CASE i = 1
      BY ONLY <1>1, <1>4, <1>6, <2>1
    <2>2. CASE i # 1
      <3> n \in Nat
        BY <1>1
      <3>1. /\ i - 1 \in 1..(n - 1) /\ ~(i <= 1) /\ (i - 1) + 1 = i
            /\ i \in 1..(1 + (n - 1))
        BY ONLY n \in Nat, <2>2, i \in 1..n
      <3>2. b[i] = front[i - 1] /\ front[i - 1] = p[i - 1]
        BY ONLY <1>1, <1>3, <1>6, <3>1
      <3>3. p[i - 1] = q[(i - 1) + 1]
        BY ONLY <1>1, <3>1
      <3> QED
        BY ONLY <3>1, <3>2, <3>3
    <2> QED
      BY <2>1, <2>2
  <1>8. b = q
    <2>1. Len(b) = Len(q)
      BY ONLY <1>1, <1>5, <1>6
    <2>2. b \in Seq(Window) /\ q \in Seq(Window) /\ \A i \in 1..Len(b) : b[i] = q[i]
      BY <1>5, <1>6, <1>7, <2>1
    <2> QED
      BY ONLY <2>1, <2>2, SeqEqual
  <1> QED
    BY <1>1, <1>2, <1>8 DEF b, front, one

(* Cycling forwards and then backwards restores every queue and frame, for  *)
(* every number of windows and frames.                                      *)
THEOREM CyclingIsUndone == Spec => []PrevUndoesNext
PROOF
  <1>1. IInv => PrevUndoesNext
    <2> DEFINE f     == focus
               old   == split[f].win
               there == workspace_next_hidden_win_at(This, f)
               back  == workspace_prev_hidden_win_at(there, f)
               same  == workspace_focus_frame(This, f)
    <2> SUFFICES ASSUME IInv, HasFocus, old # NULL, hidden # <<>>
                 PROVE  back = [same EXCEPT !.shown = back.shown, !.fault = back.fault]
      BY DEF PrevUndoesNext
    <2>1. /\ Whole(This) /\ This \in State /\ f \in Leaves(This.split)
          /\ f \in Frame /\ f \in Allocated(This.split) /\ This.split \in Heap
          /\ This.split = split /\ This.hidden = hidden /\ This.hidden # <<>>
          /\ hidden \in Seq(Window) /\ old \in Window /\ old = This.split[f].win
      BY LeafIsFrame DEF IInv, Whole, Core, HasFocus, This, State, Node
    <2>2. /\ there = workspace_next_hidden_win_at(This, f)
          /\ back = workspace_prev_hidden_win_at(there, f)
          /\ same = workspace_focus_frame(This, f)
      OBVIOUS
    <2> HIDE DEF f, old, there, back, same
    <2> DEFINE w == Head(hidden)
    <2>3. /\ Shows(This, there, w, f, old)
          /\ there.hidden = Tail(hidden) \o Line(old)
          /\ there.windows = This.windows
      BY <2>1, <2>2, NextDoes
    <2>4. Line(old) = <<old>>
      BY <2>1, NullIsNoObject DEF Line, Promise!Line
    <2>5. /\ there.hidden # <<>> /\ there.hidden[Len(there.hidden)] = old
          /\ <<w>> \o SubSeq(there.hidden, 1, Len(there.hidden) - 1) = hidden
      BY <2>1, <2>3, <2>4, QueueTurnsBack
    <2>6. Whole(there)
      BY <2>1, <2>2, NextKeepsWhole
    <2>7. w \in Window /\ there.split = PutWin(split, f, w)
      BY <2>1, <2>3 DEF Shows
    <2> HIDE DEF w
    <2>8. /\ f \in Leaves(there.split) /\ there.split[f].win = w
          /\ PutWin(there.split, f, old) = PutWin(split, f, old)
          /\ PutWin(split, f, old) = split
      <3>1. there.split = PutWin(This.split, f, w) /\ w \in Window \cup {NULL}
        BY <2>1, <2>7
      <3>2. /\ SameFrames(This.split, there.split) /\ there.split[f].win = w
            /\ \A v \in Window \cup {NULL} :
                 PutWin(there.split, f, v) = PutWin(This.split, f, v)
        BY <2>1, <3>1, PutWinDoes
      <3>3. PutWin(This.split, f, old) = This.split
        BY <2>1, PutWinDoes
      <3> QED
        BY <2>1, <3>2, <3>3 DEF SameFrames, Leaves
    <2>9. /\ Shows(there, back, old, f, w)
          /\ back.hidden = Line(w) \o SubSeq(there.hidden, 1, Len(there.hidden) - 1)
          /\ back.windows = there.windows
      BY <2>2, <2>5, <2>6, <2>8, PrevDoes
    <2>10. Line(w) = <<w>>
      BY <2>7, NullIsNoObject DEF Line, Promise!Line
    <2>11. back.hidden = hidden
      BY <2>5, <2>9, <2>10
    <2>12. back.split = split
      BY <2>8, <2>9 DEF Shows
    <2>13. back \in State
      <3>1. Whole(back)
        BY <2>2, <2>6, <2>8, PrevKeepsWhole
      <3> QED
        BY <3>1 DEF Whole, Core
    <2>14. back.frame = frame
      <3>1. /\ frame[old] = f /\ frame[w] = NULL /\ This.frame = frame
        BY <2>1, <2>3, NullIsNoObject DEF Shows, Whole, Core, Framed, This
      <3>2. \A v \in Window : back.frame[v] = frame[v]
        BY <2>3, <2>9, <3>1 DEF Shows
      <3>3. /\ back.frame = [v \in Window |-> back.frame[v]]
            /\ frame = [v \in Window |-> frame[v]]
        BY <2>1, <2>13, <3>1 DEF State
      <3> QED
        BY <3>2, <3>3
    <2>15. /\ same \in State /\ same.split = split /\ same.hidden = hidden
           /\ same.frame = frame /\ same.focus = f /\ same.be_focus = old
           /\ same.roots = roots /\ same.windows = windows
           /\ same.g_screens = g_screens /\ same.be_screens = be_screens
           /\ same.phase = phase
      <3>1. /\ same \in State /\ Aside(This, same)
            /\ same.split = This.split /\ same.hidden = This.hidden
            /\ same.frame = This.frame /\ same.shown = This.shown
            /\ same.focus = f /\ same.be_focus = This.split[f].win
        BY <2>1, <2>2, FocusEffect
      <3> QED
        BY <2>1, <3>1 DEF Aside, This
    <2>16. /\ back.focus = f /\ back.be_focus = old
           /\ back.roots = roots /\ back.windows = windows
           /\ back.g_screens = g_screens /\ back.be_screens = be_screens
           /\ back.phase = phase
      BY <2>3, <2>9 DEF Shows, This
    <2> QED
      BY ONLY <2>11, <2>12, <2>13, <2>14, <2>15, <2>16 DEF State
  <1> QED
    BY <1>1, Invariance, PTL

-----------------------------------------------------------------------------
(* Every step of the specification, by its effect.                          *)

Still(s, t) ==
  /\ t.split = s.split /\ t.focus = s.focus /\ t.be_focus = s.be_focus
  /\ t.hidden = s.hidden /\ t.frame = s.frame /\ t.shown = s.shown
  /\ t.g_screens = s.g_screens /\ t.be_screens = s.be_screens

(* The focus goes to frame f. *)
Turns(s, t, f) ==
  /\ t.split = s.split /\ t.focus = f /\ t.be_focus = s.split[f].win
  /\ t.hidden = s.hidden /\ t.frame = s.frame /\ t.shown = s.shown
  /\ t.g_screens = s.g_screens /\ t.be_screens = s.be_screens

Clears(s, t) ==
  /\ Allocated(t.split) = {} /\ t.hidden = <<>> /\ t.be_focus = NULL
  /\ \A w \in Window : t.frame[w] = NULL /\ t.shown[w] = NULL
  /\ t.be_screens = s.be_screens

(* A new window, the one that waited longest, or the one that came last     *)
(* takes the place of what frame f showed.                                  *)
Fills(s, t, f) ==
  \E w \in Window :
    /\ Shows(s, t, w, f, s.split[f].win)
    /\ \/ w \notin s.windows /\ t.hidden = s.hidden \o Line(s.split[f].win)
       \/ /\ s.hidden # <<>> /\ w = Head(s.hidden)
          /\ t.hidden = Tail(s.hidden) \o Line(s.split[f].win)
       \/ /\ s.hidden # <<>> /\ w = s.hidden[Len(s.hidden)]
          /\ t.hidden = Line(s.split[f].win) \o SubSeq(s.hidden, 1, Len(s.hidden) - 1)

Loses(s, t, f) ==
  /\ Merges(s, t, f)
  /\ t.g_screens = s.g_screens /\ t.be_screens = s.be_screens

Trades(s, t) ==
  /\ s.phase \in {"running", "terminated"} /\ s.fault = "none"
  /\ \E src, dst \in Leaves(s.split), vertical, increasing \in BOOLEAN :
       /\ src = s.focus
       /\ dst = do_split_move(s.split, src, vertical, increasing)
       /\ Swaps(s, t, src, dst)

Does(s, t) ==
  \/ Still(s, t) \/ Rerendered(s, t) \/ Clears(s, t) \/ Trades(s, t)
  \/ \E w \in s.windows : Unmaps(s, t, w)
  \/ \E f \in Leaves(s.split) : Fills(s, t, f) \/ Turns(s, t, f) \/ Loses(s, t, f)
  \/ \E f \in Leaves(s.split), c0, c1 \in Free(s.split) : Halves(s, t, f, c0, c1)

LEMMA StepDoes ==
  ASSUME IInv, [Next]_vars
  PROVE  \E t : Become(t) /\ Whole(t) /\ Does(This, t)
PROOF
  <1>1. /\ Whole(This) /\ This \in State
        /\ This.split = split /\ This.focus = focus /\ This.phase = phase
        /\ This.windows = windows /\ This.fault = fault
        /\ This.hidden = hidden /\ This.be_focus = be_focus
        /\ This.frame = frame /\ This.shown = shown
        /\ This.g_screens = g_screens /\ This.be_screens = be_screens
    BY DEF IInv, Whole, Core, This
  <1>2. IInv'
    BY NextKeeps
  <1>4. ASSUME NEW screen \in Screen,
               handle_new_output(screen) \/ handle_output_destroyed(screen)
        PROVE  \E t : Become(t) /\ Whole(t) /\ Does(This, t)
    BY <1>4, PlugKeeps, UnplugKeeps DEF Does
  <1>5. ASSUME NEW w \in Window, handle_window_new(w)
        PROVE  \E t : Become(t) /\ Whole(t) /\ Does(This, t)
    <2> DEFINE t == workspace_add_window(This, w)
               f == focus
    <2>1. /\ Become(t) /\ f = This.focus /\ f \in Leaves(This.split)
          /\ w \notin This.windows
      BY <1>1, <1>5 DEF handle_window_new, HasFocus
    <2>2. t = workspace_add_window(This, w)
      OBVIOUS
    <2> HIDE DEF t, f
    <2>3. Whole(t)
      BY <1>1, <2>1, <2>2, AddKeepsWhole
    <2>4. /\ Shows(This, t, w, f, This.split[f].win)
          /\ t.hidden = This.hidden \o Line(This.split[f].win)
      BY <1>1, <2>1, <2>2, AddDoes
    <2>5. Fills(This, t, f)
      BY <2>1, <2>4 DEF Fills
    <2> QED
      BY <2>1, <2>3, <2>5 DEF Does
  <1>6. ASSUME NEW w \in Window, handle_window_destroy(w)
        PROVE  \E t : Become(t) /\ Whole(t) /\ Does(This, t)
    <2> DEFINE t == workspace_remove_window(This, w)
    <2>1. Become(t) /\ w \in This.windows
      BY <1>1, <1>6 DEF handle_window_destroy
    <2>2. t = workspace_remove_window(This, w)
      OBVIOUS
    <2> HIDE DEF t
    <2>3. Whole(t) /\ Unmaps(This, t, w)
      BY <1>1, <2>1, <2>2, DestroyKeepsWhole, DestroyDoes
    <2> QED
      BY <2>1, <2>3 DEF Does
  <1>7. ASSUME NEW vertical \in BOOLEAN, dosplit(vertical)
        PROVE  \E t : Become(t) /\ Whole(t) /\ Does(This, t)
    <2>1. PICK c0 \in Free(split), c1 \in Free(split) :
            /\ c0 # c1
            /\ Become(workspace_do_split(This, focus, vertical, <<1, 2>>, c0, c1))
      BY <1>7 DEF dosplit
    <2> DEFINE half == <<1, 2>>
               f == focus
               t == workspace_do_split(This, f, vertical, half, c0, c1)
    <2>2. /\ Become(t) /\ half \in Fraction /\ f \in Leaves(This.split)
          /\ c0 \in Free(This.split) /\ c1 \in Free(This.split)
      BY <1>1, <1>7, <2>1 DEF dosplit, HasFocus, Fraction
    <2>3. t = workspace_do_split(This, f, vertical, half, c0, c1)
      OBVIOUS
    <2> HIDE DEF half, f, t
    <2>4. Whole(t) /\ Halves(This, t, f, c0, c1)
      BY <1>1, <2>1, <2>2, <2>3, SplitKeepsWhole
    <2> QED
      BY <2>2, <2>4 DEF Does
  <1>8. ASSUME NEW vertical \in BOOLEAN, NEW increasing \in BOOLEAN,
               go(vertical, increasing)
        PROVE  \E t : Become(t) /\ Whole(t) /\ Does(This, t)
    <2>1. PICK new \in Leaves(This.split) : Become(workspace_focus_frame(This, new))
      BY <1>1, <1>8 DEF go
    <2> DEFINE t == workspace_focus_frame(This, new)
    <2>2. Become(t) /\ t = workspace_focus_frame(This, new)
      BY <2>1
    <2> HIDE DEF t
    <2>3. Whole(t)
      BY <1>1, <2>2, FocusKeepsWhole
    <2>4. Turns(This, t, new)
      <3>1. new \in Frame /\ new \in Allocated(This.split)
        BY <1>1, LeafIsFrame DEF State
      <3>2. /\ Aside(This, t)
            /\ t.split = This.split /\ t.hidden = This.hidden
            /\ t.frame = This.frame /\ t.shown = This.shown
            /\ t.focus = new /\ t.be_focus = This.split[new].win
        BY <1>1, <2>2, <3>1, FocusEffect
      <3> QED
        BY <3>2 DEF Turns, Aside
    <2> QED
      BY <2>2, <2>3, <2>4 DEF Does
  <1>9. ASSUME NEW vertical \in BOOLEAN, NEW increasing \in BOOLEAN,
               swap(vertical, increasing)
        PROVE  \E t : Become(t) /\ Whole(t) /\ Does(This, t)
    <2> DEFINE src == focus
    <2>1. src \in Leaves(This.split) /\ src = This.focus
      BY <1>1, <1>9 DEF swap, HasFocus
    <2>2. PICK dst \in Leaves(This.split) :
            /\ dst = do_split_move(This.split, src, vertical, increasing)
            /\ Become(workspace_swap_windows_from_frames(This, src, dst))
      BY <1>1, <1>9 DEF swap
    <2> DEFINE t == workspace_swap_windows_from_frames(This, src, dst)
    <2>3. Become(t) /\ t = workspace_swap_windows_from_frames(This, src, dst)
      BY <2>2
    <2> HIDE DEF t, src
    <2>4. Whole(t) /\ Swaps(This, t, src, dst)
      BY <1>1, <2>1, <2>3, SwapKeepsWhole
    <2>5. This.phase \in {"running", "terminated"} /\ This.fault = "none"
      BY <1>1, <1>9 DEF swap, HasFocus, Dispatching
    <2>6. Trades(This, t)
      BY <2>1, <2>2, <2>4, <2>5 DEF Trades
    <2> QED
      BY <2>3, <2>4, <2>6 DEF Does
  <1>10. ASSUME remove_frame
         PROVE  \E t : Become(t) /\ Whole(t) /\ Does(This, t)
    <2>1. /\ focus \in Leaves(This.split)
          /\ This.phase \in {"running", "terminated"}
      BY <1>1, <1>10 DEF remove_frame, HasFocus, Dispatching
    <2>2. PICK t \in workspace_remove_frame(This, focus) : Become(t)
      BY <1>10 DEF remove_frame
    <2>3. /\ Whole(t) /\ t.g_screens = This.g_screens
          /\ t.be_screens = This.be_screens
          /\ t = This \/ Merges(This, t, focus)
      BY <1>1, <2>1, <2>2, RemoveFrameKeepsWhole
    <2>4. Still(This, t) \/ Loses(This, t, focus)
      BY <2>3 DEF Still, Loses
    <2> QED
      BY <2>1, <2>2, <2>3, <2>4 DEF Does
  <1>11. ASSUME next_win
         PROVE  \E t : Become(t) /\ Whole(t) /\ Does(This, t)
    <2> DEFINE f == focus
               t == workspace_next_hidden_win_at(This, f)
    <2>1. /\ Become(t) /\ f \in Leaves(This.split)
          /\ t = workspace_next_hidden_win_at(This, f)
      BY <1>1, <1>11 DEF next_win, HasFocus
    <2> HIDE DEF f, t
    <2>2. Whole(t)
      BY <1>1, <2>1, NextKeepsWhole
    <2>3. CASE This.hidden = <<>>
      <3>1. t = This
        BY <2>1, <2>3 DEF workspace_next_hidden_win_at
      <3> QED
        BY <2>1, <2>2, <3>1 DEF Does, Still
    <2>4. CASE This.hidden # <<>>
      <3>1. /\ Shows(This, t, Head(This.hidden), f, This.split[f].win)
            /\ t.hidden = Tail(This.hidden) \o Line(This.split[f].win)
        BY <1>1, <2>1, <2>4, NextDoes
      <3>2. Head(This.hidden) \in Window
        BY <3>1 DEF Shows
      <3>3. Fills(This, t, f)
        BY <2>4, <3>1, <3>2 DEF Fills
      <3> QED
        BY <2>1, <2>2, <3>3 DEF Does
    <2> QED
      BY <2>3, <2>4
  <1>12. ASSUME prev_win
         PROVE  \E t : Become(t) /\ Whole(t) /\ Does(This, t)
    <2> DEFINE f == focus
               t == workspace_prev_hidden_win_at(This, f)
    <2>1. /\ Become(t) /\ f \in Leaves(This.split)
          /\ t = workspace_prev_hidden_win_at(This, f)
      BY <1>1, <1>12 DEF prev_win, HasFocus
    <2> HIDE DEF f, t
    <2>2. Whole(t)
      BY <1>1, <2>1, PrevKeepsWhole
    <2>3. CASE This.hidden = <<>>
      <3>1. t = This
        BY <2>1, <2>3 DEF workspace_prev_hidden_win_at
      <3> QED
        BY <2>1, <2>2, <3>1 DEF Does, Still
    <2>4. CASE This.hidden # <<>>
      <3>1. /\ Shows(This, t, This.hidden[Len(This.hidden)], f, This.split[f].win)
            /\ t.hidden = Line(This.split[f].win)
                            \o SubSeq(This.hidden, 1, Len(This.hidden) - 1)
        BY <1>1, <2>1, <2>4, PrevDoes
      <3>2. This.hidden[Len(This.hidden)] \in Window
        BY <3>1 DEF Shows
      <3>3. Fills(This, t, f)
        BY <2>4, <3>1, <3>2 DEF Fills
      <3> QED
        BY <2>1, <2>2, <3>3 DEF Does
    <2> QED
      BY <2>3, <2>4
  <1>13. ASSUME quit \/ follow_dangling_focus \/ backend_free \/ UNCHANGED vars
         PROVE  \E t : Become(t) /\ Whole(t) /\ Does(This, t)
    <2>1. /\ split' = split /\ focus' = focus /\ be_focus' = be_focus
          /\ hidden' = hidden /\ frame' = frame /\ shown' = shown
          /\ g_screens' = g_screens /\ be_screens' = be_screens
      BY <1>13 DEF quit, follow_dangling_focus, backend_free, vars, Become, This
    <2>2. Become(This')
      BY DEF Become, This
    <2>3. Still(This, This')
      BY <2>1 DEF Still, This
    <2>4. Whole(This')
      BY <1>2 DEF IInv
    <2> QED
      BY <2>2, <2>3, <2>4 DEF Does
  <1>14. ASSUME compositor_main_cleanup
         PROVE  \E t : Become(t) /\ Whole(t) /\ Does(This, t)
    <2>1. /\ split' = [f \in Frame |-> NULL] /\ hidden' = <<>>
          /\ frame' = [w \in Window |-> NULL] /\ be_screens' = be_screens
      BY <1>14 DEF compositor_main_cleanup, Become, This
    <2>2. Become(This')
      BY DEF Become, This
    <2>3. /\ This'.split = split' /\ This'.hidden = hidden' /\ This'.frame = frame'
          /\ This'.be_screens = be_screens'
      BY DEF This
    <2>4. Whole(This') /\ Lit(This') /\ This' \in State
      BY <1>2 DEF IInv, Whole, Core
    <2>5. Clears(This, This')
      <3>1. Allocated(This'.split) = {}
        BY <2>1, <2>3 DEF Allocated
      <3>2. \A w \in Window : This'.frame[w] = NULL
        BY <2>1, <2>3
      <3>3. (\A w \in Window : This'.shown[w] = NULL) /\ This'.be_focus = NULL
        BY <2>4, <3>2 DEF Lit, State
      <3> QED
        BY <1>1, <2>1, <2>3, <3>1, <3>2, <3>3 DEF Clears
    <2> QED
      BY <2>2, <2>4, <2>5 DEF Does
  <1> QED
    BY <1>4, <1>5, <1>6, <1>7, <1>8, <1>9, <1>10, <1>11, <1>12, <1>13, <1>14
       DEF Next

-----------------------------------------------------------------------------
(* What no step does.                                                       *)

(* However many windows wait when an output is plugged in, rendering the    *)
(* workspace puts none of them on the list of that output, which be_screen  *)
(* has not initialised yet.                                                 *)
THEOREM OutputsStartEmpty == Spec => NewOutputStartsEmpty
PROOF
  <1>1. ASSUME NEW s, NEW t, Whole(s), Whole(t), Does(s, t),
               NEW screen \in t.be_screens \ s.be_screens, NEW w \in Window,
               t.shown[w] = screen
        PROVE  s.shown[w] = screen
    <2>1. screen # NULL
      BY <1>1, NullIsNoObject DEF Whole, Core, State
    <2>2. t.be_screens # s.be_screens
      BY <1>1
    <2>3. Rerendered(s, t)
      BY <1>1, <2>2 DEF Does, Still, Clears, Trades, Swaps, Unmaps, Fills, Shows,
                        Turns, Loses, Halves, Aside
    <2> QED
      BY <1>1, <2>1, <2>3 DEF Rerendered, Evicts
  <1>2. IInv /\ [Next]_vars =>
          \A screen \in be_screens' \ be_screens, w \in Window :
            shown'[w] = screen => shown[w] = screen
    <2> SUFFICES ASSUME IInv, [Next]_vars
                 PROVE  \A screen \in be_screens' \ be_screens, w \in Window :
                          shown'[w] = screen => shown[w] = screen
      OBVIOUS
    <2>1. PICK t : Become(t) /\ Whole(t) /\ Does(This, t)
      BY StepDoes
    <2>2. /\ be_screens' = t.be_screens /\ shown' = t.shown
          /\ This.be_screens = be_screens /\ This.shown = shown
      BY <2>1 DEF Become, This
    <2>3. Whole(This)
      BY DEF IInv
    <2> QED
      BY <1>1, <2>1, <2>2, <2>3
  <1> QED
    BY <1>2, Invariance, PTL DEF Spec, NewOutputStartsEmpty

(* KeyboardFollowsFocus, of a state record. *)
Follows(s) ==
  s.focus \in Leaves(s.split) /\ s.be_focus = s.split[s.focus].win

LEMMA PutWinLeaves ==
  ASSUME NEW h \in Heap, NEW f \in Leaves(h), NEW w \in Window \cup {NULL},
         NEW g, g = PutWin(h, f, w)
  PROVE  /\ Leaves(g) = Leaves(h) /\ Allocated(g) = Allocated(h) /\ g[f].win = w
         /\ \A x \in Leaves(h) \ {f} : g[x].win = h[x].win
         /\ \A x \in Allocated(h) : g[x].screen = h[x].screen
PROOF
  <1>1. f \in Allocated(h)
    BY DEF Leaves
  <1>2. /\ SameFrames(h, g) /\ g[f].win = w
        /\ \A x \in Frame : x # f => g[x] = h[x]
    BY <1>1, PutWinDoes
  <1> QED
    BY <1>2 DEF SameFrames, Leaves, Allocated

(* The window that be_focus names and the focused frame stay together,      *)
(* whichever of the handlers that splits, fills, swaps or empties frames    *)
(* runs.                                                                    *)
THEOREM KeyboardStaysOnFocus == Spec => KeyboardStaysWithFocus
PROOF
  <1>1. ASSUME NEW s, NEW t, Whole(s), Whole(t), Does(s, t), Follows(s),
               t.g_screens = s.g_screens,
               Allocated(s.split) \subseteq Allocated(t.split)
        PROVE  Follows(t)
    <2>1. /\ s \in State /\ s.split \in Heap /\ Framed(s, {})
          /\ s.focus \in Leaves(s.split) /\ s.be_focus = s.split[s.focus].win
          /\ s.focus \in Allocated(s.split)
      BY <1>1 DEF Whole, Core, State, Follows, Leaves
    <2>2. CASE Still(s, t)
      BY <2>1, <2>2 DEF Still, Follows
    <2>3. CASE Rerendered(s, t)
      BY <1>1, <2>3 DEF Rerendered
    <2>4. CASE Clears(s, t)
      BY <1>1, <2>1, <2>4 DEF Clears
    <2>5. CASE Trades(s, t)
      <3>1. PICK dst \in Leaves(s.split) : Swaps(s, t, s.focus, dst)
        BY <2>5 DEF Trades
      <3>2. /\ t.focus = dst /\ t.be_focus = s.be_focus
            /\ t.split[dst].win = s.split[s.focus].win
            /\ SameFrames(s.split, t.split)
        BY <3>1 DEF Swaps
      <3> QED
        BY <2>1, <3>2 DEF Follows, SameFrames, Leaves
    <2>6. ASSUME NEW f \in Leaves(s.split), NEW w \in Window, NEW old,
                 Shows(s, t, w, f, old)
          PROVE  Follows(t)
      <3>1. t.split = PutWin(s.split, f, w) /\ t.focus = f /\ t.be_focus = w
        BY <2>6 DEF Shows
      <3> QED
        BY <2>1, <3>1, PutWinLeaves DEF Follows
    <2>7. ASSUME NEW w \in s.windows, Unmaps(s, t, w)
          PROVE  Follows(t)
      <3> DEFINE f == s.frame[w]
      <3>1. f \in Leaves(s.split) \cup {NULL} /\ (f # NULL => s.split[f].win = w)
        BY <2>7 DEF Unmaps
      <3>2. CASE f = NULL
        <4>1. /\ t.split = s.split /\ t.focus = s.focus
              /\ t.be_focus = s.be_focus
          BY <2>7, <3>2 DEF Unmaps
        <4> QED
          BY <2>1, <4>1 DEF Follows
      <3>3. CASE f # NULL /\ s.hidden = <<>>
        <4>1. /\ t.split = PutWin(s.split, f, NULL) /\ t.focus = s.focus
              /\ t.be_focus = (IF s.be_focus = w THEN NULL ELSE s.be_focus)
          BY <2>7, <3>3 DEF Unmaps
        <4>2. /\ Leaves(t.split) = Leaves(s.split) /\ t.split[f].win = NULL
              /\ \A x \in Leaves(s.split) \ {f} : t.split[x].win = s.split[x].win
          BY <2>1, <3>1, <3>3, <4>1, PutWinLeaves
        <4>3. s.focus # f => s.be_focus # w
          BY <2>1, <2>7, NullIsNoObject DEF Framed, State
        <4> QED
          BY <2>1, <3>1, <3>3, <4>1, <4>2, <4>3 DEF Follows
      <3>4. CASE f # NULL /\ s.hidden # <<>>
        <4>1. Shows(s, t, Head(s.hidden), f, w)
          BY <2>7, <3>4 DEF Unmaps
        <4>2. Head(s.hidden) \in Window /\ f \in Leaves(s.split)
          BY <3>1, <3>4, <4>1 DEF Shows
        <4> QED
          BY <2>6, <4>1, <4>2
      <3> QED
        BY <3>2, <3>3, <3>4
    <2>8. ASSUME NEW f \in Leaves(s.split), Fills(s, t, f)
          PROVE  Follows(t)
      BY <2>6, <2>8 DEF Fills
    <2>9. ASSUME NEW f \in Leaves(s.split), Turns(s, t, f)
          PROVE  Follows(t)
      BY <2>9 DEF Turns, Follows
    <2>10. ASSUME NEW f \in Leaves(s.split), Loses(s, t, f)
           PROVE  Follows(t)
      BY <1>1, <2>10 DEF Loses, Merges, Leaves
    <2>11. ASSUME NEW f \in Leaves(s.split), NEW c0 \in Free(s.split),
                  NEW c1 \in Free(s.split), Halves(s, t, f, c0, c1)
           PROVE  Follows(t)
      BY <2>1, <2>11 DEF Halves, Follows
    <2> QED
      BY <1>1, <2>2, <2>3, <2>4, <2>5, <2>7, <2>8, <2>9, <2>10, <2>11 DEF Does
  <1>2. IInv /\ [Next]_vars =>
          (KeyboardFollowsFocus /\ ~Rerenders => KeyboardFollowsFocus')
    <2> SUFFICES ASSUME IInv, [Next]_vars, KeyboardFollowsFocus, ~Rerenders
                 PROVE  KeyboardFollowsFocus'
      OBVIOUS
    <2>1. PICK t : Become(t) /\ Whole(t) /\ Does(This, t)
      BY StepDoes
    <2>2. /\ split' = t.split /\ focus' = t.focus /\ be_focus' = t.be_focus
          /\ g_screens' = t.g_screens
          /\ This.split = split /\ This.focus = focus
          /\ This.be_focus = be_focus /\ This.g_screens = g_screens
      BY <2>1 DEF Become, This
    <2>3. Whole(This) /\ Follows(This)
      BY <2>2 DEF IInv, KeyboardFollowsFocus, Follows
    <2>4. /\ t.g_screens = This.g_screens
          /\ Allocated(This.split) \subseteq Allocated(t.split)
      BY <2>2 DEF Rerenders, Allocated
    <2>5. Follows(t)
      BY <1>1, <2>1, <2>3, <2>4
    <2> QED
      BY <2>2, <2>5 DEF Follows, KeyboardFollowsFocus, Leaves, Allocated
  <1> QED
    BY <1>2, Invariance, PTL DEF Spec, KeyboardStaysWithFocus

(* DrawnWhereFramed, of a state record. *)
Drawn(s) ==
  \A w \in Window : s.frame[w] # NULL => s.shown[w] = s.split[s.frame[w]].screen

LEMMA FramedIsAllocated ==
  ASSUME NEW s, Whole(s), NEW w \in Window, s.frame[w] # NULL
  PROVE  /\ s.frame[w] \in Allocated(s.split) /\ s.frame[w] \in Leaves(s.split)
         /\ s.split[s.frame[w]].win = w
PROOF
  <1>1. /\ s.frame[w] \in Allocated(s.split) /\ s.split[s.frame[w]].win = w
    BY DEF Whole, Core, Framed
  <1>2. s.split[s.frame[w]].isleaf
    BY <1>1, NullIsNoObject DEF Whole, Core, Framed
  <1> QED
    BY <1>1, <1>2 DEF Leaves

(* No handler that keeps the other screens in their places leaves a window   *)
(* shown on another screen than that of its frame: not the splitting of a    *)
(* frame, not the windows that change places (a move stays on its screen:    *)
(* MovesEndOnScreen), not the frame that is removed, not a new output.       *)
THEOREM DrawingIsKept == Spec => DrawingKept
PROOF
  <1>1. ASSUME NEW s, NEW t, Whole(s), Whole(t), Does(s, t), Drawn(s),
               Len(t.g_screens) < Len(s.g_screens) =>
                 t.g_screens = SubSeq(s.g_screens, 1, Len(t.g_screens)),
               \A dst \in Leaves(s.split), vertical, increasing \in BOOLEAN :
                 /\ s.phase \in {"running", "terminated"} /\ s.fault = "none"
                 /\ s.focus \in Leaves(s.split)
                 /\ dst = do_split_move(s.split, s.focus, vertical, increasing)
                 => s.split[dst].screen = s.split[s.focus].screen
        PROVE  Drawn(t)
    <2>1. s \in State /\ s.split \in Heap /\ Framed(s, {})
      BY <1>1 DEF Whole, Core, State
    <2>2. CASE Still(s, t)
      BY <1>1, <2>2 DEF Still, Drawn
    <2>3. CASE Rerendered(s, t)
      <3>1. PICK lost \in SUBSET Window : Evicts(s, t, lost)
        BY <2>3 DEF Rerendered
      <3>2. \A f \in Allocated(s.split) \cap Allocated(t.split) :
              t.split[f].screen = s.split[f].screen
        BY <1>1, <2>3 DEF Rerendered
      <3>3. ASSUME NEW w \in Window, t.frame[w] # NULL
            PROVE  t.shown[w] = t.split[t.frame[w]].screen
        <4>1. t.frame[w] = s.frame[w] /\ t.shown[w] = s.shown[w] /\ s.frame[w] # NULL
          BY <3>1, <3>3 DEF Evicts
        <4>2. s.frame[w] \in Allocated(s.split) \cap Allocated(t.split)
          BY <1>1, <3>3, <4>1, FramedIsAllocated
        <4> QED
          BY <1>1, <3>2, <4>1, <4>2 DEF Drawn
      <3> QED
        BY <3>3 DEF Drawn
    <2>4. CASE Clears(s, t)
      BY <2>4 DEF Clears, Drawn
    <2>5. CASE Trades(s, t)
      <3> DEFINE src == s.focus
      <3>1. PICK dst \in Leaves(s.split) :
              /\ Swaps(s, t, src, dst) /\ src \in Leaves(s.split)
              /\ s.split[dst].screen = s.split[src].screen
        BY <1>1, <2>5 DEF Trades
      <3>2. /\ SameFrames(s.split, t.split)
            /\ src \in Allocated(s.split) /\ dst \in Allocated(s.split)
        BY <3>1 DEF Swaps, Leaves
      <3> HIDE DEF src
      <3>3. ASSUME NEW v \in Window, t.frame[v] # NULL
            PROVE  t.shown[v] = t.split[t.frame[v]].screen
        <4>1. /\ t.shown[v] = s.shown[v]
              /\ t.frame[v] = IF v = s.split[dst].win THEN src
                              ELSE IF v = s.split[src].win THEN dst ELSE s.frame[v]
          BY <3>1 DEF Swaps
        <4>2. /\ v = s.split[dst].win => s.frame[v] = dst
              /\ v = s.split[src].win => s.frame[v] = src
          BY <2>1, <3>2, NullIsNoObject DEF Framed
        <4>3. s.frame[v] # NULL
          BY <3>2, <3>3, <4>1, <4>2, NullIsNoObject DEF Allocated
        <4>4. /\ s.frame[v] \in Allocated(s.split)
              /\ s.shown[v] = s.split[s.frame[v]].screen
          BY <1>1, <4>3, FramedIsAllocated DEF Drawn
        <4>5. /\ t.frame[v] \in Allocated(s.split)
              /\ s.split[t.frame[v]].screen = s.split[s.frame[v]].screen
          BY <3>1, <3>2, <4>1, <4>2, <4>4
        <4> QED
          BY <3>2, <4>1, <4>4, <4>5 DEF SameFrames
      <3> QED
        BY <3>3 DEF Drawn
    <2>6. ASSUME NEW f \in Leaves(s.split), NEW w \in Window, NEW old,
                 Shows(s, t, w, f, old)
          PROVE  Drawn(t)
      <3>1. f \in Allocated(s.split) /\ t.split = PutWin(s.split, f, w)
        BY <2>6 DEF Shows, Leaves
      <3>2. \A x \in Allocated(s.split) : t.split[x].screen = s.split[x].screen
        BY <2>1, <3>1, PutWinLeaves
      <3>3. ASSUME NEW v \in Window, t.frame[v] # NULL
            PROVE  t.shown[v] = t.split[t.frame[v]].screen
        <4>1. CASE v = w
          BY <2>6, <3>1, <3>2, <4>1 DEF Shows
        <4>2. CASE v # w
          <5>1. t.frame[v] = s.frame[v] /\ t.shown[v] = s.shown[v]
            BY <2>6, <3>3, <4>2 DEF Shows
          <5>2. s.frame[v] \in Allocated(s.split)
            BY <1>1, <3>3, <5>1, FramedIsAllocated
          <5> QED
            BY <1>1, <3>2, <3>3, <5>1, <5>2 DEF Drawn
        <4> QED
          BY <4>1, <4>2
      <3> QED
        BY <3>3 DEF Drawn
    <2>7. ASSUME NEW w \in s.windows, Unmaps(s, t, w)
          PROVE  Drawn(t)
      <3> DEFINE f == s.frame[w]
      <3>1. f \in Leaves(s.split) \cup {NULL}
        BY <2>7 DEF Unmaps
      <3>2. CASE f = NULL
        BY <1>1, <2>7, <3>2 DEF Unmaps, Drawn
      <3>3. CASE f # NULL /\ s.hidden = <<>>
        <4>1. /\ t.split = PutWin(s.split, f, NULL)
              /\ \A v \in Window : t.frame[v] = IF v = w THEN NULL ELSE s.frame[v]
              /\ \A v \in Window : t.shown[v] = IF v = w THEN NULL ELSE s.shown[v]
          BY <2>7, <3>3 DEF Unmaps
        <4>2. \A x \in Allocated(s.split) : t.split[x].screen = s.split[x].screen
          BY <2>1, <3>1, <3>3, <4>1, PutWinLeaves
        <4>3. ASSUME NEW v \in Window, t.frame[v] # NULL
              PROVE  t.shown[v] = t.split[t.frame[v]].screen
          <5>1. t.frame[v] = s.frame[v] /\ t.shown[v] = s.shown[v]
            BY <4>1, <4>3
          <5>2. s.frame[v] \in Allocated(s.split)
            BY <1>1, <4>3, <5>1, FramedIsAllocated
          <5> QED
            BY <1>1, <4>2, <4>3, <5>1, <5>2 DEF Drawn
        <4> QED
          BY <4>3 DEF Drawn
      <3>4. CASE f # NULL /\ s.hidden # <<>>
        <4>1. Shows(s, t, Head(s.hidden), f, w)
          BY <2>7, <3>4 DEF Unmaps
        <4>2. Head(s.hidden) \in Window /\ f \in Leaves(s.split)
          BY <3>1, <3>4, <4>1 DEF Shows
        <4> QED
          BY <2>6, <4>1, <4>2
      <3> QED
        BY <3>2, <3>3, <3>4
    <2>8. ASSUME NEW f \in Leaves(s.split), Fills(s, t, f)
          PROVE  Drawn(t)
      BY <2>6, <2>8 DEF Fills
    <2>9. ASSUME NEW f \in Leaves(s.split), Turns(s, t, f)
          PROVE  Drawn(t)
      BY <1>1, <2>9 DEF Turns, Drawn
    <2>10. ASSUME NEW f \in Leaves(s.split), Loses(s, t, f)
           PROVE  Drawn(t)
      BY <1>1, <2>10 DEF Loses, Merges, Drawn
    <2>11. ASSUME NEW f \in Leaves(s.split), NEW c0 \in Free(s.split),
                  NEW c1 \in Free(s.split), Halves(s, t, f, c0, c1)
           PROVE  Drawn(t)
      <3> DEFINE w == s.split[f].win
      <3>1. f \in Allocated(s.split) /\ f # NULL
        BY <2>1, LeafIsFrame, NullIsNoObject
      <3>2. /\ \A x \in Allocated(s.split) : t.split[x].screen = s.split[x].screen
            /\ t.split[c0].screen = s.split[f].screen
            /\ t.split[c1].screen = s.split[f].screen
        BY <2>11 DEF Halves
      <3>3. ASSUME NEW v \in Window, t.frame[v] # NULL
            PROVE  t.shown[v] = t.split[t.frame[v]].screen
        <4>1. CASE v = w
          <5>1. s.frame[v] = f
            BY <2>1, <3>1, <4>1, NullIsNoObject DEF Framed
          <5>2. s.hidden # <<>> => v # Head(s.hidden)
            <6>1. ASSUME s.hidden # <<>> PROVE s.frame[Head(s.hidden)] = NULL
              BY <1>1, <6>1, PopFirstLoosens DEF Whole
            <6> QED
              BY <3>1, <5>1, <6>1
          <5>3. t.frame[v] = c0 /\ t.shown[v] = s.shown[v]
            BY <2>11, <4>1, <5>2 DEF Halves
          <5> QED
            BY <1>1, <3>1, <3>2, <5>1, <5>3 DEF Drawn
        <4>2. CASE v # w /\ s.hidden # <<>> /\ v = Head(s.hidden)
          BY <2>11, <3>2, <4>2 DEF Halves
        <4>3. CASE v # w /\ ~(s.hidden # <<>> /\ v = Head(s.hidden))
          <5>1. t.frame[v] = s.frame[v] /\ t.shown[v] = s.shown[v]
            BY <2>11, <4>3 DEF Halves
          <5>2. s.frame[v] \in Allocated(s.split)
            BY <1>1, <3>3, <5>1, FramedIsAllocated
          <5> QED
            BY <1>1, <3>2, <3>3, <5>1, <5>2 DEF Drawn
        <4> QED
          BY <4>1, <4>2, <4>3
      <3> QED
        BY <3>3 DEF Drawn
    <2> QED
      BY <1>1, <2>2, <2>3, <2>4, <2>5, <2>7, <2>8, <2>9, <2>10, <2>11 DEF Does
  <1>2. IInv /\ MovesStayOnScreen /\ [Next]_vars =>
          (DrawnWhereFramed /\ ~LosesInnerScreen => DrawnWhereFramed')
    <2> SUFFICES ASSUME IInv, MovesStayOnScreen, [Next]_vars,
                        DrawnWhereFramed, ~LosesInnerScreen
                 PROVE  DrawnWhereFramed'
      OBVIOUS
    <2>1. PICK t : Become(t) /\ Whole(t) /\ Does(This, t)
      BY StepDoes
    <2>2. /\ split' = t.split /\ frame' = t.frame /\ shown' = t.shown
          /\ g_screens' = t.g_screens
          /\ This.split = split /\ This.focus = focus /\ This.frame = frame
          /\ This.shown = shown /\ This.g_screens = g_screens
          /\ This.phase = phase /\ This.fault = fault
      BY <2>1 DEF Become, This
    <2>3. Whole(This) /\ Drawn(This)
      BY <2>2 DEF IInv, DrawnWhereFramed, Drawn
    <2>4. Len(t.g_screens) < Len(This.g_screens) =>
            t.g_screens = SubSeq(This.g_screens, 1, Len(t.g_screens))
      BY <2>2 DEF LosesInnerScreen
    <2>5. ASSUME NEW dst \in Leaves(This.split), NEW vertical \in BOOLEAN,
                 NEW increasing \in BOOLEAN,
                 This.phase \in {"running", "terminated"}, This.fault = "none",
                 This.focus \in Leaves(This.split),
                 dst = do_split_move(This.split, This.focus, vertical, increasing)
          PROVE  This.split[dst].screen = This.split[This.focus].screen
      <3>1. HasFocus /\ dst = do_split_move(split, focus, vertical, increasing)
        BY <2>2, <2>5 DEF HasFocus, Dispatching
      <3>2. split[do_split_move(split, focus, vertical, increasing)].screen
              = split[focus].screen
        BY <3>1 DEF MovesStayOnScreen
      <3> QED
        BY <2>2, <3>1, <3>2
    <2>6. Drawn(t)
      BY <1>1, <2>1, <2>3, <2>4, <2>5
    <2> QED
      BY <2>2, <2>6 DEF Drawn, DrawnWhereFramed
  <1> QED
    BY <1>2, Invariance, MovesEndOnScreen, PTL DEF Spec, DrawingKept

-----------------------------------------------------------------------------
(* Workspace implements Placement.  The instance has copies of its own of   *)
(* the operators on queues.                                                 *)

LEMMA PromiseHasTheSameQueues ==
  /\ \A q : Promise!Elems(q) = Elems(q)
  /\ \A q, x : Promise!Without(q, x) = Without(q, x)
  /\ \A S : Promise!Orderings(S) = Orderings(S)
PROOF
  <1>1. /\ \A q : Promise!Elems(q) = Elems(q)
        /\ \A q : Promise!Distinct(q) = Distinct(q)
    BY DEF Promise!Elems, Elems, Promise!Distinct, Distinct
  <1>2. \A q, x : Promise!Without(q, x) = Without(q, x)
    BY <1>1 DEF Promise!Without, Without
  <1>3. \A S : Promise!Orderings(S) = Orderings(S)
    <2>1. \A S : Promise!Cardinality(S) = Cardinality(S)
      BY DEF Promise!Cardinality, Cardinality
    <2> QED
      BY <1>1, <2>1 DEF Promise!Orderings, Orderings
  <1> QED
    BY <1>1, <1>2, <1>3

LEMMA StepKeepsPromise ==
  ASSUME IInv, [Next]_vars
  PROVE  [Promise!Next]_(Promise!placed)
PROOF
  <1> DEFINE V == {w \in Window : frame[w] # NULL}
             s == This
  <1>1. PICK t : Become(t) /\ Whole(t) /\ Does(s, t)
    BY StepDoes
  <1>2. /\ s.frame = frame /\ s.hidden = hidden /\ s.be_focus = be_focus
        /\ frame' = t.frame /\ hidden' = t.hidden /\ be_focus' = t.be_focus
        /\ Whole(s)
    BY <1>1 DEF Become, This, IInv
  <1> HIDE DEF s
  <1>3. /\ s \in State /\ s.split \in Heap /\ Framed(s, {}) /\ Queued(s, {})
        /\ hidden \in Seq(Window) /\ s.windows \subseteq Window
        /\ be_focus \in Window \cup {NULL}
    BY <1>2 DEF Whole, Core, State
  <1>4. be_focus' \in V' \cup {NULL}
    <2>1. /\ t.be_focus \in Window \cup {NULL}
          /\ t.be_focus # NULL => t.frame[t.be_focus] # NULL
      BY <1>1 DEF Whole, Core, Lit, State
    <2> QED
      BY <1>2, <2>1
  <1>5. ASSUME NEW f \in Leaves(s.split)
        PROVE  s.split[f].win \in V \cup {NULL}
    <2>1. /\ f \in Allocated(s.split) /\ f # NULL
          /\ s.split[f].win \in Window \cup {NULL}
      BY <1>3, LeafIsFrame, NullIsNoObject DEF Node
    <2> QED
      BY <1>2, <1>3, <2>1 DEF Framed
  <1>6. ASSUME V' = V, hidden' = hidden, be_focus' = be_focus
        PROVE  [Promise!Next]_(Promise!placed)
    BY <1>6 DEF Promise!placed
  <1>7. ASSUME NEW o \in V \cup {NULL},
                \/ \E w \in Window : Promise!Map(w, o)
                \/ Promise!Advance(o)
                \/ Promise!Retreat(o)
         PROVE  Promise!Next
    BY ONLY <1>7 DEF Promise!Next
  <1>8. ASSUME NEW o \in V, Promise!Cover(o)
         PROVE  Promise!Next
    BY ONLY <1>8 DEF Promise!Next
  <1>9. CASE Still(s, t)
    BY <1>2, <1>6, <1>9 DEF Still
  <1>10. CASE Rerendered(s, t)
    <2>1. PICK lost \in SUBSET Window : Evicts(s, t, lost)
      BY <1>10 DEF Rerendered
    <2>2. lost \in SUBSET V /\ V' = V \ lost
      BY <1>2, <2>1 DEF Evicts
    <2>3. \E order \in Promise!Orderings(lost) : hidden' = hidden \o order
      BY <1>2, <2>1, PromiseHasTheSameQueues DEF Evicts
    <2>4. be_focus' = IF be_focus \in lost THEN NULL ELSE be_focus
      BY <1>2, <2>1 DEF Evicts
    <2>5. Promise!Evict(lost)
      BY <2>2, <2>3, <2>4 DEF Promise!Evict
    <2> QED
      BY <2>2, <2>5 DEF Promise!Next
  <1>11. CASE Clears(s, t)
    <2>1. Promise!Stop
      BY <1>2, <1>11 DEF Clears, Promise!Stop
    <2> QED
      BY <2>1 DEF Promise!Next
  <1>12. CASE Trades(s, t)
    <2>1. PICK src \in Leaves(s.split), dst \in Leaves(s.split) : Swaps(s, t, src, dst)
      BY <1>12 DEF Trades
    <2>2. /\ src \in Allocated(s.split) /\ dst \in Allocated(s.split)
          /\ src # NULL /\ dst # NULL
      BY <1>3, LeafIsFrame, NullIsNoObject
    <2>3. \A v \in Window : t.frame[v] # NULL <=> s.frame[v] # NULL
      BY <1>3, <2>1, <2>2, NullIsNoObject DEF Swaps, Framed
    <2> QED
      BY <1>2, <1>6, <2>1, <2>3 DEF Swaps
  <1>13. ASSUME NEW w \in s.windows, Unmaps(s, t, w)
         PROVE  [Promise!Next]_(Promise!placed)
    <2>1. w \in Window
      BY <1>3
    <2>2. CASE s.frame[w] = NULL
      <3>1. w \in Elems(hidden)
        BY <1>2, <1>3, <2>2 DEF Queued
      <3>2. /\ hidden' = Without(hidden, w) /\ be_focus' = be_focus
            /\ V' = V
        BY <1>2, <1>13, <2>2 DEF Unmaps
      <3>3. Promise!UnmapWaiting(w)
        BY <3>1, <3>2, PromiseHasTheSameQueues DEF Promise!UnmapWaiting
      <3> QED
        BY <2>1, <3>3 DEF Promise!Next
    <2>3. CASE s.frame[w] # NULL
      <3>1. Promise!UnmapVisible(w)
        <4>1. CASE hidden = <<>>
          <5>1. /\ hidden' = hidden
                /\ be_focus' = (IF be_focus = w THEN NULL ELSE be_focus)
                /\ w \in V /\ V' = V \ {w}
            BY <1>2, <1>13, <2>1, <2>3, <4>1 DEF Unmaps
          <5> QED
            BY <4>1, <5>1 DEF Promise!UnmapVisible
        <4>2. CASE hidden # <<>>
          <5>1. /\ Shows(s, t, Head(hidden), s.frame[w], w)
                /\ t.hidden = Tail(hidden)
            BY <1>2, <1>13, <2>3, <4>2 DEF Unmaps
          <5>2. /\ hidden' = Tail(hidden) /\ be_focus' = Head(hidden)
                /\ w \in V /\ V' = (V \ {w}) \cup {Head(hidden)}
            BY <1>2, <2>1, <2>3, <5>1 DEF Shows
          <5> QED
            BY <4>2, <5>2 DEF Promise!UnmapVisible
        <4> QED
          BY <4>1, <4>2
      <3> QED
        BY <2>1, <3>1 DEF Promise!Next
    <2> QED
      BY <2>2, <2>3
  <1>14. ASSUME NEW f \in Leaves(s.split), Fills(s, t, f)
         PROVE  [Promise!Next]_(Promise!placed)
    <2>1. PICK old : old = s.split[f].win
      OBVIOUS
    <2>2. PICK w \in Window :
            /\ Shows(s, t, w, f, old)
            /\ \/ w \notin s.windows /\ t.hidden = hidden \o Line(old)
               \/ /\ hidden # <<>> /\ w = Head(hidden)
                  /\ t.hidden = Tail(hidden) \o Line(old)
               \/ /\ hidden # <<>> /\ w = hidden[Len(hidden)]
                  /\ t.hidden = Line(old) \o SubSeq(hidden, 1, Len(hidden) - 1)
      BY <1>2, <1>14, <2>1 DEF Fills
    <2>3. old \in V \cup {NULL} /\ f # NULL
      BY <1>3, <1>5, <2>1, LeafIsFrame, NullIsNoObject
    <2>4. /\ be_focus' = w /\ w \notin V /\ V' = (V \ {old}) \cup {w}
      BY <1>2, <2>2, <2>3 DEF Shows
    <2>5. CASE w \notin s.windows /\ t.hidden = hidden \o Line(old)
      <3>1. w \notin Elems(hidden)
        BY <1>2, <1>3, <2>5 DEF Queued
      <3>2. Promise!Map(w, old)
        BY <1>2, <2>4, <2>5, <3>1, PromiseHasTheSameQueues DEF Promise!Map, Line
      <3> QED
        BY <1>7, <2>3, <3>2
    <2>6. CASE /\ hidden # <<>> /\ w = Head(hidden)
               /\ t.hidden = Tail(hidden) \o Line(old)
      <3>1. Promise!Advance(old)
        BY <1>2, <2>4, <2>6 DEF Promise!Advance, Line
      <3> QED
        BY <1>7, <2>3, <3>1
    <2>7. CASE /\ hidden # <<>> /\ w = hidden[Len(hidden)]
               /\ t.hidden = Line(old) \o SubSeq(hidden, 1, Len(hidden) - 1)
      <3>1. Promise!Retreat(old)
        BY <1>2, <2>4, <2>7 DEF Promise!Retreat, Line
      <3> QED
        BY <1>7, <2>3, <3>1
    <2> QED
      BY <2>2, <2>5, <2>6, <2>7
  <1>15. ASSUME NEW f \in Leaves(s.split), Turns(s, t, f)
         PROVE  [Promise!Next]_(Promise!placed)
    <2>1. V' = V /\ hidden' = hidden
      BY <1>2, <1>15 DEF Turns
    <2>2. Promise!MoveKeyboard
      BY <1>4, <2>1 DEF Promise!MoveKeyboard
    <2> QED
      BY <2>2 DEF Promise!Next
  <1>16. ASSUME NEW f \in Leaves(s.split), Loses(s, t, f)
         PROVE  [Promise!Next]_(Promise!placed)
    <2>1. PICK old : old = s.split[f].win
      OBVIOUS
    <2>2. /\ hidden' = (IF old = NULL THEN hidden ELSE Append(hidden, old))
          /\ \A v \in Window : t.frame[v] # NULL <=> v # old /\ s.frame[v] # NULL
      BY <1>2, <1>16, <2>1 DEF Loses, Merges
    <2>3. old \in V \cup {NULL}
      BY <1>5, <2>1
    <2>4. V' = V \ {old}
      BY <1>2, <2>2
    <2>5. CASE old = NULL
      <3>1. V' = V
        BY <2>4, <2>5, NullIsNoObject
      <3>2. Promise!MoveKeyboard
        BY <1>4, <2>2, <2>5, <3>1 DEF Promise!MoveKeyboard
      <3> QED
        BY <3>2 DEF Promise!Next
    <2>6. CASE old # NULL
      <3>1. hidden' = hidden \o Promise!Line(old)
        BY <1>3, <2>2, <2>3, <2>6 DEF Promise!Line
      <3>2. Promise!Cover(old)
        BY <1>4, <2>4, <3>1 DEF Promise!Cover
      <3> QED
        BY <1>8, <2>3, <2>6, <3>2
    <2> QED
      BY <2>5, <2>6
  <1>17. ASSUME NEW f \in Leaves(s.split), NEW c0 \in Free(s.split),
                NEW c1 \in Free(s.split), Halves(s, t, f, c0, c1)
         PROVE  [Promise!Next]_(Promise!placed)
    <2> DEFINE old == s.split[f].win
    <2>1. c0 # NULL /\ c1 # NULL /\ old \in V \cup {NULL}
      BY <1>5, NullIsNoObject DEF Free
    <2>2. /\ be_focus' = be_focus
          /\ hidden' = (IF hidden = <<>> THEN <<>> ELSE Tail(hidden))
          /\ \A v \in Window : t.frame[v] =
               IF v = old THEN c0
               ELSE IF hidden # <<>> /\ v = Head(hidden) THEN c1 ELSE s.frame[v]
      BY <1>2, <1>17 DEF Halves
    <2> HIDE DEF old
    <2>3. CASE hidden = <<>>
      <3>1. V' = V
        BY <1>2, <2>1, <2>2, <2>3, NullIsNoObject
      <3> QED
        BY <1>6, <2>2, <2>3, <3>1
    <2>4. CASE hidden # <<>>
      <3>1. Head(hidden) \in Window
        BY <1>3, <2>4
      <3>2. V' = V \cup {Head(hidden)}
        BY <1>2, <2>1, <2>2, <2>4, <3>1, NullIsNoObject
      <3>3. Promise!Uncover
        BY <2>2, <2>4, <3>2 DEF Promise!Uncover
      <3> QED
        BY <3>3 DEF Promise!Next
    <2> QED
      BY <2>3, <2>4
  <1> QED
    BY <1>1, <1>9, <1>10, <1>11, <1>12, <1>13, <1>14, <1>15, <1>16, <1>17 DEF Does

(* Trees, frames and screens are a way to keep the promise: whatever the    *)
(* user does and whatever comes and goes, every window is visible or waits  *)
(* once, those that make way queue up and come back in order, and the       *)
(* keyboard is never with a hidden one.                                     *)
THEOREM ImplementsPlacement == Spec => KeepsPromise
PROOF
  <1>1. Init => Promise!Init
    BY DEF Init, Promise!Init
  <1>2. IInv /\ [Next]_vars => [Promise!Next]_(Promise!placed)
    BY StepKeepsPromise
  <1> QED
    BY <1>1, <1>2, Invariance, PTL DEF Spec, KeepsPromise, Promise!Spec

-----------------------------------------------------------------------------
(* Drawing: fractions of a screen, and how frac_of() rounds them.           *)

(* Fractions with a denominator above zero, and their order.                *)
Rational == {x \in Int \X Int : x[2] > 0}
Same(a, b)   == a[1] * b[2] = b[1] * a[2]
AtMost(a, b) == a[1] * b[2] <= b[1] * a[2]

LEMMA Quotient ==
  ASSUME NEW p \in Int, NEW m \in Int, m > 0
  PROVE  p \div m \in Int /\ m * (p \div m) <= p /\ p < m * (p \div m + 1)
OBVIOUS

LEMMA QuotientsInOrder ==
  ASSUME NEW p \in Int, NEW q \in Int, NEW m \in Int, NEW n \in Int,
         m > 0, n > 0, p * n <= q * m
  PROVE  p \div m <= q \div n
PROOF
  <1> DEFINE u == p \div m
             v == q \div n
  <1>1. /\ u \in Int /\ v \in Int
        /\ m * u <= p /\ q < n * (v + 1)
    BY Quotient
  <1> HIDE DEF u, v
  <1> SUFFICES ASSUME u >= v + 1 PROVE FALSE
    BY <1>1 DEF u, v
  <1>2. n * (v + 1) <= n * u
    BY <1>1
  <1>3. q * m < (n * u) * m
    <2>1. q < n * u
      BY <1>1, <1>2
    <2> QED
      BY <1>1, <2>1
  <1>4. (m * u) * n <= p * n
    BY <1>1
  <1>5. (m * u) * n = (n * u) * m
    BY <1>1
  <1> QED
    BY <1>1, <1>3, <1>4, <1>5

LEMMA RoundingScaled ==
  ASSUME NEW x \in Int, NEW y \in Int, NEW u \in Int, NEW v \in Int, NEW k \in Int,
         NEW p, p = 2 * x * k + y, NEW q, q = 2 * u * k + v
  PROVE  /\ p \in Int /\ q \in Int
         /\ k >= 0 /\ x * v <= u * y => p * (2 * v) <= q * (2 * y)
         /\ x * v = u * y => p * (2 * v) = q * (2 * y)
PROOF
  <1>1. p \in Int /\ q \in Int
    OBVIOUS
  <1>2. p * (2 * v) = 4 * ((x * v) * k) + 2 * (y * v)
    OBVIOUS
  <1>3. q * (2 * y) = 4 * ((u * y) * k) + 2 * (y * v)
    OBVIOUS
  <1>4. x * v \in Int /\ u * y \in Int /\ y * v \in Int
    OBVIOUS
  <1>5. \A i, j, l \in Int :
          k >= 0 /\ i <= j => 4 * (i * k) + 2 * l <= 4 * (j * k) + 2 * l
    <2>1. \A i, j \in Int : k >= 0 /\ i <= j => i * k <= j * k
      OBVIOUS
    <2> QED
      BY <2>1
  <1> QED
    BY ONLY <1>1, <1>2, <1>3, <1>4, <1>5

(* Rounding keeps the order of two fractions, and does not depend on how a  *)
(* fraction is written.                                                     *)
LEMMA RoundingKeepsOrder ==
  ASSUME NEW a \in Rational, NEW b \in Rational, NEW size \in Int
  PROVE  /\ frac_of(a, size) \in Int
         /\ size >= 1 /\ AtMost(a, b) => frac_of(a, size) <= frac_of(b, size)
         /\ Same(a, b) => frac_of(a, size) = frac_of(b, size)
PROOF
  <1> DEFINE k == size - 1
             p == 2 * a[1] * k + a[2]
             q == 2 * b[1] * k + b[2]
             m == 2 * a[2]
             n == 2 * b[2]
  <1>1. /\ a[1] \in Int /\ a[2] \in Int /\ a[2] > 0
        /\ b[1] \in Int /\ b[2] \in Int /\ b[2] > 0
    BY DEF Rational
  <1>2. k \in Int /\ (size >= 1 => k >= 0)
    OBVIOUS
  <1>3. m \in Int /\ m > 0 /\ n \in Int /\ n > 0
    BY <1>1
  <1>4. frac_of(a, size) = p \div m /\ frac_of(b, size) = q \div n
    BY DEF frac_of
  <1> HIDE DEF k
  <1>5. /\ p \in Int /\ q \in Int
        /\ k >= 0 /\ AtMost(a, b) => p * n <= q * m
        /\ Same(a, b) => p * n = q * m
    <2> DEFINE x == a[1]
               y == a[2]
               u == b[1]
               v == b[2]
    <2>1. /\ p = 2 * x * k + y /\ q = 2 * u * k + v /\ n = 2 * v /\ m = 2 * y
          /\ AtMost(a, b) <=> x * v <= u * y
          /\ Same(a, b) <=> x * v = u * y
      BY DEF AtMost, Same
    <2>2. x \in Int /\ y \in Int /\ u \in Int /\ v \in Int
      BY <1>1
    <2> HIDE DEF x, y, u, v, p, q, m, n
    <2>3. /\ p \in Int /\ q \in Int
          /\ k >= 0 /\ x * v <= u * y => p * (2 * v) <= q * (2 * y)
          /\ x * v = u * y => p * (2 * v) = q * (2 * y)
      BY ONLY <1>2, <2>1, <2>2, RoundingScaled
    <2> QED
      BY <2>1, <2>3
  <1> HIDE DEF p, q, m, n
  <1>6. p \div m \in Int /\ q \div n \in Int
    BY <1>3, <1>5, Quotient
  <1>7. p * n <= q * m => p \div m <= q \div n
    BY <1>3, <1>5, QuotientsInOrder
  <1>8. q * m <= p * n => q \div n <= p \div m
    BY <1>3, <1>5, QuotientsInOrder
  <1>9. p * n \in Int /\ q * m \in Int
    BY <1>3, <1>5
  <1> QED
    BY <1>2, <1>4, <1>5, <1>6, <1>7, <1>8, <1>9

LEMMA BetweenScaled ==
  ASSUME NEW p \in Int, NEW q \in Int, NEW r \in Int, NEW s \in Int,
         NEW x \in Int, NEW y \in Int, q > 0, s > 0, 0 <= x, x <= y, p * s <= r * q,
         NEW m, m = p * s * y + (r * q - p * s) * x
  PROVE  p * (q * s * y) <= m * q /\ m * s <= r * (q * s * y)
PROOF
  <1> DEFINE d == r * q - p * s
  <1>1. d \in Int /\ d >= 0 /\ m \in Int
    OBVIOUS
  <1>2. m * q - p * (q * s * y) = (q * x) * d
    OBVIOUS
  <1>3. r * (q * s * y) - m * s = (s * (y - x)) * d
    OBVIOUS
  <1>4. q * x >= 0 /\ s * (y - x) >= 0
    OBVIOUS
  <1> HIDE DEF d
  <1>5. \A i, j \in Int : i >= 0 /\ j >= 0 => i * j >= 0
    OBVIOUS
  <1>6. (q * x) * d >= 0 /\ (s * (y - x)) * d >= 0
    <2>1. q * x \in Int /\ s * (y - x) \in Int
      OBVIOUS
    <2> QED
      BY ONLY <1>1, <1>4, <1>5, <2>1
  <1>7. /\ m * q \in Int /\ p * (q * s * y) \in Int
        /\ r * (q * s * y) \in Int /\ m * s \in Int
    BY <1>1
  <1> QED
    BY ONLY <1>2, <1>3, <1>6, <1>7

LEMMA BetweenIsBetween ==
  ASSUME NEW a \in Rational, NEW b \in Rational, NEW f \in Fraction,
         NEW m, m = Between(a, b, f)
  PROVE  /\ m \in Rational
         /\ AtMost(a, b) => AtMost(a, m) /\ AtMost(m, b)
PROOF
  <1> DEFINE p == a[1]
             q == a[2]
             r == b[1]
             s == b[2]
             x == f[1]
             y == f[2]
  <1>1. /\ p \in Int /\ q \in Int /\ q > 0 /\ r \in Int /\ s \in Int /\ s > 0
        /\ x \in Int /\ y \in Int /\ 0 <= x /\ x <= y /\ 0 < y
    BY DEF Rational, Fraction
  <1>2. m = << p * s * y + (r * q - p * s) * x, q * s * y >>
    BY DEF Between
  <1>3. /\ AtMost(a, b) <=> p * s <= r * q
        /\ AtMost(a, m) <=> p * m[2] <= m[1] * q
        /\ AtMost(m, b) <=> m[1] * s <= r * m[2]
    BY DEF AtMost
  <1> HIDE DEF p, q, r, s, x, y
  <1>4. /\ m[1] = p * s * y + (r * q - p * s) * x /\ m[2] = q * s * y
        /\ m[1] \in Int /\ m[2] \in Int
    BY <1>1, <1>2
  <1>5. m[2] > 0
    <2>1. \A i, j \in Int : i > 0 /\ j > 0 => i * j \in Int /\ i * j > 0
      OBVIOUS
    <2>2. q * s \in Int /\ q * s > 0
      BY ONLY <1>1, <2>1
    <2> QED
      BY ONLY <1>1, <1>4, <2>1, <2>2
  <1>6. m \in Rational
    BY <1>2, <1>4, <1>5 DEF Rational
  <1>7. p * s <= r * q => p * m[2] <= m[1] * q /\ m[1] * s <= r * m[2]
    BY ONLY <1>1, <1>4, BetweenScaled
  <1> QED
    BY <1>3, <1>6, <1>7

-----------------------------------------------------------------------------
(* A recursion that branches in two and collects where it ends has a        *)
(* solution, whether or not it ends everywhere.                             *)
Gathers(v, E, Ends, next0, next1) ==
  v = [y \in E |-> IF y \in Ends THEN {y} ELSE v[next0[y]] \cup v[next1[y]]]

LEMMA BranchingRecursion ==
  ASSUME NEW E, NEW Ends, NEW next0, NEW next1,
         \A y \in E \ Ends : next0[y] \in E /\ next1[y] \in E
  PROVE  \E v : Gathers(v, E, Ends, next0, next1)
PROOF
  <1> DEFINE Closed(S) == \A y \in S \ Ends : next0[y] \in S /\ next1[y] \in S
             Reached(x) == {z \in E : \A S \in SUBSET E :
                              x \in S /\ Closed(S) => z \in S}
             End(x) == Reached(x) \cap Ends
             v == [x \in E |-> End(x)]
  <1>1. ASSUME NEW x \in E \cap Ends PROVE End(x) = {x}
    <2>1. {x} \in SUBSET E /\ Closed({x})
      OBVIOUS
    <2>2. x \in Reached(x)
      OBVIOUS
    <2>3. \A z \in Reached(x) : z = x
      BY <2>1
    <2> QED
      BY <2>2, <2>3
  <1>2. ASSUME NEW x \in E \ Ends PROVE End(x) = End(next0[x]) \cup End(next1[x])
    <2>1. ASSUME NEW S \in SUBSET E, x \in S, Closed(S)
          PROVE  next0[x] \in S /\ next1[x] \in S
      BY <2>1
    <2>2. Reached(next0[x]) \subseteq Reached(x) /\ Reached(next1[x]) \subseteq Reached(x)
      BY <2>1
    <2>3. ASSUME NEW z \in End(x), z \notin Reached(next0[x]), z \notin Reached(next1[x])
          PROVE  FALSE
      <3>1. PICK S \in SUBSET E : next0[x] \in S /\ Closed(S) /\ z \notin S
        BY <2>3
      <3>2. PICK T \in SUBSET E : next1[x] \in T /\ Closed(T) /\ z \notin T
        BY <2>3
      <3> DEFINE U == S \cup T \cup {x}
      <3>3. U \in SUBSET E /\ x \in U /\ Closed(U)
        BY <3>1, <3>2
      <3>4. z \notin U
        BY <2>3, <3>1, <3>2
      <3> HIDE DEF U
      <3> QED
        BY <2>3, <3>3, <3>4
    <2> QED
      BY <2>2, <2>3
  <1> HIDE DEF End
  <1>3. ASSUME NEW y \in E
        PROVE  End(y) = IF y \in Ends THEN {y} ELSE v[next0[y]] \cup v[next1[y]]
    BY <1>1, <1>2
  <1>4. v = [y \in E |-> IF y \in Ends THEN {y} ELSE v[next0[y]] \cup v[next1[y]]]
    BY <1>3
  <1> QED
    BY <1>4 DEF Gathers

(* One round of the way down of do_at_each(), with the function that goes   *)
(* on.                                                                      *)
Near(n) == IF n.isvertical THEN "t" ELSE "l"
Far(n)  == IF n.isvertical THEN "b" ELSE "r"
Border(n, s) == Between(s[Near(n)], s[Far(n)], n.fraction)

First(h, at) ==
  << h[at[1]].frames[0],
     [at[2] EXCEPT ![Far(h[at[1]])] = Border(h[at[1]], at[2])] >>

Second(h, at) ==
  << h[at[1]].frames[1],
     [at[2] EXCEPT ![Near(h[at[1]])] = Border(h[at[1]], at[2])] >>

Cut(h, down, at) ==
  IF h[at[1]].isleaf THEN {<<at[1], at[2]>>}
  ELSE down[First(h, at)] \cup down[Second(h, at)]

Cutting(h) == CHOOSE down : down = [at \in Part(h) |-> Cut(h, down, at)]

LEMMA EachIsCut ==
  ASSUME NEW h, NEW r
  PROVE  do_at_each(h, r) = Cutting(h)[<<r, EntireScreen>>]
BY DEF do_at_each, Cutting, Cut, First, Second, Near, Far, Border

(* The parts of an inner node are parts again. *)
LEMMA CutsAreParts ==
  ASSUME NEW h \in Heap, NEW R, Forest(h, R),
         NEW at \in Part(h), ~h[at[1]].isleaf
  PROVE  /\ h[at[1]].isvertical \in BOOLEAN /\ h[at[1]].fraction \in Fraction
         /\ Border(h[at[1]], at[2]) \in Int \X Int
         /\ First(h, at) \in Part(h) /\ Second(h, at) \in Part(h)
PROOF
  <1> DEFINE n == h[at[1]]
             s == at[2]
             line == Border(n, s)
  <1>1. at[1] \in Allocated(h) /\ s \in Sides /\ n \in Node
    BY DEF Part, Heap, Allocated
  <1>2. n.frames[0] \in Allocated(h) /\ n.frames[1] \in Allocated(h)
    BY <1>1 DEF Forest, NodeOK
  <1>3. n.isvertical \in BOOLEAN /\ n.fraction \in Fraction
    BY <1>1 DEF Node
  <1>4. Near(n) \in {"t", "b", "l", "r"} /\ Far(n) \in {"t", "b", "l", "r"}
    BY DEF Near, Far
  <1>5. line \in Int \X Int
    <2>1. \A a, b \in Int \X Int, f \in Fraction : Between(a, b, f) \in Int \X Int
      BY DEF Between, Fraction
    <2> QED
      BY <1>1, <1>3, <1>4, <2>1 DEF Border, Sides
  <1>6. /\ [s EXCEPT ![Far(n)] = line] \in Sides
        /\ [s EXCEPT ![Near(n)] = line] \in Sides
    <2> HIDE DEF line, n, s
    <2> QED BY <1>1, <1>4, <1>5 DEF Sides
  <1> QED
    BY <1>2, <1>3, <1>5, <1>6 DEF First, Second, Part

LEMMA CuttingGoesOn ==
  ASSUME NEW h \in Heap, NEW R, Forest(h, R)
  PROVE  Cutting(h) = [at \in Part(h) |-> Cut(h, Cutting(h), at)]
PROOF
  <1> DEFINE E == Part(h)
             Ends == {at \in E : h[at[1]].isleaf}
             next0 == [at \in E |-> First(h, at)]
             next1 == [at \in E |-> Second(h, at)]
  <1>1. \A at \in E \ Ends : next0[at] \in E /\ next1[at] \in E
    BY CutsAreParts
  <1>2. ASSUME NEW v, NEW at \in E
        PROVE  (IF at \in Ends THEN {at} ELSE v[next0[at]] \cup v[next1[at]])
               = Cut(h, v, at)
    <2>1. at = <<at[1], at[2]>>
      BY DEF Part
    <2> QED
      BY <2>1 DEF Cut
  <1>3. PICK v : Gathers(v, E, Ends, next0, next1)
    <2> HIDE DEF E, Ends, next0, next1
    <2> QED BY <1>1, BranchingRecursion
  <1>4. v = [at \in E |-> Cut(h, v, at)]
    <2>1. v = [at \in E |-> IF at \in Ends THEN {at} ELSE v[next0[at]] \cup v[next1[at]]]
      BY <1>3 DEF Gathers
    <2> HIDE DEF E, Ends, next0, next1
    <2> QED BY <1>2, <2>1
  <1> QED
    BY <1>4 DEF Cutting

-----------------------------------------------------------------------------
(* The leaves tile the screen.                                              *)

(* Sides that are fractions in their order. *)
Proper(s) ==
  /\ s \in Sides /\ \A side \in {"t", "b", "l", "r"} : s[side] \in Rational
  /\ AtMost(s["t"], s["b"]) /\ AtMost(s["l"], s["r"])

Covers(s, x, y) == Inside(x, y, redraw_frame(s))

LEMMA CoversBetween ==
  ASSUME NEW s, Proper(s), NEW x \in Int, NEW y \in Int
  PROVE  /\ Covers(s, x, y) <=>
              /\ frac_of(s["l"], Width) <= x /\ x < frac_of(s["r"], Width)
              /\ frac_of(s["t"], Height) <= y /\ y < frac_of(s["b"], Height)
         /\ frac_of(s["l"], Width) \in Int /\ frac_of(s["r"], Width) \in Int
         /\ frac_of(s["t"], Height) \in Int /\ frac_of(s["b"], Height) \in Int
PROOF
  <1>1. /\ frac_of(s["l"], Width) \in Int /\ frac_of(s["r"], Width) \in Int
        /\ frac_of(s["t"], Height) \in Int /\ frac_of(s["b"], Height) \in Int
    <2>1. Width \in Int /\ Height \in Int
      BY SizeAssumption
    <2> QED
      BY <2>1, RoundingKeepsOrder DEF Proper
  <1> QED
    BY <1>1 DEF Covers, Inside, redraw_frame

(* A node that is cut leaves each of its pixels to one of the parts, and    *)
(* gives them no other.                                                     *)
LEMMA PartsTile ==
  ASSUME NEW h \in Heap, NEW R, Forest(h, R), Width >= 1, Height >= 1,
         NEW at \in Part(h), ~h[at[1]].isleaf, Proper(at[2])
  PROVE  /\ Proper(First(h, at)[2]) /\ Proper(Second(h, at)[2])
         /\ \A x, y \in Int :
              /\ Covers(at[2], x, y) <=>
                   Covers(First(h, at)[2], x, y) \/ Covers(Second(h, at)[2], x, y)
              /\ ~(Covers(First(h, at)[2], x, y) /\ Covers(Second(h, at)[2], x, y))
PROOF
  <1> DEFINE n == h[at[1]]
             s == at[2]
             line == Border(n, s)
             s0 == [s EXCEPT ![Far(n)] = line]
             s1 == [s EXCEPT ![Near(n)] = line]
  <1>1. /\ First(h, at)[2] = s0 /\ Second(h, at)[2] = s1
        /\ Proper(s) /\ s0 \in Sides /\ s1 \in Sides
        /\ n.isvertical \in BOOLEAN /\ n.fraction \in Fraction
    BY CutsAreParts DEF First, Second, Part
  <1> HIDE DEF n
  <1>2. /\ line \in Rational
        /\ AtMost(s[Near(n)], line) /\ AtMost(line, s[Far(n)])
    <2>1. /\ s[Near(n)] \in Rational /\ s[Far(n)] \in Rational
          /\ AtMost(s[Near(n)], s[Far(n)])
      BY <1>1 DEF Proper, Near, Far
    <2> DEFINE near == s[Near(n)]
               far  == s[Far(n)]
               cut  == n.fraction
    <2>2. line = Between(near, far, cut)
      BY DEF Border
    <2>3. near \in Rational /\ far \in Rational /\ cut \in Fraction /\ AtMost(near, far)
      BY <1>1, <2>1
    <2> HIDE DEF line, near, far, cut
    <2>4. line \in Rational /\ AtMost(near, line) /\ AtMost(line, far)
      BY <2>2, <2>3, BetweenIsBetween
    <2> QED
      BY <2>4 DEF near, far
  <1> HIDE DEF line, s
  <1>3. /\ s \in [{"t", "b", "l", "r"} -> Int \X Int]
        /\ Width \in Int /\ Height \in Int
    BY <1>1, SizeAssumption DEF Sides, Proper
  <1>4. CASE n.isvertical
    <2>1. /\ s0["t"] = s["t"] /\ s0["b"] = line /\ s0["l"] = s["l"] /\ s0["r"] = s["r"]
          /\ s1["t"] = line /\ s1["b"] = s["b"] /\ s1["l"] = s["l"] /\ s1["r"] = s["r"]
      BY <1>3, <1>4 DEF Near, Far
    <2>2. AtMost(s["t"], line) /\ AtMost(line, s["b"])
      BY <1>2, <1>4 DEF Near, Far
    <2> HIDE DEF s0, s1
    <2>3. Proper(s0) /\ Proper(s1)
      BY <1>1, <1>2, <2>1, <2>2 DEF Proper
    <2>4. /\ frac_of(s["t"], Height) <= frac_of(line, Height)
          /\ frac_of(line, Height) <= frac_of(s["b"], Height)
      BY <1>1, <1>2, <1>3, <2>2, RoundingKeepsOrder DEF Proper
    <2>5. ASSUME NEW x \in Int, NEW y \in Int
          PROVE  /\ Covers(s, x, y) <=> Covers(s0, x, y) \/ Covers(s1, x, y)
                 /\ ~(Covers(s0, x, y) /\ Covers(s1, x, y))
      <3>1. /\ Covers(s, x, y) <=>
                 /\ frac_of(s["l"], Width) <= x /\ x < frac_of(s["r"], Width)
                 /\ frac_of(s["t"], Height) <= y /\ y < frac_of(s["b"], Height)
            /\ frac_of(s["t"], Height) \in Int /\ frac_of(s["b"], Height) \in Int
        BY <1>1, CoversBetween
      <3>2. /\ Covers(s0, x, y) <=>
                 /\ frac_of(s["l"], Width) <= x /\ x < frac_of(s["r"], Width)
                 /\ frac_of(s["t"], Height) <= y /\ y < frac_of(line, Height)
            /\ frac_of(line, Height) \in Int
        BY <2>1, <2>3, CoversBetween
      <3>3. Covers(s1, x, y) <=>
                 /\ frac_of(s["l"], Width) <= x /\ x < frac_of(s["r"], Width)
                 /\ frac_of(line, Height) <= y /\ y < frac_of(s["b"], Height)
        BY <2>1, <2>3, CoversBetween
      <3> QED
        BY <2>4, <3>1, <3>2, <3>3
    <2> QED
      BY <1>1, <2>3, <2>5 DEF s
  <1>5. CASE ~n.isvertical
    <2>1. /\ s0["t"] = s["t"] /\ s0["b"] = s["b"] /\ s0["l"] = s["l"] /\ s0["r"] = line
          /\ s1["t"] = s["t"] /\ s1["b"] = s["b"] /\ s1["l"] = line /\ s1["r"] = s["r"]
      BY <1>3, <1>5 DEF Near, Far
    <2>2. AtMost(s["l"], line) /\ AtMost(line, s["r"])
      BY <1>2, <1>5 DEF Near, Far
    <2> HIDE DEF s0, s1
    <2>3. Proper(s0) /\ Proper(s1)
      BY <1>1, <1>2, <2>1, <2>2 DEF Proper
    <2>4. /\ frac_of(s["l"], Width) <= frac_of(line, Width)
          /\ frac_of(line, Width) <= frac_of(s["r"], Width)
      BY <1>1, <1>2, <1>3, <2>2, RoundingKeepsOrder DEF Proper
    <2>5. ASSUME NEW x \in Int, NEW y \in Int
          PROVE  /\ Covers(s, x, y) <=> Covers(s0, x, y) \/ Covers(s1, x, y)
                 /\ ~(Covers(s0, x, y) /\ Covers(s1, x, y))
      <3>1. /\ Covers(s, x, y) <=>
                 /\ frac_of(s["l"], Width) <= x /\ x < frac_of(s["r"], Width)
                 /\ frac_of(s["t"], Height) <= y /\ y < frac_of(s["b"], Height)
            /\ frac_of(s["l"], Width) \in Int /\ frac_of(s["r"], Width) \in Int
        BY <1>1, CoversBetween
      <3>2. /\ Covers(s0, x, y) <=>
                 /\ frac_of(s["l"], Width) <= x /\ x < frac_of(line, Width)
                 /\ frac_of(s["t"], Height) <= y /\ y < frac_of(s["b"], Height)
            /\ frac_of(line, Width) \in Int
        BY <2>1, <2>3, CoversBetween
      <3>3. Covers(s1, x, y) <=>
                 /\ frac_of(line, Width) <= x /\ x < frac_of(s["r"], Width)
                 /\ frac_of(s["t"], Height) <= y /\ y < frac_of(s["b"], Height)
        BY <2>1, <2>3, CoversBetween
      <3> QED
        BY <2>4, <3>1, <3>2, <3>3
    <2> QED
      BY <1>1, <2>3, <2>5 DEF s
  <1> QED
    BY <1>1, <1>4, <1>5

(* One of the parts in P covers the pixel if in holds, and else none does.  *)
Once(P, x, y, in) ==
  IF in THEN \E d \in P : /\ Covers(d[2], x, y)
                         /\ \A e \in P : Covers(e[2], x, y) => e = d
  ELSE \A e \in P : ~Covers(e[2], x, y)

Tiled(h, g) ==
  \A s \in Sides, x, y \in Int :
    Proper(s) => Once(Cutting(h)[<<g, s>>], x, y, Covers(s, x, y))

(* By the way the frames are collected from the leaves up, what holds of a  *)
(* frame as soon as it holds of its children holds of every frame.          *)
LEMMA AllTiled ==
  ASSUME NEW h \in Heap, NEW R, Forest(h, R), Width >= 1, Height >= 1
  PROVE  \A g \in Allocated(h) : Tiled(h, g)
PROOF
  <1> DEFINE S == {g \in Allocated(h) : Tiled(h, g)}
  <1>1. ASSUME NEW g \in Allocated(h),
               h[g].isleaf \/ (h[g].frames[0] \in S /\ h[g].frames[1] \in S),
               NEW s \in Sides, NEW x \in Int, NEW y \in Int, Proper(s)
        PROVE  Once(Cutting(h)[<<g, s>>], x, y, Covers(s, x, y))
    <2> DEFINE at == <<g, s>>
               a == First(h, at)
               b == Second(h, at)
    <2>1. at \in Part(h) /\ at[1] = g /\ at[2] = s
      BY DEF Part
    <2>2. Cutting(h)[at] = Cut(h, Cutting(h), at)
      BY <2>1, CuttingGoesOn
    <2> HIDE DEF at
    <2>3. CASE h[g].isleaf
      <3>1. Cutting(h)[at] = {<<g, s>>}
        BY <2>1, <2>2, <2>3 DEF Cut
      <3> QED
        BY <3>1 DEF Once, at
    <2>4. CASE ~h[g].isleaf
      <3>1. Cutting(h)[at] = Cutting(h)[a] \cup Cutting(h)[b]
        BY <2>1, <2>2, <2>4 DEF Cut
      <3>2. /\ a \in Part(h) /\ b \in Part(h)
            /\ a[1] = h[g].frames[0] /\ b[1] = h[g].frames[1]
        BY <2>1, <2>4, CutsAreParts DEF First, Second
      <3>3. /\ a = <<a[1], a[2]>> /\ b = <<b[1], b[2]>>
            /\ a[2] \in Sides /\ b[2] \in Sides
        BY <3>2 DEF Part
      <3>4. /\ Proper(a[2]) /\ Proper(b[2])
            /\ Covers(s, x, y) <=> Covers(a[2], x, y) \/ Covers(b[2], x, y)
            /\ ~(Covers(a[2], x, y) /\ Covers(b[2], x, y))
        <4>1. /\ Proper(a[2]) /\ Proper(b[2])
              /\ \A i, j \in Int :
                   /\ Covers(at[2], i, j) <=> Covers(a[2], i, j) \/ Covers(b[2], i, j)
                   /\ ~(Covers(a[2], i, j) /\ Covers(b[2], i, j))
          BY <1>1, <2>1, <2>4, PartsTile
        <4> QED
          BY <2>1, <4>1
      <3>5. Tiled(h, a[1]) /\ Tiled(h, b[1])
        BY <1>1, <2>4, <3>2
      <3> HIDE DEF a, b
      <3>6. /\ Once(Cutting(h)[a], x, y, Covers(a[2], x, y))
            /\ Once(Cutting(h)[b], x, y, Covers(b[2], x, y))
        BY <3>3, <3>4, <3>5 DEF Tiled
      <3> QED
        BY <3>1, <3>4, <3>6 DEF Once, at
    <2> QED
      BY <2>3, <2>4
  <1>2. Collected(h, S)
    BY <1>1 DEF Collected, Tiled
  <1>3. S = Allocated(h)
    <2> HIDE DEF S
    <2>1. S \in SUBSET Allocated(h)
      BY DEF S
    <2> QED
      BY <1>2, <2>1 DEF Forest, Grounded
  <1> QED
    BY <1>3

LEMMA DrawingIsStep == DrawNext => Next
PROOF
  <1>1. screens_change => Next
    BY DEF screens_change, Next
  <1>2. window_comes \/ window_goes => Next
    BY DEF window_comes, window_goes, Next
  <1>3. frame_splits => Next
    BY DEF frame_splits, Next
  <1>4. windows_swap => Next
    BY DEF windows_swap, Next
  <1>5. frame_goes \/ queue_turns \/ windows_dropped => Next
    BY DEF frame_goes, queue_turns, windows_dropped, Next
  <1>6. undrawn => Next
    BY DEF undrawn, Next
  <1> QED
    BY <1>1, <1>2, <1>3, <1>4, <1>5, <1>6 DEF DrawNext

LEMMA DrawingKeeps == IInv /\ [DrawNext]_drawing => IInv'
PROOF
  <1>1. DrawNext => [Next]_vars
    BY DrawingIsStep
  <1>2. UNCHANGED drawing => [Next]_vars
    BY DEF drawing
  <1> QED
    BY <1>1, <1>2, NextKeeps

(* Drawing adds what is told to the steps of Workspace, so that the same    *)
(* invariant of trees, windows and screens holds in its states.             *)
THEOREM DrawingInvariance == DrawSpec => []IInv
PROOF
  <1>1. DrawInit => IInv
    BY InitEstablishes DEF DrawInit
  <1> QED
    BY <1>1, DrawingKeeps, PTL DEF DrawSpec

LEMMA EntireIsProper ==
  /\ EntireScreen \in Sides /\ Proper(EntireScreen)
  /\ EntireScreen["t"] = Zero /\ EntireScreen["l"] = Zero
  /\ EntireScreen["b"] = One /\ EntireScreen["r"] = One
PROOF
  <1>1. /\ EntireScreen["t"] = Zero /\ EntireScreen["l"] = Zero
        /\ EntireScreen["b"] = One /\ EntireScreen["r"] = One
    BY DEF EntireScreen
  <1>2. Zero \in Rational /\ One \in Rational /\ AtMost(Zero, One)
    BY DEF Zero, One, Rational, AtMost
  <1>3. EntireScreen \in Sides
    <2>1. Zero \in Int \X Int /\ One \in Int \X Int
      BY DEF Zero, One
    <2> QED
      BY <2>1 DEF EntireScreen, Sides
  <1> QED
    BY <1>1, <1>2, <1>3 DEF Proper

(* For screens of any size and any tree of frames, rounding the borders     *)
(* gives every pixel but those of the last row and column to one leaf.      *)
THEOREM LeavesTileScreens == DrawSpec => []LeavesTile
PROOF
  <1>1. IInv => LeavesTile
    <2> SUFFICES ASSUME IInv, NEW r \in Elems(roots),
                        NEW x \in 0..(Width - 2), NEW y \in 0..(Height - 2)
                 PROVE  Cardinality({d \in do_at_each(split, r) :
                                       Inside(x, y, redraw_frame(d[2]))}) = 1
      BY DEF LeavesTile
    <2>1. /\ split \in Heap /\ Forest(split, Elems(roots))
      BY DEF IInv, Whole, Core, Trees, State, This
    <2>2. r \in Allocated(split)
      BY <2>1 DEF Forest
    <2>3. /\ Width \in Int /\ Height \in Int /\ Width >= 1 /\ Height >= 1
          /\ x \in Int /\ y \in Int
      BY SizeAssumption
    <2> DEFINE P == Cutting(split)[<<r, EntireScreen>>]
    <2>4. do_at_each(split, r) = P
      BY EachIsCut
    <2>5. Covers(EntireScreen, x, y)
      <3>1. /\ frac_of(Zero, Width) = 0 /\ frac_of(One, Width) = Width - 1
            /\ frac_of(Zero, Height) = 0 /\ frac_of(One, Height) = Height - 1
        BY <2>3 DEF frac_of, Zero, One
      <3> QED
        BY <2>3, <3>1, EntireIsProper, CoversBetween
    <2>6. Once(P, x, y, Covers(EntireScreen, x, y))
      BY <2>1, <2>2, <2>3, AllTiled, EntireIsProper DEF Tiled
    <2> HIDE DEF P
    <2>7. PICK d \in P : Covers(d[2], x, y) /\ \A e \in P : Covers(e[2], x, y) => e = d
      BY <2>5, <2>6 DEF Once
    <2>8. {e \in P : Covers(e[2], x, y)} = {d}
      BY <2>7
    <2>9. Cardinality({d}) = 1
      BY FS_Singleton
    <2> QED
      BY <2>4, <2>8, <2>9 DEF Covers
  <1> QED
    BY <1>1, DrawingInvariance, PTL

-----------------------------------------------------------------------------
(* Up and down give a frame the same sides.                                 *)

(* The fraction t of the span from a to b, whose own fraction x lies before *)
(* and after the border of a cut; q and s, y and j are denominators.        *)
LEMMA SpanOfSpan ==
  ASSUME NEW p \in Int, NEW q \in Int, NEW r \in Int, NEW s \in Int,
         NEW x \in Int, NEW y \in Int, NEW i \in Int, NEW j \in Int,
         NEW d, d = r * q - p * s,
         NEW m, m = p * s * y + d * x
  PROVE  /\ p * (q * s * y) * j + (m * q - p * (q * s * y)) * i
              = q * (p * s * (y * j) + d * (x * i))
         /\ m * s * j + (r * (q * s * y) - m * s) * i
              = s * (p * s * (y * j) + d * (x * j + (y - x) * i))
PROOF
  <1>1. d \in Int /\ m \in Int
    OBVIOUS
  <1>2. m * q - p * (q * s * y) = q * (d * x)
    OBVIOUS
  <1>3. r * (q * s * y) - m * s = s * (d * (y - x))
    OBVIOUS
  <1>4. p * (q * s * y) * j + (q * (d * x)) * i = q * (p * s * (y * j) + d * (x * i))
    BY ONLY <1>1, p \in Int, q \in Int, s \in Int, x \in Int, y \in Int,
            i \in Int, j \in Int
  <1>5. m * s * j + (s * (d * (y - x))) * i
          = s * (p * s * (y * j) + d * (x * j + (y - x) * i))
    <2>1. m * s * j = s * (p * s * (y * j) + d * (x * j))
      BY <1>1
    <2>2. (s * (d * (y - x))) * i = s * (d * ((y - x) * i))
      BY <1>1
    <2>3. p * s * (y * j) \in Int /\ d * (x * j) \in Int /\ d * ((y - x) * i) \in Int
      BY <1>1
    <2>4. d * (x * j + (y - x) * i) = d * (x * j) + d * ((y - x) * i)
      BY <1>1
    <2> QED
      BY <2>1, <2>2, <2>3, <2>4
  <1> QED
    BY <1>2, <1>3, <1>4, <1>5

LEMMA BetweenIsRational ==
  ASSUME NEW a \in Rational, NEW b \in Rational, NEW f \in Rational
  PROVE  /\ Between(a, b, f) \in Rational
         /\ Between(a, b, f)[1] = a[1] * b[2] * f[2] + (b[1] * a[2] - a[1] * b[2]) * f[1]
         /\ Between(a, b, f)[2] = a[2] * b[2] * f[2]
PROOF
  <1> DEFINE q == a[2]
             s == b[2]
             y == f[2]
  <1>1. /\ q \in Int /\ q > 0 /\ s \in Int /\ s > 0 /\ y \in Int /\ y > 0
        /\ a[1] \in Int /\ b[1] \in Int /\ f[1] \in Int
    BY DEF Rational
  <1>2. q * s * y \in Int /\ q * s * y > 0
    <2> HIDE DEF q, s, y
    <2>1. \A i, j \in Int : i > 0 /\ j > 0 => i * j \in Int /\ i * j > 0
      OBVIOUS
    <2>2. q * s \in Int /\ q * s > 0
      BY ONLY <1>1, <2>1
    <2> QED
      BY ONLY <1>1, <2>1, <2>2
  <1>3. a[1] * s * y + (b[1] * q - a[1] * s) * f[1] \in Int
    BY <1>1
  <1> QED
    BY <1>2, <1>3 DEF Between, Rational

LEMMA SameIsTransitive ==
  ASSUME NEW a \in Rational, NEW b \in Rational, NEW c \in Rational,
         Same(a, b), Same(b, c)
  PROVE  Same(a, c) /\ Same(b, a)
PROOF
  <1> DEFINE p == a[1]
             q == a[2]
             r == b[1]
             s == b[2]
             x == c[1]
             y == c[2]
  <1>1. /\ p \in Int /\ q \in Int /\ r \in Int /\ s \in Int /\ s > 0
        /\ x \in Int /\ y \in Int /\ p * s = r * q /\ r * y = x * s
    BY DEF Rational, Same
  <1>2. (Same(a, c) <=> p * y = x * q) /\ (Same(b, a) <=> r * q = p * s)
    BY DEF Same
  <1> HIDE DEF p, q, r, s, x, y
  <1>3. (p * y) * s = (x * q) * s
    <2>1. (p * y) * s = (p * s) * y
      BY <1>1
    <2>2. (r * q) * y = (r * y) * q
      BY <1>1
    <2>3. (x * s) * q = (x * q) * s
      BY <1>1
    <2> QED
      BY <1>1, <2>1, <2>2, <2>3
  <1>4. \A i, j \in Int : i * s = j * s => i = j
    BY <1>1
  <1>5. p * y \in Int /\ x * q \in Int
    BY <1>1
  <1> QED
    BY <1>1, <1>2, <1>3, <1>4, <1>5

(* Scaling into a part of a span, and then into the span, is scaling into   *)
(* the part that was cut from the span.                                     *)
LEMMA CutThenScale ==
  ASSUME NEW a \in Rational, NEW b \in Rational, NEW f \in Rational,
         NEW t \in Rational
  PROVE  /\ Same(Between(a, b, Between(Zero, f, t)), Between(a, Between(a, b, f), t))
         /\ Same(Between(a, b, Between(f, One, t)), Between(Between(a, b, f), b, t))
PROOF
  <1> DEFINE p == a[1]
             q == a[2]
             r == b[1]
             s == b[2]
             x == f[1]
             y == f[2]
             i == t[1]
             j == t[2]
             d == r * q - p * s
             m == p * s * y + d * x
  <1>1. /\ p \in Int /\ q \in Int /\ r \in Int /\ s \in Int
        /\ x \in Int /\ y \in Int /\ i \in Int /\ j \in Int
        /\ Zero \in Rational /\ One \in Rational
        /\ Zero[1] = 0 /\ Zero[2] = 1 /\ One[1] = 1 /\ One[2] = 1
    BY DEF Rational, Zero, One
  <1> DEFINE k == Between(a, b, f)
             u == Between(Zero, f, t)
             v == Between(f, One, t)
  <1>2. k \in Rational /\ k[1] = m /\ k[2] = q * s * y
    BY BetweenIsRational
  <1>3. u \in Rational /\ u[1] = x * i /\ u[2] = y * j
    <2>1. u \in Rational /\ u[1] = 0 * y * j + (x * 1 - 0 * y) * i /\ u[2] = 1 * y * j
      BY <1>1, BetweenIsRational
    <2>2. 0 * y * j + (x * 1 - 0 * y) * i = x * i /\ 1 * y * j = y * j
      BY ONLY <1>1
    <2> QED
      BY <2>1, <2>2
  <1>4. v \in Rational /\ v[1] = x * j + (y - x) * i /\ v[2] = y * j
    <2>1. v \in Rational /\ v[1] = x * 1 * j + (1 * y - x * 1) * i /\ v[2] = y * 1 * j
      BY <1>1, BetweenIsRational
    <2>2. /\ x * 1 * j + (1 * y - x * 1) * i = x * j + (y - x) * i
          /\ y * 1 * j = y * j
      BY ONLY <1>1
    <2> QED
      BY <2>1, <2>2
  <1> HIDE DEF k, u, v
  <1> DEFINE au == Between(a, b, u)
             ak == Between(a, k, t)
             av == Between(a, b, v)
             kb == Between(k, b, t)
  <1>5. /\ au[1] = p * s * (y * j) + d * (x * i) /\ au[2] = q * s * (y * j)
        /\ au \in Rational
    BY <1>3, BetweenIsRational
  <1>6. /\ ak[1] = p * (q * s * y) * j + (m * q - p * (q * s * y)) * i
        /\ ak[2] = q * (q * s * y) * j /\ ak \in Rational
    BY <1>2, BetweenIsRational
  <1>7. /\ av[1] = p * s * (y * j) + d * (x * j + (y - x) * i)
        /\ av[2] = q * s * (y * j) /\ av \in Rational
    BY <1>4, BetweenIsRational
  <1>8. /\ kb[1] = m * s * j + (r * (q * s * y) - m * s) * i
        /\ kb[2] = (q * s * y) * s * j /\ kb \in Rational
    BY <1>2, BetweenIsRational
  <1>9. /\ d = r * q - p * s /\ m = p * s * y + d * x
        /\ Same(au, ak) <=> au[1] * ak[2] = ak[1] * au[2]
        /\ Same(av, kb) <=> av[1] * kb[2] = kb[1] * av[2]
    BY DEF Same
  <1>10. /\ au[1] \in Int /\ au[2] \in Int /\ av[1] \in Int /\ av[2] \in Int
    BY <1>5, <1>7 DEF Rational
  <1> HIDE DEF p, q, r, s, x, y, i, j, d, m, au, ak, av, kb
  <1>11. ak[1] = q * au[1] /\ kb[1] = s * av[1]
    BY ONLY <1>1, <1>5, <1>6, <1>7, <1>8, <1>9, SpanOfSpan
  <1>12. ak[2] = q * au[2] /\ kb[2] = s * av[2]
    <2>1. /\ q * (q * s * y) * j = q * (q * s * (y * j))
          /\ (q * s * y) * s * j = s * (q * s * (y * j))
      BY ONLY <1>1
    <2> QED
      BY ONLY <1>5, <1>6, <1>7, <1>8, <2>1
  <1>13. \A c, e, g \in Int : c * (g * e) = (g * c) * e
    OBVIOUS
  <1>14. Same(au, ak) /\ Same(av, kb)
    BY ONLY <1>1, <1>9, <1>10, <1>11, <1>12, <1>13
  <1> QED
    BY <1>14 DEF au, ak, av, kb, u, v, k

(* The ends of a span are its fractions zero and one, and the fractions of  *)
(* the whole are themselves.                                                *)
LEMMA EndsOfSpan ==
  ASSUME NEW a \in Rational, NEW b \in Rational
  PROVE  /\ Same(Between(a, b, Zero), a) /\ Same(Between(a, b, One), b)
         /\ Same(a, Between(Zero, One, a))
PROOF
  <1> DEFINE p == a[1]
             q == a[2]
             r == b[1]
             s == b[2]
  <1>1. /\ p \in Int /\ q \in Int /\ r \in Int /\ s \in Int
        /\ Zero \in Rational /\ One \in Rational
        /\ Zero[1] = 0 /\ Zero[2] = 1 /\ One[1] = 1 /\ One[2] = 1
    BY DEF Rational, Zero, One
  <1> DEFINE u == Between(a, b, Zero)
             v == Between(a, b, One)
             w == Between(Zero, One, a)
  <1>2. /\ u[1] = p * s * 1 + (r * q - p * s) * 0 /\ u[2] = q * s * 1
        /\ v[1] = p * s * 1 + (r * q - p * s) * 1 /\ v[2] = q * s * 1
        /\ w[1] = 0 * 1 * q + (1 * 1 - 0 * 1) * p /\ w[2] = 1 * 1 * q
    BY <1>1, BetweenIsRational
  <1>3. /\ Same(u, a) <=> u[1] * q = p * u[2]
        /\ Same(v, b) <=> v[1] * s = r * v[2]
        /\ Same(a, w) <=> p * w[2] = w[1] * q
    BY DEF Same
  <1> HIDE DEF p, q, r, s, u, v, w
  <1>4. u[1] = p * s /\ u[2] = q * s /\ v[1] = r * q /\ v[2] = q * s /\ w[1] = p /\ w[2] = q
    BY ONLY <1>1, <1>2
  <1>5. (p * s) * q = p * (q * s) /\ (r * q) * s = r * (q * s)
    BY ONLY <1>1
  <1>6. Same(u, a) /\ Same(v, b) /\ Same(a, w)
    BY ONLY <1>3, <1>4, <1>5
  <1> QED
    BY <1>6 DEF u, v, w

(* One round of the way up of get_sides(), with the function that goes on.  *)
Into(n, g, x) ==
  IF n.frames[1] = g THEN Between(n.fraction, One, x) ELSE Between(Zero, n.fraction, x)

Over(h, at) ==
  << h[at[1]].parent,
     [side \in DOMAIN at[2] |->
        IF side \in Along(h[h[at[1]].parent].isvertical)
        THEN Into(h[h[at[1]].parent], at[1], at[2][side]) ELSE at[2][side]] >>

Scale(h, up, at) == IF h[at[1]].parent = NULL THEN at[2] ELSE up[Over(h, at)]

Scaling(h) == CHOOSE up : up = [at \in Part(h) |-> Scale(h, up, at)]

LEMMA SidesAreScaled ==
  ASSUME NEW h, NEW f
  PROVE  get_sides(h, f) = Scaling(h)[<<f, EntireScreen>>]
BY DEF get_sides, Scaling, Scale, Over, Into

Edges == {"t", "b", "l", "r"}
RationalSides == [Edges -> Rational]

LEMMA OverIsPart ==
  ASSUME NEW h \in Heap, NEW R, Forest(h, R),
         NEW at \in Part(h), h[at[1]].parent # NULL
  PROVE  /\ h[at[1]].parent \in Allocated(h) /\ Over(h, at) \in Part(h)
         /\ at[2] \in RationalSides => Over(h, at)[2] \in RationalSides
PROOF
  <1> DEFINE g == at[1]
             s == at[2]
             n == h[h[g].parent]
             e == [side \in DOMAIN s |-> IF side \in Along(n.isvertical)
                                         THEN Into(n, g, s[side]) ELSE s[side]]
  <1>1. /\ g \in Allocated(h) /\ s \in Sides /\ h[g].parent \in Allocated(h)
        /\ n.fraction \in Fraction
    <2>1. g \in Allocated(h) /\ s \in Sides
      BY DEF Part
    <2>2. h[g].parent \in Allocated(h)
      BY <2>1 DEF Forest, NodeOK
    <2>3. n \in Node
      BY <2>2 DEF Heap, Allocated
    <2> QED
      BY <2>1, <2>2, <2>3 DEF Node
  <1>2. /\ n.fraction \in Rational /\ n.fraction \in Int \X Int
        /\ Zero \in Rational /\ One \in Rational
        /\ Zero \in Int \X Int /\ One \in Int \X Int
    BY <1>1 DEF Fraction, Rational, Zero, One
  <1>3. Over(h, at) = <<h[g].parent, e>>
    BY DEF Over
  <1> HIDE DEF n
  <1>4. \A x \in Int \X Int : Into(n, g, x) \in Int \X Int
    <2>1. \A a, b, f \in Int \X Int : Between(a, b, f) \in Int \X Int
      BY DEF Between
    <2> QED
      BY <1>2, <2>1 DEF Into
  <1>5. \A x \in Rational : Into(n, g, x) \in Rational
    BY <1>2, BetweenIsRational DEF Into
  <1>6. e \in Sides
    BY <1>1, <1>4 DEF Sides
  <1>7. s \in RationalSides => e \in RationalSides
    BY <1>5 DEF RationalSides
  <1> QED
    BY <1>1, <1>3, <1>6, <1>7 DEF Part

LEMMA ScalingGoesOn ==
  ASSUME NEW h \in Heap, NEW R, Forest(h, R)
  PROVE  Scaling(h) = [at \in Part(h) |-> Scale(h, Scaling(h), at)]
PROOF
  <1> DEFINE E == Part(h)
             Ends == {at \in E : h[at[1]].parent = NULL}
             out == [at \in E |-> at[2]]
             next == [at \in E |-> Over(h, at)]
  <1>1. \A at \in E \ Ends : next[at] \in E
    BY OverIsPart
  <1>2. ASSUME NEW v, NEW at \in E
        PROVE  (IF at \in Ends THEN out[at] ELSE v[next[at]]) = Scale(h, v, at)
    BY DEF Scale
  <1>3. PICK v : Solves(v, E, Ends, out, next)
    <2> HIDE DEF E, Ends, out, next
    <2> QED BY <1>1, TailRecursion
  <1>4. v = [at \in E |-> Scale(h, v, at)]
    <2>1. v = [at \in E |-> IF at \in Ends THEN out[at] ELSE v[next[at]]]
      BY <1>3 DEF Solves
    <2> HIDE DEF E, Ends, out, next
    <2> QED BY <1>2, <2>1
  <1> QED
    BY <1>4 DEF Scaling

(* The sides s of frame g on the way down are what the way up from g scales *)
(* to: fraction x of the span between two opposite sides becomes fraction x *)
(* of the span that s gives g.                                              *)
Low(e)  == IF e \in {"t", "b"} THEN "t" ELSE "l"
High(e) == IF e \in {"t", "b"} THEN "b" ELSE "r"

Fits(h, g, s) ==
  \A t \in RationalSides :
    LET u == Scaling(h)[<<g, t>>]
    IN  /\ u \in RationalSides
        /\ \A e \in Edges : Same(u[e], Between(s[Low(e)], s[High(e)], t[e]))

LEMMA ChildFits ==
  ASSUME NEW h \in Heap, NEW R, Forest(h, R),
         NEW g \in Allocated(h), ~h[g].isleaf,
         NEW s \in RationalSides, Fits(h, g, s),
         NEW k \in {0, 1},
         NEW line, line = Between(s[Near(h[g])], s[Far(h[g])], h[g].fraction),
         NEW new, new = IF k = 0 THEN [s EXCEPT ![Far(h[g])] = line]
                                 ELSE [s EXCEPT ![Near(h[g])] = line]
  PROVE  new \in RationalSides /\ Fits(h, h[g].frames[k], new)
PROOF
  <1> DEFINE n == h[g]
             c == n.frames[k]
             a == s[Near(n)]
             b == s[Far(n)]
             f == n.fraction
  <1>1. /\ c \in Allocated(h) /\ h[c].parent = g /\ g # NULL
        /\ n.isvertical \in BOOLEAN /\ f \in Rational
        /\ n.frames[1] = c <=> k = 1
    <2>1. n \in Node /\ g # NULL
      BY NullIsNoObject DEF Heap, Allocated
    <2>2. f \in Rational
      BY <2>1 DEF Node, Fraction, Rational
    <2>3. /\ c \in Allocated(h) /\ h[c].parent = g /\ n.frames[0] # n.frames[1]
      BY DEF Forest, NodeOK
    <2> QED
      BY <2>1, <2>2, <2>3 DEF Node
  <1>2. /\ a \in Rational /\ b \in Rational /\ line \in Rational
        /\ line = Between(a, b, f)
    <2>1. a \in Rational /\ b \in Rational
      BY DEF RationalSides, Edges, Near, Far
    <2> HIDE DEF a, b, f
    <2>2. line = Between(a, b, f)
      BY DEF a, b, f
    <2> QED
      BY <1>1, <2>1, <2>2, BetweenIsRational
  <1>3. Near(n) \in Edges /\ Far(n) \in Edges /\ Near(n) # Far(n)
    BY DEF Near, Far, Edges
  <1>4. \A e \in Edges :
          IF e \in Along(n.isvertical) THEN Low(e) = Near(n) /\ High(e) = Far(n)
          ELSE {Low(e), High(e)} \cap {Near(n), Far(n)} = {}
    BY <1>1 DEF Edges, Along, Low, High, Near, Far
  <1>5. new \in RationalSides
    BY <1>2, <1>3 DEF RationalSides
  <1>6. \A e \in Edges :
          new[e] = IF k = 0 THEN IF e = Far(n) THEN line ELSE s[e]
                   ELSE IF e = Near(n) THEN line ELSE s[e]
    BY <1>3 DEF RationalSides
  <1>7. \A e \in Edges : Low(e) \in Edges /\ High(e) \in Edges
    BY DEF Low, High, Edges
  <1>8. ASSUME NEW t \in RationalSides
        PROVE  /\ Scaling(h)[<<c, t>>] \in RationalSides
               /\ \A e \in Edges : Same(Scaling(h)[<<c, t>>][e],
                                        Between(new[Low(e)], new[High(e)], t[e]))
    <2> DEFINE at == <<c, t>>
               over == Over(h, at)
               t2 == over[2]
               u == Scaling(h)[at]
    <2>1. at \in Part(h) /\ at[1] = c /\ at[2] = t
      <3>1. t \in Sides
        BY DEF RationalSides, Edges, Sides, Rational
      <3> QED
        BY <1>1, <3>1 DEF Part
    <2>2. u = Scaling(h)[over]
      <3>1. Scaling(h)[at] = Scale(h, Scaling(h), at)
        BY <2>1, ScalingGoesOn
      <3> QED
        BY <1>1, <2>1, <3>1 DEF Scale
    <2>3. /\ over = <<g, t2>> /\ t2 \in RationalSides
          /\ \A e \in Edges :
               t2[e] = IF e \in Along(n.isvertical) THEN Into(n, c, t[e]) ELSE t[e]
      <3>1. t2 \in RationalSides
        BY <1>1, <2>1, OverIsPart
      <3>2. DOMAIN t = Edges
        BY DEF RationalSides
      <3> QED
        BY <1>1, <2>1, <3>1, <3>2 DEF Over
    <2> HIDE DEF at, over, t2
    <2>4. /\ u \in RationalSides
          /\ \A e \in Edges : Same(u[e], Between(s[Low(e)], s[High(e)], t2[e]))
      BY <2>2, <2>3 DEF Fits
    <2> HIDE DEF u
    <2>5. ASSUME NEW e \in Edges
          PROVE  Same(u[e], Between(new[Low(e)], new[High(e)], t[e]))
      <3>1. u[e] \in Rational /\ t[e] \in Rational
        BY <2>4 DEF RationalSides
      <3>2. CASE e \notin Along(n.isvertical)
        <4>1. new[Low(e)] = s[Low(e)] /\ new[High(e)] = s[High(e)] /\ t2[e] = t[e]
          BY <1>4, <1>6, <1>7, <2>3, <3>2
        <4> QED
          BY <2>4, <4>1
      <3>3. CASE e \in Along(n.isvertical)
        <4> DEFINE x == t[e]
                   once == Between(a, b, Into(n, c, x))
                   part == Between(new[Low(e)], new[High(e)], x)
        <4>1. Same(u[e], once)
          BY <1>4, <2>3, <2>4, <3>3
        <4>2. Zero \in Rational /\ One \in Rational
          BY DEF Zero, One, Rational
        <4>3. /\ new[Low(e)] = (IF k = 0 THEN a ELSE line)
              /\ new[High(e)] = (IF k = 0 THEN line ELSE b)
          BY <1>3, <1>4, <1>6, <3>3
        <4>4. Into(n, c, x) = IF k = 0 THEN Between(Zero, f, x) ELSE Between(f, One, x)
          BY <1>1 DEF Into
        <4> HIDE DEF a, b, f, x, n
        <4>5. x \in Rational
          BY <3>1 DEF x
        <4>6. Same(once, part) /\ once \in Rational /\ part \in Rational
          <5>1. CASE k = 0
            <6>1. /\ once = Between(a, b, Between(Zero, f, x))
                  /\ part = Between(a, Between(a, b, f), x)
              BY <1>2, <4>3, <4>4, <5>1
            <6>2. Same(once, part)
              BY <1>1, <1>2, <4>5, <6>1, CutThenScale
            <6>3. Between(Zero, f, x) \in Rational
              BY <1>1, <4>2, <4>5, BetweenIsRational
            <6> HIDE DEF once, part
            <6> QED
              BY <1>2, <4>5, <6>1, <6>2, <6>3, BetweenIsRational
          <5>2. CASE k = 1
            <6>1. /\ once = Between(a, b, Between(f, One, x))
                  /\ part = Between(Between(a, b, f), b, x)
              BY <1>2, <4>3, <4>4, <5>2
            <6>2. Same(once, part)
              BY <1>1, <1>2, <4>5, <6>1, CutThenScale
            <6>3. Between(f, One, x) \in Rational
              BY <1>1, <4>2, <4>5, BetweenIsRational
            <6> HIDE DEF once, part
            <6> QED
              BY <1>2, <4>5, <6>1, <6>2, <6>3, BetweenIsRational
          <5> QED
            BY <5>1, <5>2
        <4> HIDE DEF once, part
        <4>7. Same(u[e], part)
          BY <3>1, <4>1, <4>6, SameIsTransitive
        <4> QED
          BY <4>7 DEF part, x
      <3> QED
        BY <3>2, <3>3
    <2> QED
      BY <2>4, <2>5 DEF u, at
  <1> QED
    BY <1>5, <1>8 DEF Fits

LEMMA PartsFit ==
  ASSUME NEW h \in Heap, NEW R, Forest(h, R)
  PROVE  \A g \in Allocated(h), s \in RationalSides : Fits(h, g, s) =>
           \A d \in Cutting(h)[<<g, s>>] :
             d[1] \in Leaves(h) /\ d[2] \in RationalSides /\ Fits(h, d[1], d[2])
PROOF
  <1> DEFINE Good(d) == /\ d[1] \in Leaves(h) /\ d[2] \in RationalSides
                        /\ Fits(h, d[1], d[2])
             S == {g \in Allocated(h) : \A s \in RationalSides :
                     Fits(h, g, s) => \A d \in Cutting(h)[<<g, s>>] : Good(d)}
  <1>1. ASSUME NEW g \in Allocated(h),
               h[g].isleaf \/ (h[g].frames[0] \in S /\ h[g].frames[1] \in S),
               NEW s \in RationalSides, Fits(h, g, s), NEW d \in Cutting(h)[<<g, s>>]
        PROVE  Good(d)
    <2> DEFINE at == <<g, s>>
               a == First(h, at)
               b == Second(h, at)
    <2>1. at \in Part(h) /\ at[1] = g /\ at[2] = s
      <3>1. s \in Sides
        BY DEF RationalSides, Edges, Sides, Rational
      <3> QED
        BY <3>1 DEF Part
    <2>2. d \in Cut(h, Cutting(h), at)
      <3>1. Cutting(h)[at] = Cut(h, Cutting(h), at)
        BY <2>1, CuttingGoesOn
      <3> QED
        BY <1>1, <3>1
    <2> HIDE DEF at
    <2>3. CASE h[g].isleaf
      <3>1. d = <<g, s>>
        BY <2>1, <2>2, <2>3 DEF Cut
      <3> QED
        BY <1>1, <2>3, <3>1 DEF Leaves
    <2>4. CASE ~h[g].isleaf
      <3>1. /\ a = <<h[g].frames[0], a[2]>> /\ b = <<h[g].frames[1], b[2]>>
            /\ a[2] = [s EXCEPT ![Far(h[g])] = Border(h[g], s)]
            /\ b[2] = [s EXCEPT ![Near(h[g])] = Border(h[g], s)]
        BY <2>1 DEF First, Second
      <3>2. /\ a[2] \in RationalSides /\ Fits(h, h[g].frames[0], a[2])
            /\ b[2] \in RationalSides /\ Fits(h, h[g].frames[1], b[2])
        <4>1. \A k \in {0, 1} :
                LET new == IF k = 0 THEN [s EXCEPT ![Far(h[g])] = Border(h[g], s)]
                                    ELSE [s EXCEPT ![Near(h[g])] = Border(h[g], s)]
                IN  new \in RationalSides /\ Fits(h, h[g].frames[k], new)
          BY <1>1, <2>4, ChildFits DEF Border
        <4> HIDE DEF a, b
        <4> QED
          BY <3>1, <4>1
      <3>3. d \in Cutting(h)[a] \/ d \in Cutting(h)[b]
        BY <2>1, <2>2, <2>4 DEF Cut
      <3> HIDE DEF a, b, Good
      <3>4. d \in Cutting(h)[<<h[g].frames[0], a[2]>>]
            \/ d \in Cutting(h)[<<h[g].frames[1], b[2]>>]
        BY <3>1, <3>3
      <3> QED
        BY <1>1, <2>4, <3>2, <3>4
    <2> QED
      BY <2>3, <2>4
  <1>2. Collected(h, S)
    <2> HIDE DEF Good
    <2> QED BY <1>1 DEF Collected
  <1>3. S = Allocated(h)
    <2> HIDE DEF S
    <2>1. S \in SUBSET Allocated(h)
      BY DEF S
    <2> QED
      BY <1>2, <2>1 DEF Forest, Grounded
  <1> QED
    BY <1>3

LEMMA RootFits ==
  ASSUME NEW h \in Heap, NEW R, Forest(h, R), NEW r \in R
  PROVE  EntireScreen \in RationalSides /\ Fits(h, r, EntireScreen)
PROOF
  <1>1. r \in Allocated(h) /\ h[r].parent = NULL
    BY DEF Forest
  <1>2. EntireScreen \in RationalSides
    BY EntireIsProper DEF Proper, RationalSides, Edges, Sides
  <1>3. ASSUME NEW t \in RationalSides
        PROVE  Scaling(h)[<<r, t>>] = t
    <2> DEFINE at == <<r, t>>
    <2>1. at \in Part(h) /\ at[1] = r /\ at[2] = t
      <3>1. t \in Sides
        BY DEF RationalSides, Edges, Sides, Rational
      <3> QED
        BY <1>1, <3>1 DEF Part
    <2>2. Scaling(h)[at] = Scale(h, Scaling(h), at)
      BY <2>1, ScalingGoesOn
    <2> HIDE DEF at
    <2>3. Scaling(h)[at] = t
      BY <1>1, <2>1, <2>2 DEF Scale
    <2> QED
      BY <2>3 DEF at
  <1>4. ASSUME NEW t \in RationalSides, NEW e \in Edges
        PROVE  Same(t[e], Between(EntireScreen[Low(e)], EntireScreen[High(e)], t[e]))
    <2>1. EntireScreen[Low(e)] = Zero /\ EntireScreen[High(e)] = One
      BY EntireIsProper DEF Low, High
    <2>2. t[e] \in Rational
      BY DEF RationalSides
    <2>3. Same(t[e], Between(Zero, One, t[e]))
      BY <2>2, EndsOfSpan
    <2> QED
      BY <2>1, <2>3
  <1> QED
    BY <1>2, <1>3, <1>4 DEF Fits

(* What do_at_each() gives a leaf is what get_sides() finds for it. *)
LEMMA WaysAgree ==
  ASSUME NEW h \in Heap, NEW R, Forest(h, R), NEW r \in R,
         NEW d \in do_at_each(h, r)
  PROVE  /\ d[1] \in Leaves(h) /\ d[2] \in RationalSides
         /\ get_sides(h, d[1]) \in RationalSides
         /\ \A e \in Edges : Same(d[2][e], get_sides(h, d[1])[e])
PROOF
  <1>1. r \in Allocated(h)
    BY DEF Forest
  <1>2. d[1] \in Leaves(h) /\ d[2] \in RationalSides /\ Fits(h, d[1], d[2])
    <2>1. d \in Cutting(h)[<<r, EntireScreen>>]
      BY EachIsCut
    <2> QED
      BY <1>1, <2>1, RootFits, PartsFit
  <1> DEFINE u == get_sides(h, d[1])
             s == d[2]
  <1>3. /\ EntireScreen \in RationalSides /\ u \in RationalSides
        /\ \A e \in Edges : Same(u[e], Between(s[Low(e)], s[High(e)], EntireScreen[e]))
    BY <1>2, RootFits, SidesAreScaled DEF Fits
  <1> HIDE DEF u, s
  <1>4. ASSUME NEW e \in Edges
        PROVE  Same(s[e], u[e])
    <2> DEFINE a == s[Low(e)]
               b == s[High(e)]
               m == Between(a, b, EntireScreen[e])
    <2>1. /\ a \in Rational /\ b \in Rational /\ s[e] \in Rational /\ u[e] \in Rational
          /\ EntireScreen[e] \in Rational
      BY <1>2, <1>3 DEF s, RationalSides, Edges, Low, High
    <2>2. m \in Rational
      BY <2>1, BetweenIsRational
    <2>3. Same(u[e], m)
      BY <1>3
    <2>4. Same(m, s[e])
      <3>1. CASE e \in {"t", "l"}
        <4>1. EntireScreen[e] = Zero /\ s[e] = a
          BY <3>1, EntireIsProper DEF Low
        <4> HIDE DEF a, b
        <4>2. Same(Between(a, b, Zero), a)
          BY <2>1, EndsOfSpan
        <4> QED
          BY <4>1, <4>2
      <3>2. CASE e \in {"b", "r"}
        <4>1. EntireScreen[e] = One /\ s[e] = b
          BY <3>2, EntireIsProper DEF High
        <4> HIDE DEF a, b
        <4>2. Same(Between(a, b, One), b)
          BY <2>1, EndsOfSpan
        <4> QED
          BY <4>1, <4>2
      <3> QED
        BY <3>1, <3>2 DEF Edges
    <2> HIDE DEF m
    <2>5. Same(u[e], s[e])
      BY <2>1, <2>2, <2>3, <2>4, SameIsTransitive
    <2> QED
      BY <2>1, <2>5 DEF Same
  <1> QED
    BY <1>2, <1>3, <1>4 DEF u, s

(* For any tree, going up from a leaf and coming down to it give the same   *)
(* part of the screen.                                                      *)
THEOREM WaysUpAndDownAgree == DrawSpec => []BothWaysAgree
PROOF
  <1>1. IInv => BothWaysAgree
    <2> SUFFICES ASSUME IInv, NEW r \in Elems(roots), NEW d \in do_at_each(split, r),
                        NEW side \in DOMAIN EntireScreen
                 PROVE  d[2][side][1] * get_sides(split, d[1])[side][2]
                          = get_sides(split, d[1])[side][1] * d[2][side][2]
      BY DEF BothWaysAgree
    <2>1. split \in Heap /\ Forest(split, Elems(roots))
      BY DEF IInv, Whole, Core, Trees, State, This
    <2>2. side \in Edges
      BY DEF EntireScreen, Edges
    <2>3. Same(d[2][side], get_sides(split, d[1])[side])
      BY <2>1, <2>2, WaysAgree
    <2> QED
      BY <2>3 DEF Same
  <1> QED
    BY <1>1, DrawingInvariance, PTL

-----------------------------------------------------------------------------
(* Every window is told where its frame is.                                 *)

LEMMA SameSidesSameRectangle ==
  ASSUME NEW s \in RationalSides, NEW u \in RationalSides,
         \A e \in Edges : Same(s[e], u[e])
  PROVE  redraw_frame(s) = redraw_frame(u)
PROOF
  <1>1. \A e \in Edges, size \in Int : frac_of(s[e], size) = frac_of(u[e], size)
    BY RoundingKeepsOrder DEF RationalSides
  <1>2. Width \in Int /\ Height \in Int
    BY SizeAssumption
  <1> QED
    BY <1>1, <1>2 DEF redraw_frame, Edges

(* The way down from a root meets every leaf of its tree. *)
LEMMA EveryLeafIsMet ==
  ASSUME NEW h \in Heap, NEW R, Forest(h, R), NEW r \in R,
         NEW f \in Tree(h, r), f \in Leaves(h)
  PROVE  \E d \in do_at_each(h, r) : d[1] = f
PROOF
  <1> DEFINE P == Cutting(h)[<<r, EntireScreen>>]
             S == {g \in Allocated(h) : \E s \in Sides : Cutting(h)[<<g, s>>] \subseteq P}
  <1>1. r \in Allocated(h)
    BY DEF Forest
  <1>2. r \in S
    BY <1>1, EntireIsProper
  <1>3. ASSUME NEW g \in S, ~h[g].isleaf
        PROVE  h[g].frames[0] \in S /\ h[g].frames[1] \in S
    <2>1. PICK s \in Sides : Cutting(h)[<<g, s>>] \subseteq P
      BY <1>3
    <2> DEFINE at == <<g, s>>
               a == First(h, at)
               b == Second(h, at)
    <2>2. at \in Part(h) /\ at[1] = g
      BY DEF Part
    <2>3. Cutting(h)[at] = Cut(h, Cutting(h), at)
      BY <2>2, CuttingGoesOn
    <2>4. Cutting(h)[a] \subseteq P /\ Cutting(h)[b] \subseteq P
      <3> HIDE DEF P
      <3>1. Cutting(h)[at] \subseteq P
        BY <2>1
      <3> HIDE DEF at
      <3> QED
        BY <1>3, <2>2, <2>3, <3>1 DEF Cut
    <2>5. /\ a \in Part(h) /\ b \in Part(h)
          /\ a[1] = h[g].frames[0] /\ b[1] = h[g].frames[1]
      <3> HIDE DEF at
      <3> QED BY <1>3, <2>2, CutsAreParts DEF First, Second
    <2>6. /\ a = <<a[1], a[2]>> /\ b = <<b[1], b[2]>>
          /\ a[1] \in Allocated(h) /\ b[1] \in Allocated(h)
          /\ a[2] \in Sides /\ b[2] \in Sides
      BY <2>5 DEF Part
    <2> HIDE DEF a, b, P
    <2>7. /\ Cutting(h)[<<a[1], a[2]>>] \subseteq P
          /\ Cutting(h)[<<b[1], b[2]>>] \subseteq P
      BY <2>4, <2>6
    <2> QED
      BY <2>5, <2>6, <2>7
  <1>4. f \in S
    <2>1. S \in SUBSET Allocated(h)
      OBVIOUS
    <2> HIDE DEF S
    <2>2. ClosedBelow(h, S)
      BY <1>3 DEF ClosedBelow
    <2> QED
      BY <1>2, <2>1, <2>2, InEveryClosedSetIfVisited
  <1>5. PICK s \in Sides : Cutting(h)[<<f, s>>] \subseteq P
    BY <1>4
  <1>6. Cutting(h)[<<f, s>>] = {<<f, s>>}
    <2> DEFINE at == <<f, s>>
    <2>1. at \in Part(h) /\ at[1] = f /\ at[2] = s /\ h[f].isleaf
      BY DEF Part, Leaves
    <2>2. Cutting(h)[at] = Cut(h, Cutting(h), at)
      BY <2>1, CuttingGoesOn
    <2> HIDE DEF at
    <2>3. Cutting(h)[at] = {<<f, s>>}
      BY <2>1, <2>2 DEF Cut
    <2> QED
      BY <2>3 DEF at
  <1> QED
    BY <1>5, <1>6, EachIsCut

(* A heap that keeps the parents of frames, and every inner node.           *)
KeepsNodes(h, g) ==
  /\ Allocated(h) \subseteq Allocated(g)
  /\ \A x \in Allocated(h) : /\ g[x].parent = h[x].parent
                             /\ ~h[x].isleaf => g[x] = h[x]

LEMMA SidesStay ==
  ASSUME NEW h \in Heap, NEW g \in Heap, NEW R, NEW Q, Forest(h, R), Forest(g, Q),
         KeepsNodes(h, g), NEW f \in Allocated(h)
  PROVE  get_sides(g, f) = get_sides(h, f)
PROOF
  <1> DEFINE S == {x \in Allocated(h) :
                     \A s \in Sides : Scaling(g)[<<x, s>>] = Scaling(h)[<<x, s>>]}
  <1>1. ASSUME NEW x \in Allocated(h), h[x].parent # NULL => h[x].parent \in S,
               NEW s \in Sides
        PROVE  Scaling(g)[<<x, s>>] = Scaling(h)[<<x, s>>]
    <2> DEFINE at == <<x, s>>
               up == h[x].parent
    <2>1. at \in Part(h) /\ at \in Part(g) /\ at[1] = x /\ at[2] = s /\ g[x].parent = up
      BY DEF Part, KeepsNodes
    <2>2. /\ Scaling(h)[at] = Scale(h, Scaling(h), at)
          /\ Scaling(g)[at] = Scale(g, Scaling(g), at)
      BY <2>1, ScalingGoesOn
    <2> HIDE DEF at
    <2>3. CASE up = NULL
      BY <2>1, <2>2, <2>3 DEF Scale, at
    <2>4. CASE up # NULL
      <3>1. /\ up \in Allocated(h) /\ ~h[up].isleaf
        BY <2>4 DEF Forest, NodeOK
      <3>2. g[up] = h[up]
        BY <3>1 DEF KeepsNodes
      <3>3. Over(g, at) = Over(h, at)
        BY <2>1, <3>2 DEF Over
      <3>4. Over(h, at) = <<up, Over(h, at)[2]>> /\ Over(h, at)[2] \in Sides
        BY <2>1, <2>4, OverIsPart DEF Part, Over
      <3>5. up \in S
        BY <1>1, <2>4
      <3>6. Scaling(g)[Over(h, at)] = Scaling(h)[Over(h, at)]
        <4> DEFINE over == Over(h, at)
        <4> HIDE DEF over
        <4>1. over = <<up, over[2]>> /\ over[2] \in Sides
          BY <3>4 DEF over
        <4>2. Scaling(g)[<<up, over[2]>>] = Scaling(h)[<<up, over[2]>>]
          BY <3>5, <4>1
        <4>3. Scaling(g)[over] = Scaling(h)[over]
          BY <4>1, <4>2
        <4> QED
          BY <4>3 DEF over
      <3> QED
        BY <2>1, <2>2, <2>4, <3>3, <3>6 DEF Scale, at
    <2> QED
      BY <2>3, <2>4
  <1>2. f \in S
    <2>1. PICK r \in R : f \in Tree(h, r)
      BY DEF Forest
    <2>2. r \in Allocated(h) /\ h[r].parent = NULL
      BY <2>1 DEF Forest
    <2>3. S \in SUBSET Allocated(h) /\ r \in S
      BY <1>1, <2>2
    <2>4. ASSUME NEW x \in S, NEW i \in {0, 1}, ~h[x].isleaf
          PROVE  h[x].frames[i] \in S
      <3>1. h[x].frames[i] \in Allocated(h) /\ h[h[x].frames[i]].parent = x
        BY <2>4 DEF Forest, NodeOK
      <3> QED
        BY <1>1, <2>4, <3>1
    <2> HIDE DEF S
    <2>5. ClosedBelow(h, S)
      BY <2>4 DEF ClosedBelow
    <2> QED
      BY <2>1, <2>3, <2>5, InEveryClosedSetIfVisited
  <1> QED
    BY <1>2, EntireIsProper, SidesAreScaled

(* draw() tells the windows of the given frames where those are, and leaves *)
(* the others as they were.                                                 *)
LEMMA DrawTells ==
  ASSUME IInv', NEW D, draw(D), NEW w \in Window, frame'[w] # NULL
  PROVE  told'[w] = IF frame'[w] \in D THEN redraw_frame(get_sides(split', frame'[w]))
                    ELSE told[w]
PROOF
  <1> DEFINE h == split'
             f == frame'[w]
             places == {<<x, get_sides(h, x)>> :
                          x \in {y \in D \cap Leaves(h) : h[y].screen # NULL}}
             at == {p \in places : h[p[1]].win = w}
  <1>1. /\ f \in Leaves(h) /\ f \in Allocated(h) /\ h[f].win = w /\ h[f].screen # NULL
        /\ \A x \in Allocated(h) : h[x].win = w => x = f
    <2>1. Whole(This')
      BY DEF IInv
    <2>2. This'.frame = frame' /\ This'.split = h
      BY DEF This
    <2>3. Framed(This', {}) /\ OnScreens(This')
      BY <2>1 DEF Whole, Core
    <2>4. f \in Allocated(h) /\ h[f].win = w /\ f \in Leaves(h)
      BY <2>1, <2>2, FramedIsAllocated
    <2>5. h[f].screen # NULL
      BY <2>2, <2>3, <2>4 DEF OnScreens
    <2>6. \A x \in Allocated(h) : h[x].win = w => x = f
      BY <2>2, <2>3, NullIsNoObject DEF Framed
    <2> QED
      BY <2>4, <2>5, <2>6
  <1>2. told'[w] = IF at = {} THEN told[w] ELSE redraw_frame((CHOOSE p \in at : TRUE)[2])
    BY DEF draw, draw_in
  <1>3. at = IF f \in D THEN {<<f, get_sides(h, f)>>} ELSE {}
    BY <1>1 DEF Leaves
  <1> HIDE DEF at, places, h, f
  <1>4. CASE f \in D
    <2> DEFINE one == <<f, get_sides(h, f)>>
               p == CHOOSE x \in at : TRUE
    <2>1. at = {one} /\ one[2] = get_sides(h, f)
      BY <1>3, <1>4
    <2> HIDE DEF one
    <2>2. p = one
      BY <2>1
    <2> HIDE DEF p
    <2>3. told'[w] = redraw_frame(p[2])
      BY <1>2, <2>1 DEF p
    <2> QED
      BY <1>4, <2>1, <2>2, <2>3 DEF h, f
  <1>5. CASE f \notin D
    BY <1>2, <1>3, <1>5 DEF h, f
  <1> QED
    BY <1>4, <1>5 DEF f

(* restore tells every window where its frame is. *)
LEMMA RestoreTells ==
  ASSUME IInv', restore, NEW w \in Window, frame'[w] # NULL
  PROVE  told'[w] = redraw_frame(get_sides(split', frame'[w]))
PROOF
  <1> DEFINE h == split'
             f == frame'[w]
             R == Elems(roots')
             places == UNION {do_at_each(h, r) : r \in R}
             at == {p \in places : h[p[1]].win = w}
             p == CHOOSE x \in at : TRUE
  <1>1. /\ f \in Leaves(h) /\ f \in Allocated(h) /\ h[f].win = w
        /\ h \in Heap /\ Forest(h, R)
        /\ \A x \in Allocated(h) : h[x].win = w => x = f
    <2>1. Whole(This')
      BY DEF IInv
    <2>2. This'.frame = frame' /\ This'.split = h /\ This'.roots = roots'
      BY DEF This
    <2>3. Framed(This', {}) /\ Trees(This') /\ This' \in State
      BY <2>1 DEF Whole, Core
    <2>4. f \in Allocated(h) /\ h[f].win = w /\ f \in Leaves(h)
      BY <2>1, <2>2, FramedIsAllocated
    <2>5. \A x \in Allocated(h) : h[x].win = w => x = f
      BY <2>2, <2>3, NullIsNoObject DEF Framed
    <2> QED
      BY <2>2, <2>3, <2>4, <2>5 DEF Trees, State
  <1>2. told'[w] = IF at = {} THEN told[w] ELSE redraw_frame(p[2])
    BY DEF restore, draw_in
  <1> HIDE DEF h, f, R
  <1>3. at # {}
    <2>1. PICK r \in R : f \in Tree(h, r)
      BY <1>1 DEF Forest
    <2>2. PICK d \in do_at_each(h, r) : d[1] = f
      BY <1>1, <2>1, EveryLeafIsMet
    <2> QED
      BY <1>1, <2>1, <2>2
  <1>4. p \in at
    <2> HIDE DEF at
    <2> QED BY <1>3
  <1>5. PICK r \in R : p \in do_at_each(h, r)
    BY <1>4
  <1>6. h[p[1]].win = w
    BY <1>4
  <1> HIDE DEF p, at
  <1>7. /\ p[1] \in Leaves(h) /\ p[2] \in RationalSides
        /\ get_sides(h, p[1]) \in RationalSides
        /\ \A e \in Edges : Same(p[2][e], get_sides(h, p[1])[e])
    BY <1>1, <1>5, WaysAgree
  <1>8. p[1] = f
    BY <1>1, <1>6, <1>7 DEF Leaves
  <1>9. redraw_frame(p[2]) = redraw_frame(get_sides(h, f))
    BY <1>7, <1>8, SameSidesSameRectangle
  <1> QED
    BY <1>2, <1>3, <1>9 DEF h, f

(* A handler that draws the frames it fills, and moves no other, leaves     *)
(* every window where its frame is.                                         *)
LEMMA DrawFills ==
  ASSUME IInv, IInv', FillsItsFrame, NEW D, draw(D), KeepsNodes(split, split'),
         \A w \in Window : frame'[w] # NULL /\ frame'[w] \notin D => frame'[w] = frame[w]
  PROVE  FillsItsFrame'
PROOF
  <1> SUFFICES ASSUME NEW w \in Window, frame'[w] # NULL
               PROVE  told'[w] = redraw_frame(get_sides(split', frame'[w]))
    BY DEF FillsItsFrame
  <1>1. CASE frame'[w] \in D
    BY <1>1, DrawTells
  <1>2. CASE frame'[w] \notin D
    <2>1. told'[w] = told[w] /\ frame'[w] = frame[w]
      BY <1>2, DrawTells
    <2>2. told[w] = redraw_frame(get_sides(split, frame[w]))
      BY <2>1 DEF FillsItsFrame
    <2>3. /\ split \in Heap /\ Forest(split, Elems(roots)) /\ frame[w] \in Allocated(split)
      <3>1. /\ Whole(This) /\ This.frame = frame /\ This.split = split
            /\ This.roots = roots
        BY DEF IInv, This
      <3> QED
        BY <2>1, <3>1, FramedIsAllocated DEF Whole, Core, Trees, State
    <2>4. split' \in Heap /\ Forest(split', Elems(roots'))
      <3>1. Whole(This') /\ This'.split = split' /\ This'.roots = roots'
        BY DEF IInv, This
      <3> QED
        BY <3>1 DEF Whole, Core, Trees, State
    <2>5. get_sides(split', frame[w]) = get_sides(split, frame[w])
      BY <2>3, <2>4, SidesStay
    <2> QED
      BY <2>1, <2>2, <2>5
  <1> QED
    BY <1>1, <1>2

LEMMA NothingDrawn ==
  ASSUME FillsItsFrame, split' = split, frame' = frame, told' = told
  PROVE  FillsItsFrame'
BY DEF FillsItsFrame

LEMMA PutWinKeepsNodes ==
  ASSUME NEW h \in Heap, NEW f \in Leaves(h), NEW w \in Window \cup {NULL}
  PROVE  KeepsNodes(h, PutWin(h, f, w)) /\ KeepsNodes(h, h)
PROOF
  <1> DEFINE g == PutWin(h, f, w)
  <1>1. f \in Allocated(h)
    BY DEF Leaves
  <1>2. SameFrames(h, g) /\ \A x \in Frame : x # f => g[x] = h[x]
    BY <1>1, PutWinDoes
  <1>3. \A x \in Allocated(h) : ~h[x].isleaf => x # f /\ x \in Frame
    BY DEF Leaves, Allocated
  <1> HIDE DEF g
  <1>4. KeepsNodes(h, g)
    BY <1>2, <1>3 DEF KeepsNodes, SameFrames
  <1> QED
    BY <1>4 DEF KeepsNodes, g

(* A window that takes the frame which is drawn.                            *)
LEMMA ShowsKeepsOthers ==
  ASSUME NEW s, Whole(s), NEW t, NEW w \in Window, NEW f \in Leaves(s.split), NEW old,
         Shows(s, t, w, f, old)
  PROVE  /\ KeepsNodes(s.split, t.split)
         /\ \A v \in Window : t.frame[v] # NULL /\ t.frame[v] \notin {f} =>
              t.frame[v] = s.frame[v]
PROOF
  <1>1. s.split \in Heap
    BY DEF Whole, Core, State
  <1>2. KeepsNodes(s.split, t.split)
    BY <1>1, PutWinKeepsNodes DEF Shows
  <1> QED
    BY <1>2 DEF Shows

LEMMA FillIsDrawn ==
  ASSUME IInv, IInv', FillsItsFrame, NEW t, Become(t), NEW w, NEW f \in Leaves(split), NEW old,
         Shows(This, t, w, f, old), draw({f})
  PROVE  FillsItsFrame'
PROOF
  <1>1. /\ This.split = split /\ This.frame = frame /\ split' = t.split /\ frame' = t.frame
        /\ Whole(This) /\ w \in Window
    BY DEF This, Become, IInv, Shows
  <1>2. /\ KeepsNodes(split, split')
        /\ \A v \in Window : frame'[v] # NULL /\ frame'[v] \notin {f} => frame'[v] = frame[v]
    BY <1>1, ShowsKeepsOthers
  <1> QED
    BY <1>2, DrawFills

LEMMA WindowComes ==
  ASSUME IInv, IInv', FillsItsFrame, window_comes
  PROVE  FillsItsFrame'
PROOF
  <1>1. PICK w \in Window : handle_window_new(w) /\ draw({focus})
    BY DEF window_comes
  <1> DEFINE t == workspace_add_window(This, w)
             f == focus
  <1>2. /\ Become(t) /\ f = This.focus /\ f \in Leaves(This.split) /\ This.split = split
        /\ w \notin This.windows /\ Whole(This)
    BY <1>1 DEF handle_window_new, HasFocus, This, IInv
  <1>3. t = workspace_add_window(This, w)
    OBVIOUS
  <1> HIDE DEF t, f
  <1>4. Shows(This, t, w, f, This.split[f].win)
    BY <1>2, <1>3, AddDoes
  <1> QED
    BY <1>1, <1>2, <1>4, FillIsDrawn DEF f

LEMMA WindowGoes ==
  ASSUME IInv, IInv', FillsItsFrame, window_goes
  PROVE  FillsItsFrame'
PROOF
  <1>1. PICK w \in Window : handle_window_destroy(w) /\ draw({frame[w]})
    BY DEF window_goes
  <1> DEFINE t == workspace_remove_window(This, w)
             f == frame[w]
  <1>2. /\ Become(t) /\ w \in This.windows /\ Whole(This)
        /\ This.split = split /\ This.frame = frame /\ This.hidden = hidden
        /\ split' = t.split /\ frame' = t.frame
    BY <1>1 DEF handle_window_destroy, This, IInv, Become
  <1>3. t = workspace_remove_window(This, w)
    OBVIOUS
  <1> HIDE DEF t
  <1>4. Unmaps(This, t, w)
    BY <1>2, <1>3, DestroyDoes
  <1>5. f \in Leaves(split) \cup {NULL} /\ split \in Heap
    BY <1>2, <1>4 DEF Unmaps, Whole, Core, State
  <1>6. CASE f = NULL
    <2>1. /\ split' = split /\ \A v \in Window : frame'[v] = frame[v]
      BY <1>2, <1>4, <1>6 DEF Unmaps
    <2>2. KeepsNodes(split, split')
      BY <2>1 DEF KeepsNodes
    <2> QED
      BY <1>1, <2>1, <2>2, DrawFills
  <1>7. CASE f # NULL /\ hidden = <<>>
    <2>1. /\ split' = PutWin(split, f, NULL)
          /\ \A v \in Window : frame'[v] = IF v = w THEN NULL ELSE frame[v]
      BY <1>2, <1>4, <1>7 DEF Unmaps
    <2>2. KeepsNodes(split, split')
      BY <1>5, <1>7, <2>1, PutWinKeepsNodes
    <2> QED
      BY <1>1, <2>1, <2>2, DrawFills
  <1>8. CASE f # NULL /\ hidden # <<>>
    <2>1. Shows(This, t, Head(hidden), f, w)
      BY <1>2, <1>4, <1>8 DEF Unmaps
    <2> QED
      BY <1>1, <1>2, <1>5, <1>8, <2>1, FillIsDrawn
  <1> QED
    BY <1>6, <1>7, <1>8

LEMMA FrameSplits ==
  ASSUME IInv, IInv', FillsItsFrame, frame_splits
  PROVE  FillsItsFrame'
PROOF
  <1>1. PICK vertical \in BOOLEAN : dosplit(vertical) /\ draw(split_draws)
    BY DEF frame_splits
  <1>2. PICK c0 \in Free(split), c1 \in Free(split) :
          /\ c0 # c1
          /\ Become(workspace_do_split(This, focus, vertical, <<1, 2>>, c0, c1))
    BY <1>1 DEF dosplit
  <1> DEFINE half == <<1, 2>>
             f == focus
             t == workspace_do_split(This, f, vertical, half, c0, c1)
  <1>3. /\ Become(t) /\ half \in Fraction /\ f \in Leaves(This.split)
        /\ c0 \in Free(This.split) /\ c1 \in Free(This.split) /\ Whole(This)
        /\ This.split = split /\ This.frame = frame
        /\ split' = t.split /\ frame' = t.frame
    BY <1>1, <1>2 DEF dosplit, HasFocus, Fraction, Become, This, IInv
  <1>4. t = workspace_do_split(This, f, vertical, half, c0, c1)
    OBVIOUS
  <1> HIDE DEF half, t
  <1>5. Halves(This, t, f, c0, c1)
    BY <1>2, <1>3, <1>4, SplitKeepsWhole
  <1>6. split_draws = {c0, c1}
    BY <1>3, <1>5 DEF Halves, split_draws, Children
  <1>7. KeepsNodes(split, split')
    <2>1. /\ Allocated(split) \subseteq Allocated(split')
          /\ split'[f].parent = split[f].parent
          /\ \A x \in Allocated(split) \ {f} : split'[x] = split[x]
      BY <1>3, <1>5 DEF Halves
    <2>2. split[f].isleaf
      BY <1>3 DEF Leaves
    <2> QED
      BY <2>1, <2>2 DEF KeepsNodes
  <1>8. \A w \in Window : frame'[w] # NULL /\ frame'[w] \notin {c0, c1} => frame'[w] = frame[w]
    BY <1>3, <1>5 DEF Halves
  <1> QED
    BY <1>1, <1>6, <1>7, <1>8, DrawFills

LEMMA WindowsSwap ==
  ASSUME IInv, IInv', FillsItsFrame, windows_swap
  PROVE  FillsItsFrame'
PROOF
  <1>1. PICK vertical \in BOOLEAN, increasing \in BOOLEAN : swap(vertical, increasing)
    BY DEF windows_swap
  <1> DEFINE src == focus
  <1>2. PICK dst \in Leaves(This.split) :
          /\ src \in Leaves(This.split)
          /\ Become(workspace_swap_windows_from_frames(This, src, dst))
    BY <1>1 DEF swap, HasFocus, This
  <1> DEFINE t == workspace_swap_windows_from_frames(This, src, dst)
  <1>3. /\ Become(t) /\ t = workspace_swap_windows_from_frames(This, src, dst)
        /\ Whole(This) /\ This.focus = src
        /\ This.split = split /\ This.frame = frame
        /\ split' = t.split /\ frame' = t.frame /\ focus' = t.focus
    BY <1>2 DEF This, Become, IInv
  <1> HIDE DEF t
  <1>4. Swaps(This, t, src, dst)
    BY <1>2, <1>3, SwapKeepsWhole
  <1>5. focus' = dst
    BY <1>3, <1>4 DEF Swaps
  <1>6. CASE dst = src
    <2>1. t = This
      BY <1>3, <1>6 DEF workspace_swap_windows_from_frames
    <2>2. told' = told
      BY <1>5, <1>6 DEF windows_swap
    <2> QED
      BY <1>3, <2>1, <2>2, NothingDrawn
  <1>7. CASE dst # src
    <2>1. draw({focus, focus'})
      BY <1>5, <1>7 DEF windows_swap
    <2>2. KeepsNodes(split, split')
      <3>1. /\ SameFrames(split, split')
            /\ \A x \in Frame \ {src, dst} : split'[x] = split[x]
        BY <1>3, <1>4 DEF Swaps
      <3>2. \A x \in Allocated(split) : ~split[x].isleaf => x \in Frame \ {src, dst}
        BY <1>2, <1>3 DEF Leaves, Allocated
      <3> QED
        BY <3>1, <3>2 DEF KeepsNodes, SameFrames
    <2>3. \A w \in Window : frame'[w] # NULL /\ frame'[w] \notin {focus, focus'}
                             => frame'[w] = frame[w]
      BY <1>3, <1>4, <1>5 DEF Swaps
    <2> QED
      BY <2>1, <2>2, <2>3, DrawFills
  <1> QED
    BY <1>6, <1>7

(* restore, which draws every leaf of every screen, needs nothing of what   *)
(* was drawn before.                                                        *)
LEMMA RestoredFills == IInv' /\ restore => FillsItsFrame'
BY RestoreTells DEF FillsItsFrame

LEMMA FrameGoes ==
  ASSUME IInv, IInv', FillsItsFrame, frame_goes
  PROVE  FillsItsFrame'
PROOF
  <1>1. CASE split[focus].parent = NULL
    <2>1. PICK t \in workspace_remove_frame(This, focus) : Become(t)
      BY DEF frame_goes, remove_frame
    <2>2. t = This
      BY <1>1 DEF workspace_remove_frame, This
    <2>3. split' = split /\ frame' = frame /\ told' = told
      BY <1>1, <2>1, <2>2 DEF Become, This, frame_goes
    <2> QED
      BY <2>3, NothingDrawn
  <1>2. CASE split[focus].parent # NULL
    BY <1>2, RestoredFills DEF frame_goes
  <1> QED
    BY <1>1, <1>2

LEMMA QueueTurns ==
  ASSUME IInv, IInv', FillsItsFrame, queue_turns
  PROVE  FillsItsFrame'
PROOF
  <1> DEFINE f == focus
             n == workspace_next_hidden_win_at(This, f)
             p == workspace_prev_hidden_win_at(This, f)
  <1>1. /\ Whole(This) /\ f \in Leaves(This.split)
        /\ This.split = split /\ This.hidden = hidden /\ This.frame = frame
    BY DEF queue_turns, next_win, prev_win, HasFocus, IInv, This
  <1>2. /\ n = workspace_next_hidden_win_at(This, f)
        /\ p = workspace_prev_hidden_win_at(This, f)
    OBVIOUS
  <1>3. PICK t \in {n, p} : Become(t)
    BY DEF queue_turns, next_win, prev_win
  <1>4. CASE hidden = <<>>
    <2>1. t = This /\ told' = told
      BY <1>1, <1>4 DEF workspace_next_hidden_win_at, workspace_prev_hidden_win_at,
                        queue_turns
    <2>2. split' = split /\ frame' = frame
      BY <1>1, <1>3, <2>1 DEF Become
    <2> QED
      BY <2>1, <2>2, NothingDrawn
  <1>5. CASE hidden # <<>>
    <2>1. draw({f})
      BY <1>5 DEF queue_turns
    <2> HIDE DEF f, n, p
    <2>2. /\ Shows(This, n, Head(This.hidden), f, This.split[f].win)
          /\ Shows(This, p, This.hidden[Len(This.hidden)], f, This.split[f].win)
      BY <1>1, <1>2, <1>5, NextDoes, PrevDoes
    <2>3. PICK w : Shows(This, t, w, f, This.split[f].win)
      BY <1>3, <2>2
    <2> QED
      BY <1>1, <1>3, <2>1, <2>3, FillIsDrawn
  <1> QED
    BY <1>4, <1>5

(* The handlers that move no window.                                        *)
LEMMA UndrawnFills ==
  ASSUME IInv, FillsItsFrame, undrawn
  PROVE  FillsItsFrame'
PROOF
  <1>1. /\ Whole(This) /\ This \in State
        /\ This.split = split /\ This.frame = frame
    BY DEF IInv, This, Whole, Core
  <1>2. CASE quit \/ follow_dangling_focus \/ backend_free
    BY <1>2, NothingDrawn DEF undrawn, quit, follow_dangling_focus, backend_free,
                              Become, This
  <1>3. CASE \E vertical, increasing \in BOOLEAN : go(vertical, increasing)
    <2>1. PICK vertical \in BOOLEAN, increasing \in BOOLEAN : go(vertical, increasing)
      BY <1>3
    <2>2. PICK new \in Leaves(split) : Become(workspace_focus_frame(This, new))
      BY <2>1 DEF go
    <2>3. new \in Frame /\ new \in Allocated(This.split)
      BY <1>1, <2>2, LeafIsFrame DEF State, Leaves
    <2> DEFINE t == workspace_focus_frame(This, new)
    <2>4. Become(t) /\ t = workspace_focus_frame(This, new)
      BY <2>2
    <2> HIDE DEF t
    <2>5. t.split = split /\ t.frame = frame
      BY <1>1, <2>3, <2>4, FocusEffect
    <2> QED
      BY <2>4, <2>5, NothingDrawn DEF Become, undrawn
  <1> QED
    BY <1>2, <1>3 DEF undrawn

LEMMA WindowsDropped == windows_dropped => FillsItsFrame'
PROOF
  <1> SUFFICES ASSUME windows_dropped, NEW w \in Window PROVE frame'[w] = NULL
    BY DEF FillsItsFrame
  <1>1. frame' = [v \in Window |-> NULL]
    BY DEF windows_dropped, compositor_main_cleanup, Become, This
  <1> QED
    BY <1>1

(* On screens of any size, a window in a frame has the position and the     *)
(* size of that frame after every handler, whether the handler drew this    *)
(* window, the two windows it moved, or every window on every screen.       *)
THEOREM WindowsFillFrames == DrawSpec => []FillsItsFrame
PROOF
  <1>1. DrawInit => FillsItsFrame
    BY DEF DrawInit, Init, FillsItsFrame
  <1>2. IInv /\ FillsItsFrame /\ [DrawNext]_drawing => FillsItsFrame'
    <2> SUFFICES ASSUME IInv, FillsItsFrame, [DrawNext]_drawing PROVE FillsItsFrame'
      OBVIOUS
    <2>1. IInv'
      BY DrawingKeeps
    <2>2. CASE screens_change
      BY <2>1, <2>2, RestoredFills DEF screens_change
    <2>3. CASE window_comes
      BY <2>1, <2>3, WindowComes
    <2>4. CASE window_goes
      BY <2>1, <2>4, WindowGoes
    <2>5. CASE frame_splits
      BY <2>1, <2>5, FrameSplits
    <2>6. CASE windows_swap
      BY <2>1, <2>6, WindowsSwap
    <2>7. CASE frame_goes
      BY <2>1, <2>7, FrameGoes
    <2>8. CASE queue_turns
      BY <2>1, <2>8, QueueTurns
    <2>9. CASE undrawn
      BY <2>9, UndrawnFills
    <2>10. CASE windows_dropped
      BY <2>10, WindowsDropped
    <2>11. CASE UNCHANGED drawing
      BY <2>11, NothingDrawn DEF drawing, vars
    <2> QED
      BY <2>2, <2>3, <2>4, <2>5, <2>6, <2>7, <2>8, <2>9, <2>10, <2>11 DEF DrawNext
  <1> QED
    BY <1>1, <1>2, DrawingInvariance, PTL DEF DrawSpec
=============================================================================
