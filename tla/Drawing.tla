------------------------------ MODULE Drawing ------------------------------
(***************************************************************************)
(* Where windows are drawn.  A frame is a part of its screen, found on the *)
(* way up from the frame (get_sides) when one window is drawn, and on the  *)
(* way down from the root (do_at_each) when the workspace is rendered      *)
(* again; redraw_frame() rounds it to pixels and tells the window.  This   *)
(* module adds to every handler of Workspace what it tells the windows.    *)
(***************************************************************************)
EXTENDS Workspace

CONSTANTS
  Width, Height   \* the size of an output in pixels

ASSUME SizeAssumption == Width \in Nat /\ Height \in Nat

VARIABLE
  told   \* the rectangle a window in a frame was last given, else NULL

drawing == <<vars, told>>

-----------------------------------------------------------------------------
(* Fractions <<numerator, denominator>> of a screen.  The floats of the code *)
(* hold them exactly: every split is at one half.                            *)

Zero == <<0, 1>>
One  == <<1, 1>>

(* a + (b - a) * f *)
Between(a, b, f) ==
  << a[1] * b[2] * f[2] + (b[1] * a[2] - a[1] * b[2]) * f[1],
     a[2] * b[2] * f[2] >>

Sides == [{"t", "b", "l", "r"} -> Int \X Int]
EntireScreen == [side \in {"t", "b", "l", "r"} |->
                   IF side \in {"t", "l"} THEN Zero ELSE One]

(* A frame, and sides that are carried up or down the tree to it. *)
Part(h) == Allocated(h) \X Sides

(* The two sides that the split of a node can move. *)
Along(vertical) == IF vertical THEN {"t", "b"} ELSE {"l", "r"}

(* The sides of frame f, scaled into the part of each ancestor in turn. *)
get_sides(h, f) ==
  LET up[at \in Part(h)] ==
        LET g    == at[1]
            s    == at[2]
            over == h[g].parent
            into(x) == IF h[over].frames[1] = g
                       THEN Between(h[over].fraction, One, x)
                       ELSE Between(Zero, h[over].fraction, x)
        IN  IF over = NULL THEN s
            ELSE up[<<over, [side \in DOMAIN s |->
                               IF side \in Along(h[over].isvertical)
                               THEN into(s[side]) ELSE s[side]]>>]
  IN  up[<<f, EntireScreen>>]

(* A mutation: the border is a fraction of the screen, not of the frame. *)
do_at_each_absolute(h, r) ==
  LET down[at \in Part(h)] ==
        LET g    == at[1]
            s    == at[2]
            n    == h[g]
            line == n.fraction
            near == IF n.isvertical THEN "t" ELSE "l"
            far  == IF n.isvertical THEN "b" ELSE "r"
        IN  IF n.isleaf THEN {<<g, s>>}
            ELSE down[<<n.frames[0], [s EXCEPT ![far] = line]>>] \cup
                 down[<<n.frames[1], [s EXCEPT ![near] = line]>>]
  IN  down[<<r, EntireScreen>>]

(* The leaves below root r with the sides that each is given. *)
do_at_each(h, r) ==
  LET down[at \in Part(h)] ==
        LET g    == at[1]
            s    == at[2]
            n    == h[g]
            near == IF n.isvertical THEN "t" ELSE "l"
            far  == IF n.isvertical THEN "b" ELSE "r"
            line == Between(s[near], s[far], n.fraction)
        IN  IF n.isleaf THEN {<<g, s>>}
            ELSE down[<<n.frames[0], [s EXCEPT ![far] = line]>>] \cup
                 down[<<n.frames[1], [s EXCEPT ![near] = line]>>]
  IN  down[<<r, EntireScreen>>]

(* roundf(f * (size - 1)) for f >= 0. *)
frac_of(f, size) == (2 * f[1] * (size - 1) + f[2]) \div (2 * f[2])

(* A mutation: the size is rounded, and not the far side. *)
redraw_frame_rounds_size(s) ==
  LET length(near, far) == << far[1] * near[2] - near[1] * far[2], near[2] * far[2] >>
  IN  [ x |-> frac_of(s["l"], Width), y |-> frac_of(s["t"], Height),
        w |-> frac_of(length(s["l"], s["r"]), Width),
        h |-> frac_of(length(s["t"], s["b"]), Height) ]

(* The rectangle of redraw_frame().  Every output starts at (0, 0). *)
redraw_frame(s) ==
  LET x == frac_of(s["l"], Width)
      y == frac_of(s["t"], Height)
  IN  [ x |-> x, y |-> y, w |-> frac_of(s["r"], Width) - x,
        h |-> frac_of(s["b"], Height) - y ]

-----------------------------------------------------------------------------
(* What a handler tells the windows that are in frames after it.  A window  *)
(* that is hidden is told again before it is shown, so it is forgotten.     *)

draw_in(places) ==
  told' = [w \in Window |->
             LET at == {p \in places : split'[p[1]].win = w}
             IN  IF frame'[w] = NULL THEN NULL
                 ELSE IF at = {} THEN told[w]
                 ELSE redraw_frame((CHOOSE p \in at : TRUE)[2])]

(* draw_window() for the windows of some frames. *)
draw(frames) ==
  draw_in({<<f, get_sides(split', f)>> :
             f \in {x \in frames \cap Leaves(split') : split'[x].screen # NULL}})

(* restore_cb() on every leaf of every root. *)
restore == draw_in(UNION {do_at_each(split', r) : r \in Elems(roots')})

(* The frames that dosplit draws: both children.  A mutation forgets that   *)
(* the window that stays has become smaller.                                *)
split_draws_new == {split'[focus].frames[1]}
split_draws     == {split'[focus].frames[0], split'[focus].frames[1]}

DrawInit == Init /\ told = [w \in Window |-> NULL]

screens_change ==
  /\ \E screen \in Screen :
       handle_new_output(screen) \/ handle_output_destroyed(screen)
  /\ restore

window_comes == (\E w \in Window : handle_window_new(w)) /\ draw({focus})

window_goes == \E w \in Window : handle_window_destroy(w) /\ draw({frame[w]})

frame_splits == (\E vertical \in BOOLEAN : dosplit(vertical)) /\ draw(split_draws)

windows_swap ==
  /\ \E vertical, increasing \in BOOLEAN : swap(vertical, increasing)
  /\ IF focus' = focus THEN UNCHANGED told ELSE draw({focus, focus'})

frame_goes ==
  /\ remove_frame
  /\ IF split[focus].parent = NULL THEN UNCHANGED told ELSE restore

queue_turns ==
  /\ next_win \/ prev_win
  /\ IF hidden = <<>> THEN UNCHANGED told ELSE draw({focus})

undrawn ==
  /\ \/ \E vertical, increasing \in BOOLEAN : go(vertical, increasing)
     \/ quit \/ follow_dangling_focus \/ backend_free
  /\ UNCHANGED told

windows_dropped == compositor_main_cleanup /\ draw({})

DrawNext ==
  \/ screens_change \/ window_comes \/ window_goes \/ frame_splits
  \/ windows_swap \/ frame_goes \/ queue_turns \/ undrawn \/ windows_dropped

DrawSpec == DrawInit /\ [][DrawNext]_drawing

-----------------------------------------------------------------------------
(* A window in a frame has the position and the size of that frame.  The    *)
(* code: a frame changes its size when it, its sibling or an ancestor is    *)
(* split or removed, and each handler draws only the windows it takes to be *)
(* concerned, some by get_sides(), some by do_at_each().                    *)
FillsItsFrame ==
  \A w \in Window : frame[w] # NULL =>
    told[w] = redraw_frame(get_sides(split, frame[w]))

(* Going up from a leaf and coming down from its root give it the same      *)
(* part of the screen.  The code: get_sides() scales a side once for every  *)
(* ancestor it can move with, do_at_each() cuts each node where its parent  *)
(* was cut already.                                                         *)
BothWaysAgree ==
  \A r \in Elems(roots) : \A d \in do_at_each(split, r), side \in DOMAIN EntireScreen :
    LET down == d[2][side]
        up   == get_sides(split, d[1])[side]
    IN  down[1] * up[2] = up[1] * down[2]

Inside(x, y, box) ==
  /\ x \in box.x..(box.x + box.w - 1)
  /\ y \in box.y..(box.y + box.h - 1)

(* Rounding neither skips a pixel between two neighbours nor gives one to   *)
(* both (the doubt of workspace.c:151): every pixel of a screen but those   *)
(* of its last row and column, which frac_of() never reaches, lies in       *)
(* exactly one leaf.                                                        *)
LeavesTile ==
  \A r \in Elems(roots), x \in 0..(Width - 2), y \in 0..(Height - 2) :
    Cardinality({d \in do_at_each(split, r) :
                   Inside(x, y, redraw_frame(d[2]))}) = 1
=============================================================================
