----------------------------- MODULE MCDrawing -----------------------------
(* The core and what it draws, on small sets of model values. *)
EXTENDS Drawing, TLC

Symmetry == Permutations(Frame) \cup Permutations(Window) \cup Permutations(Screen)
=============================================================================
