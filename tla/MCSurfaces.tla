----------------------------- MODULE MCSurfaces -----------------------------
(* Surfaces on small sets of model values. *)
EXTENDS Surfaces, TLC

Symmetry == Permutations(Surface) \cup Permutations(Window)
=============================================================================
