---------------------------- MODULE MCContainers ----------------------------
(* The containers on small constants.  The hashes of the windows collide in *)
(* a table of four buckets, some of them also in one of eight.              *)
EXTENDS Containers, TLC

CONSTANTS w1, w2, w3, w4, w5

MCWindow == {w1, w2, w3, w4, w5}
MCHash   == w1 :> 0 @@ w2 :> 4 @@ w3 :> 1 @@ w4 :> 9 @@ w5 :> 2

Symmetry == Permutations(Info)
=============================================================================
