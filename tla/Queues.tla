------------------------------- MODULE Queues -------------------------------
(***************************************************************************)
(* Lists without duplicates: the hidden windows of a workspace             *)
(* (workspace.c), the roots, and the screens (the macros of venowm.h).     *)
(***************************************************************************)
EXTENDS Naturals, Sequences, FiniteSets

Elems(q) == {q[i] : i \in 1..Len(q)}

Distinct(q) == \A i, j \in 1..Len(q) : i # j => q[i] # q[j]

(* Takes an element out of the middle and closes the gap. *)
Without(q, x) ==
  IF x \notin Elems(q) THEN q
  ELSE LET at == CHOOSE i \in 1..Len(q) : q[i] = x
       IN  [j \in 1..(Len(q) - 1) |-> IF j < at THEN q[j] ELSE q[j + 1]]

(* The sequences that list a finite set. *)
Orderings(S) ==
  {q \in [1..Cardinality(S) -> S] : Distinct(q) /\ Elems(q) = S}
=============================================================================
