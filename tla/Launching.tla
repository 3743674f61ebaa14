----------------------------- MODULE Launching -----------------------------
(***************************************************************************)
(* How the arguments of "venowm launch" travel: venowm_launch() packs them *)
(* into one array of bytes and one of lengths, venowm_control_launch()     *)
(* checks both and finds the arguments again by adding up the lengths.  A  *)
(* string is a sequence of bytes without Nul.                              *)
(***************************************************************************)
EXTENDS Integers, SequencesExt

Nul  == 0
Byte == 1..255

(* A mutation: the lengths are those of strlen(). *)
pack_unterminated(argv) ==
  [ argv    |-> FlattenSeq([i \in DOMAIN argv |-> Append(argv[i], Nul)]),
    argvlen |-> [i \in DOMAIN argv |-> Len(argv[i])] ]

(* libvenowm.c.  Every argument goes with its terminator, and its length    *)
(* counts it.                                                               *)
pack(argv) ==
  [ argv    |-> FlattenSeq([i \in DOMAIN argv |-> Append(argv[i], Nul)]),
    argvlen |-> [i \in DOMAIN argv |-> Len(argv[i]) + 1] ]

(* venowm_control.c.  Where the i-th argument starts, counted from 0. *)
Offset(m, i) ==
  LET at[j \in 1..(Len(m.argvlen) + 1)] ==
        IF j = 1 THEN 0 ELSE at[j - 1] + m.argvlen[j - 1]
  IN  at[i]

IsEmpty(m) == m.argv = <<>> \/ m.argvlen = <<>>

(* Where a string should end.  With a length of 0 for the first one this    *)
(* reads the byte before the array.                                         *)
LastByte(m, i, before) ==
  LET n == Offset(m, i) + m.argvlen[i]
  IN  IF n = 0 THEN before ELSE m.argv[n]

IsWellPacked(m, before) ==
  /\ Offset(m, Len(m.argvlen) + 1) = Len(m.argv)
  /\ \A i \in DOMAIN m.argvlen : LastByte(m, i, before) = Nul

Accepts(m, before) == ~IsEmpty(m) /\ IsWellPacked(m, before)

(* The string at an offset, as execvp() reads it: up to the first Nul. *)
StringAt(m, offset) ==
  LET end == CHOOSE n \in offset + 1..Len(m.argv) :
               m.argv[n] = Nul /\ \A k \in offset + 1..n - 1 : m.argv[k] # Nul
  IN  SubSeq(m.argv, offset + 1, end - 1)

(* The argument list that is executed. *)
unpack(m) == [i \in DOMAIN m.argvlen |-> StringAt(m, Offset(m, i))]
=============================================================================
