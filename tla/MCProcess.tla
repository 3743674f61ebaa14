----------------------------- MODULE MCProcess -----------------------------
(***************************************************************************)
(* Two children at a time, argument lists of up to two strings, of which   *)
(* one is empty and two differ in length, and messages packed otherwise.   *)
(***************************************************************************)
EXTENDS Process

MCString == {<<>>, <<1>>, <<2, 1>>}
MCArgv   == UNION {[1..n -> MCString] : n \in 0..2}

(* Bytes without lengths; lengths that do not add up; a string that does    *)
(* not end; a length of 0, in front and behind.                             *)
MCOther ==
  { [argv |-> <<1, 0>>, argvlen |-> q] : q \in {<<>>, <<3>>, <<1, 1>>, <<0, 2>>, <<2, 0>>} }
=============================================================================
