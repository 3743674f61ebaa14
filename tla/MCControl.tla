----------------------------- MODULE MCControl ------------------------------
(* A program that uses the library, venowm started with a command, and      *)
(* venowm started with a word it does not know.                             *)
EXTENDS Control

MCProgram ==
  [library |-> "library", command |-> "focus", mistyped |-> "other word"]
=============================================================================
