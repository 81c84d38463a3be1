---------------------------- MODULE MCChatHistory ----------------------------
(* Two sessions, the second one only ever a fork, and two reductions, which *)
(* are interchangeable.                                                     *)
EXTENDS ChatHistory

JobSymmetry == Permutations(Jobs)
=============================================================================
