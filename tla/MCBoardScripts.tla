---------------------------- MODULE MCBoardScripts ---------------------------
(* Instances of BoardScripts for TLC. *)
EXTENDS BoardScripts, TLC

\* The calls of uno220uart differ in nothing but their names.
AnyUartCall == Permutations(UartCalls)
=============================================================================
