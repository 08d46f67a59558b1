----------------------------- MODULE MC_Session -----------------------------
(* Session as it is: its constants are numbers and sets of numbers, given   *)
(* by the configurations.                                                   *)
EXTENDS Session
=============================================================================
