------------------------------- MODULE MC_Lte -------------------------------
(* The LTE engine on a small instance: two decode threads, a cell decoded   *)
(* at twice the rate of the search.                                         *)
EXTENDS LteEngine
====
