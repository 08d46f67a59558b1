---------------------------- MODULE RecentSamples ----------------------------
(* What the ring between the SDR thread and the spectrum display promises   *)
(* (the comments of src/src/dsp/iq_ring.h): it remembers the last Cap       *)
(* samples pushed since it was cleared, and a reader gets the n most recent *)
(* of them, oldest first, or is refused.                                    *)
EXTENDS Integers, Sequences

CONSTANTS
  Cap,       (* samples the ring can hold                       *)
  Blocks,    (* the blocks a producer may push: sequences of samples *)
  Sizes      (* the numbers of samples a reader may ask for          *)

VARIABLES
  recent,    (* the samples remembered, oldest first        *)
  reply      (* the answer to the last reader: [ok, out]    *)

Least(a, b) == IF a <= b THEN a ELSE b

(* The last n elements of s, all of s if it has no more. *)
Latest(s, n) ==
  LET k == Least(Len(s), n)
  IN  [i \in 1 .. k |-> s[Len(s) - k + i]]

Refused == [ok |-> FALSE, out |-> <<>>]

Init == recent = <<>> /\ reply = Refused

Push(b) ==
  /\ recent' = Latest(recent \o b, Cap)
  /\ UNCHANGED reply

Read(n) ==
  /\ reply' = IF n <= Len(recent) THEN [ok |-> TRUE, out |-> Latest(recent, n)] ELSE Refused
  /\ UNCHANGED recent

Clear == recent' = <<>> /\ UNCHANGED reply

Next ==
  \/ \E b \in Blocks : Push(b)
  \/ \E n \in Sizes : Read(n)
  \/ Clear

vars == <<recent, reply>>
Spec == Init /\ [][Next]_vars
=============================================================================
