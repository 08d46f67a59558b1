------------------------------- MODULE IqRing -------------------------------
(* The ring of src/src/dsp/iq_ring.h: the SDR thread pushes blocks of IQ    *)
(* samples, the GUI thread copies the most recent n for the spectrum        *)
(* (processFft) and clears the ring when a source is started (startActive). *)
(*                                                                         *)
(* Every operation holds mtx_ from its first line to its last, so each is   *)
(* one step to the other thread.  A sample is a value of Samples; the ring  *)
(* is filled with Zero by the constructor and by clear().  write_ and       *)
(* total_ are unbounded here: 2^64 samples take thousands of years.         *)
EXTENDS Integers, Sequences

CONSTANTS
  Cap,        (* capacityComplex: 2^21 samples in the application          *)
  Samples,    (* values of a sample                                        *)
  Zero,       (* the value the ring is filled with                         *)
  MaxPush,    (* bound: samples in one block                               *)
  MaxTotal    (* bound: samples pushed between two clears                  *)

ASSUME RingAssumption ==
  /\ Cap \in Nat \ {0}
  /\ Zero \in Samples
  /\ MaxPush \in Nat
  /\ MaxTotal \in Nat

VARIABLES
  buf,      (* buf_, one entry per complex sample                          *)
  write,    (* write_                                                      *)
  total,    (* total_                                                      *)
  reply     (* what latest() last returned: [ok, out]                      *)

vars == <<buf, write, total, reply>>

Slots == 0 .. Cap - 1

TypeOK ==
  /\ buf \in [Slots -> Samples]
  /\ write \in Nat
  /\ total \in Nat
  /\ reply.ok \in BOOLEAN /\ reply.out \in Seq(Samples)

available == IF total < Cap THEN total ELSE Cap

LatestOf(S) == CHOOSE i \in S : \A j \in S : j <= i

(* The loop of push(): sample i of the block goes to slot write_ + i - 1;   *)
(* of those that meet in a slot the last one stays.                         *)
Written(b) == [j \in Slots |->
  LET Hits == {i \in 1 .. Len(b) : (write + i - 1) % Cap = j}
  IN  IF Hits = {} THEN buf[j] ELSE b[LatestOf(Hits)]]

Counted(b) == total + Len(b)

push(b) ==
  /\ buf'   = Written(b)
  /\ write' = write + Len(b)
  /\ total' = Counted(b)
  /\ UNCHANGED reply

FromTheEnd(n) == write - n + 1                                           (* mutant *)
Start(n) == write - n

(* Chronological: the copy starts n samples before the write position.      *)
Copied(n) == [i \in 1 .. n |-> buf[(Start(n) + i - 1) % Cap]]

latest(n) ==
  /\ reply' = IF n > Cap \/ total < n THEN [ok |-> FALSE, out |-> <<>>]
                                      ELSE [ok |-> TRUE, out |-> Copied(n)]
  /\ UNCHANGED <<buf, write, total>>

WriteCleared == 0

clear ==
  /\ write' = WriteCleared
  /\ total' = 0
  /\ buf'   = [j \in Slots |-> Zero]
  /\ UNCHANGED reply

Init ==
  /\ buf = [j \in Slots |-> Zero]
  /\ write = 0 /\ total = 0
  /\ reply = [ok |-> FALSE, out |-> <<>>]

Block == UNION {[1 .. n -> Samples] : n \in 1 .. MaxPush}
Sizes == 1 .. Cap + 1

Next ==
  \/ \E b \in Block : total + Len(b) <= MaxTotal /\ push(b)
  \/ \E n \in Sizes : latest(n)
  \/ clear

Spec == Init /\ [][Next]_vars

-----------------------------------------------------------------------------
(* Properties.                                                              *)

(* write_ and total_ never part, so the start of a copy that latest() makes *)
(* (it requires n <= total_) is never negative: the unsigned wrap the       *)
(* comment at l.46 allows for does not happen.                              *)
CountersAgree == write = total

(* What the slots hold, oldest first.                                       *)
Held == [i \in 1 .. available |-> buf[(write - available + i - 1) % Cap]]

(* The ring keeps the promise of RecentSamples: latest() returns exactly    *)
(* the newest n samples in order, none from before the last clear(), and    *)
(* refuses exactly when there are not that many.                            *)
Recent == INSTANCE RecentSamples WITH Blocks <- Block, recent <- Held
KeepsRecent == Recent!Spec
=============================================================================
