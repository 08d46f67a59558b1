--------------------------- MODULE DecoderStream ---------------------------
(* What the decoder manager promises a decoder, whose filters and phase     *)
(* rely on it (Decoder::process as workerLoop calls it, from the copies of  *)
(* shared_ptr that "keep decoders alive", decoder_manager.cpp l.305).  The  *)
(* stream comes in numbered blocks.  A decoder gets blocks one at a time    *)
(* and in order; of those captured since it was created it gets every one   *)
(* but as many as are counted as dropped; and when it is taken off it gets  *)
(* one more at most, the one it is being handed, and nothing afterwards.    *)
EXTENDS Integers, Sequences, FiniteSets

CONSTANTS
  MaxId      (* decoders there can be *)

VARIABLES
  captured,  (* blocks captured so far                            *)
  lost,      (* blocks counted as dropped                         *)
  fresh,     (* the next decoder                                  *)
  live,      (* the decoders there are                            *)
  leaving,   (* those taken off while being handed a block        *)
  heard,     (* decoder -> the blocks it got, in order            *)
  joined     (* decoder -> captured when it was created           *)

vars == <<captured, lost, fresh, live, leaving, heard, joined>>

Init ==
  /\ captured = 0 /\ lost = 0 /\ fresh = 1
  /\ live = {} /\ leaving = {}
  /\ heard = [id \in 1 .. MaxId |-> <<>>]
  /\ joined = [id \in 1 .. MaxId |-> 0]

Capture ==
  /\ captured' = captured + 1
  /\ UNCHANGED <<lost, fresh, live, leaving, heard, joined>>

Lose ==
  /\ lost' = lost + 1
  /\ UNCHANGED <<captured, fresh, live, leaving, heard, joined>>

Join ==
  /\ fresh \in 1 .. MaxId
  /\ fresh' = fresh + 1
  /\ live' = live \union {fresh}
  /\ joined' = [joined EXCEPT ![fresh] = captured]
  /\ UNCHANGED <<captured, lost, leaving, heard>>

(* Some decoders are taken off, those among them that are being handed a    *)
(* block once that is done.                                                 *)
Leave ==
  /\ live' \subseteq live
  /\ leaving \subseteq leaving' /\ leaving' \subseteq leaving \union (live \ live')
  /\ UNCHANGED <<captured, lost, fresh, heard, joined>>

(* What decoder id missed of its blocks before b.                           *)
Missed(id, b) ==
  b - joined[id] - 1 - Cardinality({i \in DOMAIN heard[id] : heard[id][i] > joined[id]})

(* The decoders of S get block b, one that is leaving its last.             *)
Hear(S, b) ==
  /\ S \subseteq live \union leaving
  /\ b \in 1 .. captured
  /\ \A id \in S :
       /\ \A i \in DOMAIN heard[id] : heard[id][i] < b
       /\ b > joined[id] => Missed(id, b) <= lost
  /\ heard' = [id \in 1 .. MaxId |-> IF id \in S THEN Append(heard[id], b) ELSE heard[id]]
  /\ leaving' = leaving \ S
  /\ UNCHANGED <<captured, lost, fresh, live, joined>>

Next ==
  \/ Capture \/ Lose \/ Join \/ Leave
  \/ \E S \in SUBSET (live \union leaving), b \in 1 .. captured : Hear(S, b)

Spec == Init /\ [][Next]_vars
=============================================================================
