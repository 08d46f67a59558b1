------------------------------ MODULE EgcFrame ------------------------------
(* The frame layer of src/src/decode/egc/egc_decoder.cpp: UWFinder takes    *)
(* hard symbols one at a time and returns a frame when the unique word fits *)
(* in either polarity; depermute() and deinterleave() put its bits back in  *)
(* the order the station took them.  A frame has Rows rows (64 in the code) *)
(* of two unique-word symbols and Cols message symbols (160).  The station  *)
(* and the channel, which flips and corrupts symbols, are the environment.  *)
EXTENDS Integers, Sequences, FiniteSets

CONSTANTS
  Rows, Cols,  (* 64, 160                                                    *)
  Step,        (* row i of the message goes out as row i * Step: 23          *)
  nrmPol,      (* the unique word, one symbol a row                          *)
  tolerance,   (* unique-word symbols that may be wrong: 25 of 128           *)
  Messages,    (* the messages sent, Rows * Cols bits each                   *)
  MaxErr,      (* bound: symbols corrupted                                   *)
  MaxSent      (* bound: frames sent                                         *)

(* Step is prime to Rows, and the tolerance is below half of the 2 * Rows   *)
(* symbols of the unique word: what fits upright does not fit reversed.     *)
ASSUME FrameAssumption ==
  /\ Rows \in Nat \ {0} /\ Cols \in Nat \ {0} /\ Step \in Nat
  /\ \A i, j \in 0 .. Rows - 1 : (i * Step) % Rows = (j * Step) % Rows => i = j
  /\ nrmPol \in [1 .. Rows -> {0, 1}]
  /\ tolerance \in Nat /\ tolerance < Rows
  /\ Messages \subseteq [1 .. Rows * Cols -> {0, 1}]
  /\ MaxErr \in Nat /\ MaxSent \in Nat

VARIABLES
  reg,          (* reg_, the newest symbol first; zeros at the start         *)
  symbolCount,  (* symbolCount_                                              *)
  out,          (* what decodeFrame gets of this symbol: bits, or <<>>       *)
  sending,      (* the frame on the air: msg, flip, wrong symbols, sent      *)
  since,        (* symbols since a frame returned out of place               *)
  frames,       (* frames begun                                              *)
  errs          (* symbols corrupted                                         *)

frameVars == <<reg, symbolCount, out, sending, since, frames, errs>>

Row == Cols + 2
kUWFrameLen == Rows * Row

Flip(b) == 1 - b

(* ---------------------------- the receiver ----------------------------- *)
(* detect(): the symbols of r, counted from the oldest, that differ from    *)
(* the unique word w at the head of their row.                              *)
Wrong(r, w) ==
  Cardinality({k \in (0 .. Rows - 1) \X {0, 1} :
                 r[kUWFrameLen - k[1] * Row - k[2]] # w[k[1] + 1]})

revPol == [i \in 1 .. Rows |-> Flip(nrmPol[i])]
Detects(r) == Wrong(r, nrmPol) <= tolerance \/ Wrong(r, revPol) <= tolerance

AsReceived(r) == r                                                       (* mutant *)
Upright(r) == IF Wrong(r, revPol) <= tolerance THEN [i \in DOMAIN r |-> Flip(r[i])] ELSE r

depermute(r) ==
  [i \in 0 .. Rows - 1 |->
     [c \in 1 .. Row |-> r[kUWFrameLen + 1 - (((i * Step) % Rows) * Row + c)]]]

deinterleave(rows) ==
  [k \in 1 .. Rows * Cols |-> rows[(k - 1) % Rows][(k - 1) \div Rows + 3]]

push(sym) ==
  LET r == SubSeq(<<sym>> \o reg, 1, kUWFrameLen)
      found == symbolCount + 1 >= kUWFrameLen /\ Detects(r)
  IN  /\ reg' = r
      /\ symbolCount' = IF found THEN 0 ELSE symbolCount + 1
      /\ out' = IF found THEN deinterleave(depermute(Upright(r))) ELSE <<>>

(* ------------------------ station and channel -------------------------- *)
Place(j) == CHOOSE i \in 0 .. Rows - 1 : (i * Step) % Rows = j

(* Symbol n of the frame of m, from 0: the bits of m fill the columns of a  *)
(* matrix whose rows are sent in the order Place gives, each behind its two *)
(* unique-word symbols.                                                     *)
Symbol(m, n) ==
  LET j == n \div Row  c == n % Row
  IN  IF c < 2 THEN nrmPol[j + 1] ELSE m[(c - 2) * Rows + Place(j) + 1]

FrameInit ==
  /\ reg = [i \in 1 .. kUWFrameLen |-> 0] /\ symbolCount = kUWFrameLen - 1
  /\ out = <<>> /\ since = kUWFrameLen /\ frames = 1 /\ errs = 0
  /\ sending \in [msg : Messages, flip : {0, 1}, wrong : {{}}, sent : {0}]

startFrame ==
  /\ sending.sent = kUWFrameLen /\ frames < MaxSent
  /\ sending' \in [msg : Messages, flip : {0, 1}, wrong : {{}}, sent : {0}]
  /\ frames' = frames + 1 /\ UNCHANGED <<reg, symbolCount, out, since, errs>>

symbol(bad) ==
  /\ sending.sent < kUWFrameLen
  /\ errs + bad <= MaxErr /\ errs' = errs + bad
  /\ push((Symbol(sending.msg, sending.sent) + sending.flip + bad) % 2)
  /\ sending' = [sending EXCEPT !.sent = @ + 1,
                               !.wrong = IF bad = 1 THEN @ \cup {sending.sent} ELSE @]
  /\ since' = IF out' # <<>> /\ sending'.sent < kUWFrameLen THEN 0
              ELSE IF since < kUWFrameLen THEN since + 1 ELSE since
  /\ UNCHANGED frames

FrameNext == startFrame \/ \E bad \in {0, 1} : symbol(bad)

FrameSpec == FrameInit /\ [][FrameNext]_frameVars

(* ------------------------------ properties ----------------------------- *)
IsUW(n) == n % Row < 2
Differ(a, b) == Cardinality({k \in DOMAIN a : a[k] # b[k]})

(* A frame whose unique word has no more wrong symbols than tolerance_ is   *)
(* returned with its last symbol, in either polarity and right behind the   *)
(* frame before it; its bits are the message's but for the corrupted ones.  *)
(* Only a frame returned out of place less than a frame ago hides it.       *)
FrameRecovered ==
  /\ sending.sent = kUWFrameLen /\ since >= kUWFrameLen
  /\ Cardinality({n \in sending.wrong : IsUW(n)}) <= tolerance
  => /\ out # <<>>
     /\ Differ(out, sending.msg) = Cardinality({n \in sending.wrong : ~IsUW(n)})
====
