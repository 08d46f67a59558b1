---------------------------- MODULE MC_Reception ----------------------------
(* Five parts of the receive side that share no state, one of them chosen   *)
(* by each initial state: the centering and the call detection of the LTE   *)
(* engine and the packet, frame and code layers of the EGC decoder.         *)
EXTENDS LteCentering, LteCalls, EgcDecoder, EgcFrame, MC_EgcCode

VARIABLE part

(* Values of constants that a .cfg cannot write.                            *)
UniqueWord == <<0, 1, 1, 0, 1>>
TwoMessages == {<<1, 0, 0, 1, 0, 0, 0, 1, 1, 0>>, <<0, 1, 1, 0, 1, 1, 1, 0, 1, 0>>}

(* Packets in two parts.  The checksum fits EGC message 1 and AA packet 1   *)
(* of message 2, whose first parts are exchanged unnoticed; the first part  *)
(* of EGC message 2 is near the first's; the rest of AA packet 2 is longer; *)
(* the others have no checksum.                                             *)
SmallFront(p) ==
  CASE p.kind = "egc"    -> IF p.id = 1 THEN <<1, 0, 0>> ELSE <<1, 3, 0>>
    [] p.kind = "aa"     -> <<2, p.id, p.no>>
    [] p.kind = "term"   -> <<3, 2, 3>>
    [] p.kind = "nested" -> <<2, 1, 1>>
SmallBack(p) == IF p.kind = "aa" /\ p.no = 2 THEN <<1, 1>> ELSE <<1>>
SmallCrc(p) ==
  IF p.kind = "egc" \/ (p.kind = "aa" /\ p.id = 2 /\ p.no < 2) THEN <<1, 1>> ELSE <<0, 0>>
OneZap == {<<2, 0>>}
SmallHalves ==
  {p \in Split(1) : p.kind \in {"egc", "nested"}}
  \cup {p \in Split(2) : p.kind = "term" \/ (p.kind = "aa" /\ p.id = p.no)}
  \cup {p \in Split(2) : p.kind = "aa" /\ p.id = 2 /\ p.no = 1}
SmallWholes == (Split(1) \cup Split(2)) \ SmallHalves

ReceptionInit ==
  /\ part \in {"centering", "calls", "egc", "frame", "code"}
  /\ Init /\ (part # "centering" => off = 0)
  /\ CallInit /\ EgcInit
  /\ FrameInit /\ (part # "frame" => sending.flip = 0 /\ sending.msg[1] = 0)
  /\ CodeInit /\ (part # "code" => data[1][1] = 1)

ReceptionNext ==
  /\ UNCHANGED part
  /\ \/ part = "centering" /\ Next /\ UNCHANGED <<callVars, egcVars, frameVars, codeVars>>
     \/ part = "calls" /\ CallNext /\ UNCHANGED <<vars, egcVars, frameVars, codeVars>>
     \/ part = "egc" /\ EgcNext /\ UNCHANGED <<vars, callVars, frameVars, codeVars>>
     \/ part = "frame" /\ FrameNext /\ UNCHANGED <<vars, callVars, egcVars, codeVars>>
     \/ part = "code" /\ CodeNext /\ UNCHANGED <<vars, callVars, egcVars, frameVars>>

ReceptionSpec ==
  ReceptionInit /\ [][ReceptionNext]_<<part, vars, callVars, egcVars, frameVars, codeVars>>
====
