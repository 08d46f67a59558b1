----------------------------- MODULE EgcDecoder -----------------------------
(* The packet layer of src/src/decode/egc/egc_decoder.cpp behind two        *)
(* channels, and the EgcLog of src/src/decode/message_log.h they share.     *)
(* Each channel is decoded by a thread of its own.  A frame on the air      *)
(* carries one packet, which may be lost or sent again.  A packet is        *)
(*   egc   one segment of EGC message id (0xB1, 0xB2)                       *)
(*   term  a terminal activity packet (0x92, 0x81, 0x83 ...)                *)
(*   aa    packet no of message id of a LES channel (0xAA)                  *)
(*   bd    the first part of another packet (0xBD)                          *)
(*   be    the second part of another packet (0xBE)                         *)
(* Of a packet sent in two parts the bytes are kept, for its checksum.      *)
EXTENDS Integers, Sequences, FiniteSets

CONSTANTS
  Channels,   (* decoders, each on a worker of its own                      *)
  Ids,        (* message ids of EGC messages; not 0                         *)
  MaxPkt,     (* packets of an AA message                                   *)
  Zaps,       (* <<id, no>> of the AA packets of a zap test                 *)
  Wholes,     (* packets sent in one frame                                  *)
  Halves,     (* packets sent in two parts, where a frame ends              *)
  Base,       (* values of a byte: 256                                      *)
  front(_),   (* bytes of a packet in its first part; its header is there   *)
  back(_),    (* bytes in its second part                                   *)
  crc(_),     (* its two CRC bytes, which are the second part's as well     *)
  kMax,       (* entries of a log: 2000                                     *)
  MaxMsg,     (* bound: AA messages of a LES channel                        *)
  MaxFrames   (* bound: frames received                                     *)

VARIABLES
  frame,      (* channel -> the frame deinterleave() fills mat with, or None *)
  seen,       (* channel -> frames of others in mat since it began           *)
  mfa,        (* channel -> mfaActive, mfaData, mfaExpected; head is the     *)
              (* packet of the first part, overlapped as for the log         *)
  joined,     (* history: channel -> its last two parts, and whether the     *)
              (* last put something into the log                             *)
  chain,      (* channel -> its entry of aaBuf: last (pktNo), ita2, text     *)
  onAir,      (* channel -> the AA message its station is sending            *)
  log,        (* EgcLog: entries [ch, id, text]                              *)
  received    (* frames received                                             *)

egcVars == <<frame, seen, mfa, joined, chain, onAir, log, received>>

None == [kind |-> "none"]
Busy == {c \in Channels : frame[c] # None}

AaNumbers == [id : 1 .. MaxMsg, no : 0 .. MaxPkt]
AaPacket(c, a) == [kind |-> "aa", ch |-> c, id |-> a.id, no |-> a.no,
                   ita2 |-> a.id % 2 = 1, zap |-> <<a.id, a.no>> \in Zaps]

(* Packets of a frame of their own, and packets sent in two parts: nested   *)
(* is a first part inside of a first part.                                  *)
Plain(c) == [kind : {"egc"}, ch : {c}, id : Ids] \cup [kind : {"term"}, ch : {c}, id : {0}]
Nested(c) == [kind : {"nested"}, ch : {c}, id : {0}]
Split(c) == Plain(c) \cup Nested(c) \cup {AaPacket(c, a) : a \in AaNumbers}
Part(k, q) == [kind |-> k, ch |-> q.ch, of |-> q]

Bytes == 0 .. Base - 1

ASSUME EgcAssumption ==
  /\ MaxPkt \in Nat /\ MaxMsg \in Nat /\ MaxFrames \in Nat
  /\ kMax \in Nat \ {0} /\ Base \in Nat \ {0}
  /\ \A c \in Channels : \A q \in Split(c) :
       front(q) \in Seq(Bytes) /\ back(q) \in Seq(Bytes) /\ crc(q) \in Seq(Bytes) /\ Len(crc(q)) = 2

EgcInit ==
  /\ frame = [c \in Channels |-> None]
  /\ seen = [c \in Channels |-> {}]
  /\ mfa = [c \in Channels |->
       [active |-> FALSE, head |-> None, data |-> <<>>, expected |-> 0, overlapped |-> FALSE]]
  /\ joined = [c \in Channels |-> [before |-> None, part |-> None, put |-> FALSE]]
  /\ chain = [c \in Channels |-> [last |-> 0, ita2 |-> FALSE, text |-> <<>>]]
  /\ onAir = [c \in Channels |-> 0]
  /\ log = <<>> /\ received = 0

(* ------------------------------ checksum ------------------------------- *)
(* The running sums C0 and C1 of a packet, whose last two bytes count as 0. *)
sums(s) ==
  LET C[i \in 0 .. Len(s)] ==
        IF i = 0 THEN <<0, 0>>
        ELSE LET c0 == (C[i - 1][1] + IF i <= Len(s) - 2 THEN s[i] ELSE 0) % Base
             IN  <<c0, (C[i - 1][2] + c0) % Base>>
  IN  C

egcCrc(s) ==
  LET C == sums(s)[Len(s)] IN <<(C[1] - C[2]) % Base, (C[2] - 2 * C[1]) % Base>>

crcBytesOf(s) == SubSeq(s, Len(s) - 1, Len(s))
crcOk(s) == Len(s) >= 2 /\ crcBytesOf(s) \in {<<0, 0>>, egcCrc(s)}

(* ------------------------------ EgcLog --------------------------------- *)
AnyChannel(e, ch, id) == e.id = id                                       (* mutant *)
SameMessage(e, ch, id) == e.ch = ch /\ e.id = id

Entries(ch, id) == {i \in DOMAIN log : SameMessage(log[i], ch, id)}

Kept(s) == IF Len(s) > kMax THEN SubSeq(s, Len(s) - kMax + 1, Len(s)) ELSE s

(* add(): a message joins the newest entry with its channel and id.         *)
Added(ch, id, t) ==
  IF Entries(ch, id) = {}
  THEN Kept(Append(log, [ch |-> ch, id |-> id, text |-> <<t>>]))
  ELSE LET i == CHOOSE i \in Entries(ch, id) : \A j \in Entries(ch, id) : j <= i
       IN  [log EXCEPT ![i].text = Append(@, t)]

(* ---------------------------- decodeFrame ------------------------------ *)
(* t is where a text comes from: channels, whether another one was in       *)
(* deinterleave() too, and whether it was put together from two packets.    *)
emitEgc(c, id, t) == log' = Added(c, id, t) /\ UNCHANGED chain

(* Every terminal packet is an EGC message with id 0.                       *)
emitTerminal(c, t) == emitEgc(c, 0, t)

AppendAlways(last, no) == TRUE                                           (* mutant *)
Continues(last, no) == no > 1 /\ no > last

(* handleAaPacket: told as a terminal packet, and unless it is a zap test   *)
(* assembled.  Packets 0 and 1 begin a text, a later one continues it, gaps *)
(* allowed, one that is not later replaces it.  The encoding is chosen when *)
(* no packet, or packet 0, came before, and kept for what follows.          *)
handleAaPacket(c, p, t) ==
  LET m == chain[c] IN
  /\ log' = Added(c, 0, t)                                (* emitTerminal     *)
  /\ chain' = IF p.zap THEN chain ELSE [chain EXCEPT ![c] =
       [last |-> p.no,
        ita2 |-> IF m.last = 0 THEN p.ita2 ELSE m.ita2,
        text |-> Append(IF Continues(m.last, p.no) THEN m.text ELSE <<>>,
                        [id |-> p.id, no |-> p.no, sure |-> ~t.overlapped /\ ~t.mixed])]]

(* A packet with the right checksum, of a frame or of a multiframe buffer.  *)
(* A nested first part sets up the buffer it is in, which endMultiframe     *)
(* then gives up: nothing is left of it.                                    *)
decodePacket(c, p, t) ==
  \/ p.kind = "egc" /\ emitEgc(c, p.id, t)
  \/ p.kind = "term" /\ emitTerminal(c, t)
  \/ p.kind = "aa" /\ handleAaPacket(c, p, t)
  \/ p.kind = "nested" /\ UNCHANGED <<chain, log>>

Whole(p) == front(p) \o back(p) \o crc(p)
SecondPart(p) == <<190 % Base, (Len(back(p)) + 2) % Base>> \o back(p) \o crc(p)

noted(c, p) == joined' =
  [joined EXCEPT ![c] = [before |-> @.part, part |-> p, put |-> log' # log]]

(* 0xBD: the first part goes to the front of mfaData; its header tells how  *)
(* long the packet is.                                                      *)
beginMultiframe(c, p, ov) ==
  /\ mfa' = [mfa EXCEPT ![c] =
       [active |-> TRUE, head |-> p.of, data |-> front(p.of), expected |-> Len(Whole(p.of)),
        overlapped |-> ov]]
  /\ UNCHANGED <<chain, log>> /\ noted(c, p)

(* What mfaData holds after the second part of p: its own CRC bytes are     *)
(* taken for those of the packet.                                           *)
Taken(m, p) ==
  IF Len(m.data) + Len(back(p)) + 2 <= m.expected THEN m.data \o back(p) \o crc(p) ELSE m.data

Complete(m, data) == Len(data) = m.expected /\ crcOk(data)

StillActive(m, data) == [m EXCEPT !.data = data]                         (* mutant *)
AfterSecond(m, data) == [m EXCEPT !.active = FALSE, !.data = data]

(* 0xBE: the second part follows whatever first part is there.              *)
endMultiframe(c, p, ov) ==
  LET m == mfa[c]
      data == Taken(m, p.of)
      t == [from |-> {m.head.ch, p.of.ch}, overlapped |-> m.overlapped \/ ov,
            mixed |-> m.head # p.of]
  IN
  IF ~crcOk(SecondPart(p.of)) THEN UNCHANGED <<mfa, joined, chain, log>>
  ELSE IF ~m.active THEN UNCHANGED <<mfa, chain, log>> /\ noted(c, p)
  ELSE /\ mfa' = [mfa EXCEPT ![c] = AfterSecond(m, data)]
       /\ IF Complete(m, data) THEN decodePacket(c, m.head, t) ELSE UNCHANGED <<chain, log>>
       /\ noted(c, p)

decodeFrame(c, p, ov) ==
  CASE p.kind = "bd"  -> beginMultiframe(c, p, ov)
    [] p.kind = "be"  -> endMultiframe(c, p, ov)
    [] p.kind = "bad" -> UNCHANGED <<mfa, joined, chain, log>>   (* no CRC fits *)
    [] OTHER -> /\ decodePacket(c, p, [from |-> {p.ch}, overlapped |-> ov, mixed |-> FALSE])
                /\ UNCHANGED <<mfa, joined>>

(* --------------------------- on the air -------------------------------- *)
(* The packets of an AA message come in any order and any number of times,  *)
(* those of one message before those of the next.                           *)
AaOf(c, id) == {AaPacket(c, a) : a \in {n \in AaNumbers : n.id = id}}

(* A frame's packet: whole or one of two parts.                             *)
InParts(Q) == LET H == Q \cap Halves IN {Part("bd", q) : q \in H} \cup {Part("be", q) : q \in H}

Packets(c) == (Plain(c) \cap Wholes) \cup InParts(Plain(c) \cup Nested(c))
AaPackets(c, id) == (AaOf(c, id) \cap Wholes) \cup InParts(AaOf(c, id))

(* deinterleave() begins to fill mat, which is static: every channel's.     *)
receive(c, p) ==
  /\ frame[c] = None /\ received < MaxFrames
  /\ received' = received + 1
  /\ frame' = [frame EXCEPT ![c] = p]
  /\ seen' = [d \in Channels |->
       IF d = c THEN {frame[b] : b \in Busy} ELSE IF d \in Busy THEN seen[d] \cup {p} ELSE {}]
  /\ UNCHANGED <<mfa, joined, chain, log>>

receivePacket(c) == \E p \in Packets(c) : receive(c, p) /\ UNCHANGED onAir

sendAa(c) == \E p \in AaPackets(c, onAir[c]) : receive(c, p) /\ UNCHANGED onAir

(* The station goes on to the next message; what it sent of this one and    *)
(* was not received is lost.                                                *)
nextMessage(c) ==
  /\ onAir[c] < MaxMsg /\ onAir' = [onAir EXCEPT ![c] = @ + 1]
  /\ UNCHANGED <<frame, seen, mfa, joined, chain, log, received>>

(* mat is read back: the frame, or if another channel wrote mat meanwhile   *)
(* that channel's frame or a mixture.                                       *)
Readable(c) == {frame[c]} \cup seen[c] \cup IF seen[c] = {} THEN {} ELSE {[kind |-> "bad"]}

decode(c) ==
  /\ frame[c] # None
  /\ \E p \in Readable(c) : decodeFrame(c, p, p # frame[c])
  /\ frame' = [frame EXCEPT ![c] = None] /\ seen' = [seen EXCEPT ![c] = {}]
  /\ UNCHANGED <<onAir, received>>

EgcNext == \E c \in Channels : receivePacket(c) \/ sendAa(c) \/ nextMessage(c) \/ decode(c)

EgcSpec == EgcInit /\ [][EgcNext]_egcVars

(* ------------------------------ properties ----------------------------- *)
(* Differ in one byte or in two neighbouring bytes.                         *)
Near(s, t) ==
  /\ Len(s) = Len(t)
  /\ \E i \in DOMAIN s : s[i] # t[i] /\ \A j \in DOMAIN s \ {i, i + 1} : s[j] = t[j]

Sealed(p) == crc(p) = egcCrc(Whole(p))

(* A multiframe packet is put out by a second part that comes right after   *)
(* a first part, so neither is used twice.  Parts of two packets are put    *)
(* together only if they are as long, and only where the checksum cannot    *)
(* tell: it is zero, or it is another's, or the first parts differ in more  *)
(* than a byte or two neighbours.  Two parts of one packet that come one    *)
(* after the other are put out, if the second's own CRC bytes fit the whole *)
(* packet as well.                                                          *)
MultiframeJoined ==
  \A c \in Channels :
    LET j == joined[c]  a == j.before  b == j.part IN
    /\ j.put =>
         /\ a.kind = "bd" /\ b.kind = "be"
         /\ Len(back(a.of)) = Len(back(b.of))
         /\ crc(b.of) # <<0, 0>> /\ Sealed(b.of) => ~Near(front(a.of), front(b.of))
    /\ a.kind = "bd" /\ b.kind = "be" =>
         (a.of = b.of /\ a.of.kind # "nested" =>
            (j.put <=> crc(b.of) = <<0, 0>> \/ Sealed(b.of)))

(* A text of a LES channel holds packets of rising numbers; it runs from    *)
(* one message into a later one only with a packet past its first.          *)
ChainOrdered ==
  \A c \in Channels : \A k \in 2 .. Len(chain[c].text) :
    LET a == chain[c].text[k - 1]  b == chain[c].text[k]
    IN  a.sure /\ b.sure =>
          \/ b.id = a.id /\ b.no > a.no
          \/ b.id > a.id /\ b.no > 1

(* The log has one entry for a channel and message id, and nothing in it    *)
(* came from another channel, unless two channels were in deinterleave()    *)
(* at once.                                                                 *)
LogSound ==
  /\ Len(log) <= kMax
  /\ \A i, j \in DOMAIN log : log[i].ch = log[j].ch /\ log[i].id = log[j].id => i = j
  /\ \A i \in DOMAIN log : \A k \in DOMAIN log[i].text :
       log[i].text[k].from # {log[i].ch} => log[i].text[k].overlapped
====
