--------------------------- MODULE SamplesProofs ----------------------------
(* Where samples come from and where the spectrum gets them, for every      *)
(* value of the constants: the ring of IqRing keeps the promise of          *)
(* RecentSamples, the client of an SDR++ server and the server end at the   *)
(* rate asked for, and the WAV player plays a recording to its end.         *)
EXTENDS IqRing, SdrppServerSource, WavFileSource,
        TLAPS, SequenceTheorems, WellFoundedInduction

-----------------------------------------------------------------------------
(* Arithmetic of slots.                                                     *)

LEMMA Division ==
  ASSUME NEW a \in Nat, NEW c \in Nat \ {0}
  PROVE  /\ a % c \in 0 .. c - 1 /\ a \div c \in Nat
         /\ a = c * (a \div c) + (a % c)
OBVIOUS

LEMMA MultiplesApart ==
  ASSUME NEW c \in Nat \ {0}, NEW p \in Nat, NEW q \in Nat, p < q
  PROVE  c * q - c * p >= c
<1>1. c * q - c * p = c * (q - p)
  BY Z3
<1>2. q - p >= 1
  OBVIOUS
<1>3. c * (q - p) >= c
  BY <1>2, Z3
<1> QED BY <1>1, <1>3

(* Two positions less than Cap apart never share a slot.                    *)
LEMMA SlotsApart ==
  ASSUME NEW a \in Nat, NEW b \in Nat, a < b, b - a < Cap
  PROVE  a % Cap # b % Cap
<1> SUFFICES ASSUME a % Cap = b % Cap PROVE FALSE
  OBVIOUS
<1>c. Cap \in Nat \ {0}
  BY RingAssumption
<1> DEFINE p == a \div Cap
           q == b \div Cap
<1>1. /\ a = Cap * p + (a % Cap) /\ p \in Nat
      /\ b = Cap * q + (b % Cap) /\ q \in Nat
  BY <1>c, Division
<1>2. p < q
  BY <1>1, <1>c, Z3
<1> QED BY <1>1, <1>2, <1>c, MultiplesApart

LEMMA SlotOf == ASSUME NEW a \in Nat PROVE a % Cap \in Slots
BY RingAssumption, Division DEF Slots

-----------------------------------------------------------------------------
Inv ==
  /\ buf \in [Slots -> Samples]
  /\ write \in Nat
  /\ total = write

(* A bounded nonempty set of positions has a last one, and LatestOf is it.  *)
LEMMA LatestExists ==
  ASSUME NEW n \in Nat, NEW S \in SUBSET (1 .. n), S # {}
  PROVE  LatestOf(S) \in S
<1> DEFINE T == {n - i : i \in S}
           R == OpToRel(<, Nat)
<1>1. T \subseteq Nat /\ T # {}
  <2>1. \A i \in S : n - i \in Nat
    OBVIOUS
  <2> QED BY <2>1
<1>2. \A x, y \in Nat : y < x => <<y, x>> \in R
  BY DEF OpToRel
<1>3. PICK x \in T : \A y \in T : ~(<<y, x>> \in R)
  <2>1. IsWellFoundedOn(R, Nat)
    BY NatLessThanWellFounded
  <2> HIDE DEF T, R
  <2> QED BY <1>1, <2>1, WFMin
<1> HIDE DEF R
<1>4. PICK i \in S : x = n - i
  BY <1>3
<1>5. \A j \in S : j <= i
  <2> SUFFICES ASSUME NEW j \in S, j > i PROVE FALSE
    OBVIOUS
  <2>1. n - j \in T /\ n - j < x /\ n - j \in Nat /\ x \in Nat
    BY <1>4
  <2> HIDE DEF T
  <2> QED BY <1>2, <1>3, <2>1
<1> QED BY <1>5 DEF LatestOf

LEMMA LatestIs ==
  ASSUME NEW S \in SUBSET Int, NEW k \in S, \A i \in S : i <= k
  PROVE  LatestOf(S) = k
<1>1. LatestOf(S) \in S /\ \A j \in S : j <= LatestOf(S)
  BY Zenon DEF LatestOf
<1>2. LatestOf(S) \in Int /\ k \in Int /\ k <= LatestOf(S) /\ LatestOf(S) <= k
  BY <1>1
<1> QED BY <1>2

(* A block is a sequence of samples.                                        *)
LEMMA BlockType ==
  ASSUME NEW b \in Block
  PROVE  b \in Seq(Samples) /\ Len(b) \in Nat
BY RingAssumption DEF Block

(* The newest sample of a block that lands in a slot: what push leaves there. *)
LEMMA WrittenSlot ==
  ASSUME Inv, NEW b \in Seq(Samples), NEW p \in Nat, p < write + Len(b), write + Len(b) - p <= Cap
  PROVE  Written(b)[p % Cap] = IF p < write THEN buf[p % Cap] ELSE b[p - write + 1]
<1> DEFINE Hits == {i \in 1 .. Len(b) : (write + i - 1) % Cap = p % Cap}
<1>1. Written(b)[p % Cap] = IF Hits = {} THEN buf[p % Cap] ELSE b[LatestOf(Hits)]
  BY SlotOf DEF Written
<1>2. write \in Nat /\ Len(b) \in Nat
  BY DEF Inv
<1>3. \A i \in 1 .. Len(b) : i \in Hits /\ p # write + i - 1 => p > write + i - 1
  <2> SUFFICES ASSUME NEW i \in 1 .. Len(b), i \in Hits, p < write + i - 1 PROVE FALSE
    BY <1>2
  <2> DEFINE q == write + i - 1
  <2>1. q \in Nat /\ q - p < Cap /\ p < q
    BY <1>2, RingAssumption
  <2>2. q % Cap = p % Cap
    OBVIOUS
  <2> HIDE DEF q
  <2> QED BY <2>1, <2>2, SlotsApart
<1>4. CASE p < write
  <2>1. Hits = {}
    BY <1>2, <1>3, <1>4
  <2> QED BY <1>1, <1>4, <2>1
<1>5. CASE ~(p < write)
  <2> DEFINE k == p - write + 1
  <2>1. k \in Hits
    BY <1>2, <1>5
  <2>2. Hits \in SUBSET Int
    BY <1>2
  <2>3. ASSUME NEW i \in Hits PROVE i <= k
    <3>1. i \in 1 .. Len(b)
      OBVIOUS
    <3> HIDE DEF Hits
    <3>2. p # write + i - 1 => p > write + i - 1
      BY <1>3, <3>1
    <3> QED BY <1>2, <3>1, <3>2
  <2>4. LatestOf(Hits) = k
    <3> HIDE DEF Hits, k
    <3> QED BY <2>1, <2>2, <2>3, LatestIs
  <2> QED BY <1>1, <1>5, <2>1, <2>4
<1> QED BY <1>4, <1>5

LEMMA WrittenType ==
  ASSUME Inv, NEW b \in Seq(Samples)
  PROVE  Written(b) \in [Slots -> Samples]
<1> SUFFICES ASSUME NEW j \in Slots
             PROVE  LET Hits == {i \in 1 .. Len(b) : (write + i - 1) % Cap = j}
                    IN  (IF Hits = {} THEN buf[j] ELSE b[LatestOf(Hits)]) \in Samples
  BY DEF Written
<1> DEFINE Hits == {i \in 1 .. Len(b) : (write + i - 1) % Cap = j}
<1>1. CASE Hits = {}
  BY <1>1 DEF Inv
<1>2. CASE Hits # {}
  <2>1. LatestOf(Hits) \in Hits
    <3>1. Hits \in SUBSET (1 .. Len(b)) /\ Len(b) \in Nat
      OBVIOUS
    <3> HIDE DEF Hits
    <3> QED BY <1>2, <3>1, LatestExists
  <2>2. b[LatestOf(Hits)] \in Samples
    BY <2>1
  <2> QED BY <1>2, <2>2
<1> QED BY <1>1, <1>2

-----------------------------------------------------------------------------
(* The invariant.                                                           *)

LEMMA InitInv == Init => Inv /\ TypeOK
<1> SUFFICES ASSUME Init PROVE Inv /\ TypeOK
  OBVIOUS
<1>1. Inv
  BY RingAssumption DEF Init, Inv
<1>2. reply.ok \in BOOLEAN
  BY Zenon DEF Init
<1>3. reply.out \in Seq(Samples)
  BY DEF Init
<1> QED BY <1>1, <1>2, <1>3 DEF Inv, TypeOK

LEMMA CopiedType ==
  ASSUME Inv, NEW n \in Nat, n <= total
  PROVE  Copied(n) \in Seq(Samples) /\ Len(Copied(n)) = n
<1>1. ASSUME NEW i \in 1 .. n PROVE buf[(Start(n) + i - 1) % Cap] \in Samples
  <2> DEFINE a == Start(n) + i - 1
  <2>1. a \in Nat
    BY DEF Inv, Start
  <2> HIDE DEF a
  <2>2. a % Cap \in Slots
    BY <2>1, SlotOf
  <2> QED BY <2>2 DEF Inv, a
<1> QED BY <1>1 DEF Copied

LEMMA NextInv == TypeOK /\ Inv /\ [Next]_vars => (TypeOK /\ Inv)'
<1> SUFFICES ASSUME TypeOK, Inv, [Next]_vars PROVE (TypeOK /\ Inv)'
  OBVIOUS
<1>1. ASSUME NEW b \in Block, push(b) PROVE (TypeOK /\ Inv)'
  <2>1. Inv'
    BY <1>1, BlockType, WrittenType DEF push, Counted, Inv
  <2>2. reply' = reply
    BY <1>1 DEF push
  <2> QED BY <2>1, <2>2 DEF TypeOK, Inv
<1>2. ASSUME NEW n \in Sizes, latest(n) PROVE (TypeOK /\ Inv)'
  <2>1. Inv'
    BY <1>2 DEF latest, Inv
  <2>2. n \in Nat
    BY RingAssumption DEF Sizes
  <2>3. CASE n > Cap \/ total < n
    <3>1. reply' = [ok |-> FALSE, out |-> <<>>]
      BY <1>2, <2>3 DEF latest
    <3>2. reply'.ok \in BOOLEAN
      BY <3>1, Zenon
    <3>3. reply'.out \in Seq(Samples)
      BY <3>1
    <3> QED BY <2>1, <3>2, <3>3 DEF TypeOK, Inv
  <2>4. CASE ~(n > Cap \/ total < n)
    <3>1. reply' = [ok |-> TRUE, out |-> Copied(n)]
      BY <1>2, <2>4 DEF latest
    <3>2. reply'.ok \in BOOLEAN
      BY <3>1, Zenon
    <3>3. n <= total
      BY <2>2, <2>4 DEF Inv
    <3>4. reply'.out \in Seq(Samples)
      BY <2>2, <3>1, <3>3, CopiedType
    <3> QED BY <2>1, <3>2, <3>4 DEF TypeOK, Inv
  <2> QED BY <2>3, <2>4
<1>3. CASE clear
  <2>1. Inv'
    BY <1>3, RingAssumption DEF clear, WriteCleared, Inv
  <2>2. reply' = reply
    BY <1>3 DEF clear
  <2> QED BY <2>1, <2>2 DEF TypeOK, Inv
<1>4. CASE UNCHANGED vars
  BY <1>4 DEF vars, TypeOK, Inv
<1> QED BY <1>1, <1>2, <1>3, <1>4 DEF Next

LEMMA InvAlways == Spec => [](TypeOK /\ Inv)
<1>1. Init => TypeOK /\ Inv
  BY InitInv
<1> QED BY <1>1, NextInv, PTL DEF Spec

(* Every variable keeps its type, for every capacity and block size.        *)
THEOREM TypeAlways == Spec => []TypeOK
BY InvAlways, PTL

(* write_ and total_ stay equal, so the start of a copy never wraps.        *)
THEOREM CountersAlwaysAgree == Spec => []CountersAgree
<1>1. Inv => CountersAgree
  BY DEF Inv, CountersAgree
<1> QED BY <1>1, InvAlways, PTL

-----------------------------------------------------------------------------
(* The refinement.                                                          *)

LEMMA HeldType ==
  ASSUME Inv
  PROVE  /\ available \in Nat /\ available <= write /\ available <= Cap
         /\ Held \in Seq(Samples) /\ Len(Held) = available
         /\ \A i \in 1 .. available : Held[i] = buf[(write - available + i - 1) % Cap]
<1>1. available \in Nat /\ available <= write /\ available <= Cap
  BY RingAssumption DEF Inv, available
<1>2. ASSUME NEW i \in 1 .. available PROVE buf[(write - available + i - 1) % Cap] \in Samples
  <2> DEFINE a == write - available + i - 1
  <2>1. a \in Nat
    BY <1>1 DEF Inv
  <2> HIDE DEF a
  <2>2. a % Cap \in Slots
    BY <2>1, SlotOf
  <2> QED BY <2>2 DEF Inv, a
<1> HIDE DEF available
<1> QED BY <1>1, <1>2 DEF Held

LEMMA PushRefines ==
  ASSUME Inv, NEW b \in Block, push(b)
  PROVE  Recent!Push(b)
<1>b. b \in Seq(Samples) /\ Len(b) \in Nat
  BY BlockType
<1>1. buf' = Written(b) /\ write' = write + Len(b) /\ total' = total + Len(b) /\ reply' = reply
  BY DEF push, Counted
<1>2. Cap \in Nat \ {0} /\ write \in Nat /\ total = write
  BY RingAssumption DEF Inv
<1> DEFINE s == Held \o b
           k == available'
<1>3. /\ available \in Nat /\ Held \in Seq(Samples) /\ Len(Held) = available
      /\ \A i \in 1 .. available : Held[i] = buf[(write - available + i - 1) % Cap]
  BY HeldType
<1>4. /\ Len(s) = available + Len(b)
      /\ \A i \in 1 .. Len(s) : s[i] = IF i <= available THEN Held[i] ELSE b[i - available]
  BY <1>b, <1>3
<1>5. /\ k \in Nat /\ k <= write + Len(b) /\ k <= Cap /\ k <= Len(s)
      /\ k = Recent!Least(Len(s), Cap)
  BY <1>b, <1>1, <1>2, <1>4 DEF available, Recent!Least
<1>7. Held' = [i \in 1 .. k |-> buf'[(write' - k + i - 1) % Cap]]
  BY DEF Held
<1>8. Recent!Latest(s, Cap) = [i \in 1 .. k |-> s[Len(s) - k + i]]
  BY <1>5 DEF Recent!Latest
<1> HIDE DEF s, k
<1>6. ASSUME NEW i \in 1 .. k
      PROVE  buf'[(write' - k + i - 1) % Cap] = s[Len(s) - k + i]
  <2> DEFINE p == write + Len(b) - k + i - 1
             m == Len(s) - k + i
  <2>0. write' - k + i - 1 = p /\ Len(s) - k + i = m
    <3>1. write' = write + Len(b) /\ write' \in Nat /\ k \in Nat
      BY <1>b, <1>1, <1>2, <1>5
    <3> QED BY <1>b, <1>2, <3>1
  <2>1. /\ p \in Nat /\ p < write + Len(b) /\ write + Len(b) - p <= Cap
        /\ m \in 1 .. Len(s)
    <3>1. /\ write \in Nat /\ k \in Nat /\ i \in Nat /\ Len(b) \in Nat /\ Len(s) \in Nat
          /\ 1 <= i /\ i <= k
      BY <1>b, <1>2, <1>3, <1>4, <1>5
    <3>2. k <= write + Len(b) /\ k <= Cap /\ k <= Len(s) /\ Cap \in Nat
      BY <1>2, <1>5
    <3> QED BY <3>1, <3>2
  <2>2. buf'[p % Cap] = IF p < write THEN buf[p % Cap] ELSE b[p - write + 1]
    <3> HIDE DEF p
    <3> QED BY <1>b, <1>1, <2>1, WrittenSlot
  <2>3. p - write = m - available - 1
    BY <1>b, <1>2, <1>3, <1>4, <1>5
  <2>4. CASE m <= available
    <3>1. p < write /\ write - available + m - 1 = p /\ m \in 1 .. available
      <4>1. p \in Nat /\ m \in Nat /\ m >= 1
        BY <1>b, <1>3, <1>4, <2>1
      <4> HIDE DEF p, m
      <4> QED BY <1>2, <1>3, <2>3, <2>4, <4>1
    <3>2. s[m] = buf[p % Cap]
      <4> HIDE DEF p, m
      <4> QED BY <1>3, <1>4, <2>1, <2>4, <3>1
    <3> HIDE DEF p, m
    <3> QED BY <2>0, <2>2, <3>1, <3>2
  <2>5. CASE ~(m <= available)
    <3>1. ~(p < write) /\ p - write + 1 = m - available
      <4>1. p \in Nat /\ m \in Nat
        BY <1>b, <1>3, <1>4, <2>1
      <4> HIDE DEF p, m
      <4> QED BY <1>2, <1>3, <2>3, <2>5, <4>1
    <3>2. s[m] = b[p - write + 1]
      <4> HIDE DEF p, m, s
      <4> QED BY <1>4, <2>1, <2>5, <3>1
    <3> HIDE DEF p, m
    <3> QED BY <2>0, <2>2, <3>1, <3>2
  <2> QED BY <2>4, <2>5
<1>9. Held' = Recent!Latest(s, Cap)
  BY <1>6, <1>7, <1>8
<1> QED BY <1>1, <1>9 DEF Recent!Push, s

LEMMA ReadRefines ==
  ASSUME Inv, NEW n \in Sizes, latest(n)
  PROVE  Recent!Read(n)
<1>1. n \in Nat /\ Cap \in Nat \ {0} /\ write \in Nat /\ total = write
  BY RingAssumption DEF Sizes, Inv
<1>2. /\ available \in Nat /\ Len(Held) = available
      /\ \A i \in 1 .. available : Held[i] = buf[(write - available + i - 1) % Cap]
  BY HeldType
<1>3. (n > Cap \/ total < n) <=> ~(n <= available)
  BY <1>1 DEF available
<1>4. UNCHANGED Held
  BY DEF latest, Held, available
<1>5. CASE n <= available
  <2>1. Recent!Latest(Held, n) = [i \in 1 .. n |-> Held[available - n + i]]
    <3>1. Recent!Least(Len(Held), n) = n
      BY <1>1, <1>2, <1>5 DEF Recent!Least
    <3> QED BY <1>2, <3>1 DEF Recent!Latest
  <2>2. ASSUME NEW i \in 1 .. n
        PROVE  Held[available - n + i] = buf[(Start(n) + i - 1) % Cap]
    <3> DEFINE m == available - n + i
    <3>1. m \in 1 .. available /\ write - available + m - 1 = Start(n) + i - 1
      BY <1>1, <1>2, <1>5 DEF Start
    <3> HIDE DEF m
    <3>2. Held[m] = buf[(Start(n) + i - 1) % Cap]
      BY <1>2, <3>1
    <3> QED BY <3>2 DEF m
  <2>3. Recent!Latest(Held, n) = Copied(n)
    BY <2>1, <2>2 DEF Copied
  <2>4. reply' = [ok |-> TRUE, out |-> Copied(n)]
    BY <1>3, <1>5 DEF latest
  <2> QED BY <1>2, <1>4, <1>5, <2>3, <2>4 DEF Recent!Read
<1>6. CASE ~(n <= available)
  <2>1. reply' = [ok |-> FALSE, out |-> <<>>]
    BY <1>3, <1>6 DEF latest
  <2> QED BY <1>2, <1>4, <1>6, <2>1 DEF Recent!Read, Recent!Refused
<1> QED BY <1>5, <1>6

LEMMA ClearRefines ==
  ASSUME Inv, clear
  PROVE  Recent!Clear
<1>1. available' = 0
  BY RingAssumption DEF clear, available
<1>2. Held' = <<>>
  <2>1. Held' = [i \in 1 .. 0 |-> buf'[(write' - 0 + i - 1) % Cap]]
    BY <1>1 DEF Held
  <2> QED BY <2>1
<1> QED BY <1>2 DEF clear, Recent!Clear

(* Every step of the ring is a step of RecentSamples or changes nothing     *)
(* there: what the spectrum reads is exactly the newest samples since the   *)
(* source was started, in order, or a refusal.                              *)
THEOREM RingKeepsRecent == Spec => KeepsRecent
<1>1. Init => Recent!Init
  <2> SUFFICES ASSUME Init PROVE Recent!Init
    OBVIOUS
  <2>1. available = 0
    BY RingAssumption DEF Init, available
  <2>2. Held = <<>>
    <3>1. Held = [i \in 1 .. 0 |-> buf[(write - 0 + i - 1) % Cap]]
      BY <2>1 DEF Held
    <3> QED BY <3>1
  <2> QED BY <2>2 DEF Init, Recent!Init, Recent!Refused
<1>2. (TypeOK /\ Inv) /\ [Next]_vars => [Recent!Next]_(Recent!vars)
  <2> SUFFICES ASSUME Inv, [Next]_vars PROVE [Recent!Next]_(Recent!vars)
    OBVIOUS
  <2>1. CASE UNCHANGED vars
    BY <2>1 DEF vars, Recent!vars, Held, available
  <2>2. CASE Next
    BY <2>2, PushRefines, ReadRefines, ClearRefines DEF Next, Recent!Next
  <2> QED BY <2>1, <2>2
<1> QED BY <1>1, <1>2, InvAlways, PTL DEF Spec, KeepsRecent, Recent!Spec

-----------------------------------------------------------------------------
(* The SDR++ client: what the packets under way still have to say.          *)

Packets == [kind : {"ui", "rate", "iq", "disconnect"}, rate : Rates \cup {0}]

(* The last packet of kind k says r, or none is left and v, what the source *)
(* took from the one before, is r.                                          *)
Tells(s, k, v, r) ==
  \/ \E i \in 1 .. Len(s) :
       /\ s[i].kind = k /\ s[i].rate = r
       /\ \A j \in 1 .. Len(s) : j > i => s[j].kind # k
  \/ v = r /\ \A i \in 1 .. Len(s) : s[i].kind # k

(* A user interface is under way, and all of them say r.                    *)
Coming(s, r) ==
  /\ \E i \in 1 .. Len(s) : s[i].kind = "ui"
  /\ \A i \in 1 .. Len(s) : s[i].kind = "ui" => s[i].rate = r

LEMMA AppendAt ==
  ASSUME NEW S, NEW s \in Seq(S), NEW p \in S
  PROVE  /\ Append(s, p) \in Seq(S) /\ Len(s) \in Nat
         /\ Len(Append(s, p)) = Len(s) + 1
         /\ \A i \in 1 .. Len(s) : Append(s, p)[i] = s[i]
         /\ Append(s, p)[Len(s) + 1] = p
OBVIOUS

LEMMA TailAt ==
  ASSUME NEW S, NEW s \in Seq(S), s # <<>>
  PROVE  /\ Tail(s) \in Seq(S) /\ Len(s) \in Nat \ {0} /\ Len(Tail(s)) = Len(s) - 1
         /\ \A i \in 1 .. Len(s) - 1 : Tail(s)[i] = s[i + 1]
         /\ Head(s) = s[1] /\ Head(s) \in S
OBVIOUS

LEMMA TwoAppended ==
  ASSUME NEW S, NEW s \in Seq(S), NEW p \in S, NEW q \in S
  PROVE  s \o <<p, q>> = Append(Append(s, p), q)
OBVIOUS

LEMMA TellsMore ==
  ASSUME NEW s \in Seq(Packets), NEW p \in Packets, NEW k, NEW v, NEW r,
         p.kind # k, Tells(s, k, v, r)
  PROVE  Tells(Append(s, p), k, v, r)
<1> DEFINE w == Append(s, p)
<1>1. /\ Len(s) \in Nat /\ Len(w) = Len(s) + 1
      /\ \A i \in 1 .. Len(s) : w[i] = s[i]
      /\ w[Len(s) + 1] = p
  BY AppendAt
<1> HIDE DEF w
<1>2. ASSUME NEW i \in 1 .. Len(w)
      PROVE  (i \in 1 .. Len(s) /\ w[i] = s[i]) \/ w[i] = p
  BY <1>1
<1>3. Tells(w, k, v, r)
  <2>1. CASE v = r /\ \A i \in 1 .. Len(s) : s[i].kind # k
    BY <1>2, <2>1 DEF Tells
  <2>2. CASE \E i \in 1 .. Len(s) :
               /\ s[i].kind = k /\ s[i].rate = r
               /\ \A j \in 1 .. Len(s) : j > i => s[j].kind # k
    <3>1. PICK i \in 1 .. Len(s) :
               /\ s[i].kind = k /\ s[i].rate = r
               /\ \A j \in 1 .. Len(s) : j > i => s[j].kind # k
      BY <2>2
    <3>2. i \in 1 .. Len(w) /\ w[i].kind = k /\ w[i].rate = r
      BY <1>1, <3>1
    <3>3. \A j \in 1 .. Len(w) : j > i => w[j].kind # k
      BY <1>2, <3>1
    <3> QED BY <3>2, <3>3 DEF Tells
  <2> QED BY <2>1, <2>2 DEF Tells
<1> QED BY <1>3 DEF w

LEMMA TellsNew ==
  ASSUME NEW s \in Seq(Packets), NEW p \in Packets, NEW v
  PROVE  Tells(Append(s, p), p.kind, v, p.rate)
<1> DEFINE w == Append(s, p)
<1>1. /\ Len(s) \in Nat /\ Len(w) = Len(s) + 1 /\ w[Len(s) + 1] = p
  BY AppendAt
<1> HIDE DEF w
<1>2. Tells(w, p.kind, v, p.rate)
  <2>1. Len(w) \in 1 .. Len(w) /\ w[Len(w)] = p
    BY <1>1
  <2>2. \A j \in 1 .. Len(w) : j > Len(w) => w[j].kind # p.kind
    BY <1>1
  <2> QED BY <2>1, <2>2 DEF Tells
<1> QED BY <1>2 DEF w

(* Once the next packet is handled.                                         *)
LEMMA TellsRest ==
  ASSUME NEW s \in Seq(Packets), s # <<>>, NEW k, NEW v, NEW r, Tells(s, k, v, r)
  PROVE  Tells(Tail(s), k, IF Head(s).kind = k THEN Head(s).rate ELSE v, r)
<1> DEFINE w == Tail(s)
           nv == IF Head(s).kind = k THEN Head(s).rate ELSE v
<1>1. /\ Len(s) \in Nat \ {0} /\ Len(w) = Len(s) - 1
      /\ \A i \in 1 .. Len(s) - 1 : w[i] = s[i + 1]
      /\ Head(s) = s[1]
  BY TailAt
<1> HIDE DEF w
<1>2. Tells(w, k, nv, r)
  <2>1. CASE v = r /\ \A i \in 1 .. Len(s) : s[i].kind # k
    <3>1. nv = r
      BY <1>1, <2>1
    <3>2. \A i \in 1 .. Len(w) : i + 1 \in 1 .. Len(s) /\ w[i] = s[i + 1]
      BY <1>1
    <3>3. \A i \in 1 .. Len(w) : w[i].kind # k
      BY <2>1, <3>2
    <3> HIDE DEF nv
    <3> QED BY <3>1, <3>3 DEF Tells
  <2>2. CASE \E i \in 1 .. Len(s) :
               /\ s[i].kind = k /\ s[i].rate = r
               /\ \A j \in 1 .. Len(s) : j > i => s[j].kind # k
    <3>1. PICK i \in 1 .. Len(s) :
               /\ s[i].kind = k /\ s[i].rate = r
               /\ \A j \in 1 .. Len(s) : j > i => s[j].kind # k
      BY <2>2
    <3>2. ASSUME NEW j \in 1 .. Len(w), j + 1 > i
          PROVE  w[j].kind # k
      BY <1>1, <3>1, <3>2
    <3>3. CASE i = 1
      <4>1. nv = r
        BY <1>1, <3>1, <3>3
      <4>2. \A j \in 1 .. Len(w) : w[j].kind # k
        BY <1>1, <3>2, <3>3
      <4> HIDE DEF nv
      <4> QED BY <4>1, <4>2 DEF Tells
    <3>4. CASE i # 1
      <4>1. i - 1 \in 1 .. Len(w) /\ w[i - 1] = s[i]
        BY <1>1, <3>4
      <4>2. \A j \in 1 .. Len(w) : j > i - 1 => w[j].kind # k
        BY <1>1, <3>2
      <4> HIDE DEF nv
      <4> QED BY <3>1, <4>1, <4>2 DEF Tells
    <3> QED BY <3>3, <3>4
  <2> QED BY <2>1, <2>2 DEF Tells
<1> QED BY <1>2 DEF w

LEMMA ComingMore ==
  ASSUME NEW s \in Seq(Packets), NEW p \in Packets, NEW r,
         p.kind # "ui", Coming(s, r)
  PROVE  Coming(Append(s, p), r)
<1> DEFINE w == Append(s, p)
<1>1. /\ Len(s) \in Nat /\ Len(w) = Len(s) + 1
      /\ \A i \in 1 .. Len(s) : w[i] = s[i]
      /\ w[Len(s) + 1] = p
  BY AppendAt
<1> HIDE DEF w
<1>2. \A i \in 1 .. Len(w) : (i \in 1 .. Len(s) /\ w[i] = s[i]) \/ w[i] = p
  BY <1>1
<1>3. \E i \in 1 .. Len(w) : w[i].kind = "ui"
  <2>1. PICK i \in 1 .. Len(s) : s[i].kind = "ui"
    BY DEF Coming
  <2>2. i \in 1 .. Len(w) /\ w[i] = s[i]
    BY <1>1
  <2> QED BY <2>1, <2>2
<1>4. \A i \in 1 .. Len(w) : w[i].kind = "ui" => w[i].rate = r
  BY <1>2 DEF Coming
<1> QED BY <1>3, <1>4 DEF Coming, w

LEMMA ComingRest ==
  ASSUME NEW s \in Seq(Packets), s # <<>>, NEW r, Head(s).kind # "ui", Coming(s, r)
  PROVE  Coming(Tail(s), r)
<1> DEFINE w == Tail(s)
<1>1. /\ Len(s) \in Nat \ {0} /\ Len(w) = Len(s) - 1
      /\ \A i \in 1 .. Len(s) - 1 : w[i] = s[i + 1]
      /\ Head(s) = s[1]
  BY TailAt
<1> HIDE DEF w
<1>2. \A i \in 1 .. Len(w) : i + 1 \in 1 .. Len(s) /\ w[i] = s[i + 1]
  BY <1>1
<1>3. \E i \in 1 .. Len(w) : w[i].kind = "ui"
  <2>1. PICK i \in 1 .. Len(s) : s[i].kind = "ui"
    BY DEF Coming
  <2>2. i # 1
    BY <1>1, <2>1
  <2>3. i - 1 \in 1 .. Len(w) /\ w[i - 1] = s[i]
    BY <1>1, <2>2
  <2> QED BY <2>1, <2>3
<1>4. \A i \in 1 .. Len(w) : w[i].kind = "ui" => w[i].rate = r
  BY <1>2 DEF Coming
<1> QED BY <1>3, <1>4 DEF Coming, w

-----------------------------------------------------------------------------
(* stop() clears running_ before it waits for the thread; while the source  *)
(* runs it has a socket and a worker.                                       *)
ClientInv ==
  /\ net \in Seq(Packets)
  /\ action \in Rates \cup {0} /\ req \in Rates \cup {0}
  /\ gpc \in {"close", "join"} => ~running
  /\ running /\ gpc = "idle" => sock /\ thread \in {"recv", "action"}

Connected == running /\ up /\ gpc = "idle"

(* The server runs at the rate asked for, or will at the action parseUi     *)
(* made of the request, or the request is kept for the next user interface. *)
Applied ==
  asked # 0 /\ ~overtaken =>
    /\ thread = "action" => action = asked
    /\ req \in {0, asked}
    /\ \/ serverRate = asked
       \/ thread = "action"
       \/ req = asked /\ Coming(net, serverRate)

RateInv ==
  Connected =>
    /\ Tells(net, "rate", rate, serverRate)
    /\ Tells(net, "ui", combo, serverRate)
    /\ Applied

LEMMA PacketKinds ==
  ASSUME NEW r \in Rates \cup {0}
  PROVE  /\ UI(r) \in Packets /\ UI(r).kind = "ui" /\ UI(r).rate = r
         /\ SetRate(r) \in Packets /\ SetRate(r).kind = "rate" /\ SetRate(r).rate = r
         /\ IQ \in Packets /\ IQ.kind = "iq"
         /\ Disconnect \in Packets /\ Disconnect.kind = "disconnect"
BY DEF UI, SetRate, IQ, Disconnect, Packets

(* What the server sends when it obeys an action.                           *)
LEMMA ObeyedTells ==
  ASSUME NEW s \in Seq(Packets), NEW r \in Rates \cup {0}, NEW v, NEW u
  PROVE  /\ s \o <<SetRate(r), UI(r)>> \in Seq(Packets)
         /\ Tells(s \o <<SetRate(r), UI(r)>>, "rate", v, r)
         /\ Tells(s \o <<SetRate(r), UI(r)>>, "ui", u, r)
<1> DEFINE w == Append(s, SetRate(r))
<1>1. s \o <<SetRate(r), UI(r)>> = Append(w, UI(r))
  BY PacketKinds, TwoAppended
<1>2. w \in Seq(Packets) /\ Append(w, UI(r)) \in Seq(Packets)
  BY PacketKinds, AppendAt
<1>3. Tells(w, "rate", v, r)
  <2>1. Tells(w, SetRate(r).kind, v, SetRate(r).rate)
    BY PacketKinds, TellsNew
  <2> QED BY <2>1, PacketKinds
<1> HIDE DEF w
<1>4. Tells(Append(w, UI(r)), "rate", v, r)
  <2>1. UI(r).kind # "rate"
    BY PacketKinds
  <2> QED BY <1>2, <1>3, <2>1, PacketKinds, TellsMore
<1>5. Tells(Append(w, UI(r)), "ui", u, r)
  <2>1. Tells(Append(w, UI(r)), UI(r).kind, u, UI(r).rate)
    BY <1>2, PacketKinds, TellsNew
  <2> QED BY <2>1, PacketKinds
<1> QED BY <1>1, <1>2, <1>4, <1>5

(* What it sends when a client has connected.                               *)
LEMMA ConnectedTells ==
  ASSUME NEW r \in Rates \cup {0}, NEW v, NEW u
  PROVE  LET s == <<UI(r), UI(r), SetRate(r)>> IN
         /\ s \in Seq(Packets)
         /\ Tells(s, "rate", v, r) /\ Tells(s, "ui", u, r)
         /\ Coming(s, r)
<1> DEFINE s == <<UI(r), UI(r), SetRate(r)>>
<1>1. /\ s \in Seq(Packets) /\ Len(s) = 3
      /\ s[1] = UI(r) /\ s[2] = UI(r) /\ s[3] = SetRate(r)
  BY PacketKinds
<1> HIDE DEF s
<1>2. \A i \in 1 .. Len(s) : i = 1 \/ i = 2 \/ i = 3
  BY <1>1
<1>3. /\ s[1].kind = "ui" /\ s[2].kind = "ui" /\ s[3].kind = "rate"
      /\ s[1].rate = r /\ s[2].rate = r /\ s[3].rate = r
  BY <1>1, PacketKinds
<1>4. Tells(s, "rate", v, r)
  BY <1>1, <1>2, <1>3 DEF Tells
<1>5. Tells(s, "ui", u, r)
  BY <1>1, <1>2, <1>3 DEF Tells
<1>6. Coming(s, r)
  BY <1>1, <1>2, <1>3 DEF Coming
<1> QED BY <1>1, <1>4, <1>5, <1>6 DEF s

-----------------------------------------------------------------------------
LEMMA ClientStep ==
  ASSUME ClientInv, [SdrppNext]_sdrppVars
  PROVE  ClientInv'
<1>a. CASE sendBaseband \/ dropClient
  <2>1. net' \in Seq(Packets)
    <3>1. IQ \in Packets /\ Disconnect \in Packets
      BY PacketKinds
    <3>2. net' = net \/ net' = Append(net, IQ) \/ net' = Append(net, Disconnect)
      BY <1>a DEF sendBaseband, dropClient
    <3> QED BY <3>1, <3>2, AppendAt DEF ClientInv
  <2>2. UNCHANGED clientVars
    BY <1>a DEF sendBaseband, dropClient
  <2> QED BY <2>1, <2>2, Zenon DEF clientVars, ClientInv
<1>b. CASE start
  <2>1. net' \in Seq(Packets)
    BY <1>b, ConnectedTells DEF start
  <2>2. UNCHANGED <<action, req>> /\ gpc' \in {"idle", "crashed"}
        /\ (gpc' = "idle" => thread' = "recv")
    BY <1>b DEF start
  <2>3. sock'
    BY <1>b, Zenon DEF start
  <2> QED BY <2>1, <2>2, <2>3 DEF ClientInv
<1>c. CASE stop
  <2>1. ~running'
    BY <1>c, Zenon DEF stop
  <2>2. UNCHANGED <<action, req, net>> /\ gpc' = "close"
    BY <1>c DEF stop
  <2> QED BY <2>1, <2>2 DEF ClientInv
<1>d. CASE stopClose
  <2>1. UNCHANGED <<action, req, net, running>> /\ gpc' = "join" /\ gpc = "close"
    BY <1>d DEF stopClose, serverVars
  <2>2. ~running'
    BY <2>1, Zenon DEF ClientInv
  <2> QED BY <2>1, <2>2 DEF ClientInv
<1>e. CASE stopJoin
  <2>1. UNCHANGED <<action, req, net, running>> /\ gpc' = "idle" /\ gpc = "join"
    BY <1>e DEF stopJoin, serverVars
  <2>2. ~running'
    BY <2>1, Zenon DEF ClientInv
  <2> QED BY <2>1, <2>2 DEF ClientInv
<1>f. CASE \E r \in Rates : setSampleRate(r)
  <2>1. PICK r \in Rates : setSampleRate(r)
    BY <1>f
  <2>2. net' \in Seq(Packets)
    BY <2>1, ObeyedTells DEF setSampleRate, Obeyed, ClientInv
  <2>3. UNCHANGED <<running, sock, thread, action, gpc>> /\ req' = r
    BY <2>1 DEF setSampleRate
  <2> QED BY <2>2, <2>3 DEF ClientInv
<1>g. CASE worker
  <2>1. net' \in Seq(Packets)
    BY <1>g, TailAt DEF worker, ClientInv
  <2>2. UNCHANGED <<sock, gpc>> /\ thread = "recv"
    BY <1>g DEF worker, WorkerOnly
  <2>3. \/ running' = running
        \/ ~running'
    BY <1>g, Zenon DEF worker, parseUi, handleBaseband, Ended
  <2>4. /\ action' \in Rates \cup {0} /\ req' \in Rates \cup {0}
        /\ running' = running => thread' \in {"recv", "action"} \/ ~running'
    BY <1>g DEF worker, parseUi, handleBaseband, Ended, ClientInv
  <2> QED BY <2>1, <2>2, <2>3, <2>4 DEF ClientInv
<1>h. CASE recvFails
  <2>1. UNCHANGED <<action, req, net, gpc>>
    BY <1>h DEF recvFails, WorkerOnly
  <2>2. ~running'
    BY <1>h, Zenon DEF recvFails, Ended
  <2> QED BY <2>1, <2>2 DEF ClientInv
<1>i. CASE sendComboAction
  <2>1. net' \in Seq(Packets)
    BY <1>i, ObeyedTells DEF sendComboAction, Obeyed, ClientInv
  <2>2. UNCHANGED <<req, gpc, sock>> /\ action' = 0
    BY <1>i DEF sendComboAction, WorkerOnly
  <2>3. \/ UNCHANGED running /\ thread' = "recv"
        \/ ~running'
    BY <1>i, Zenon DEF sendComboAction, Ended
  <2> QED BY <2>1, <2>2, <2>3 DEF ClientInv
<1>j. CASE UNCHANGED sdrppVars
  BY <1>j, Zenon DEF sdrppVars, clientVars, serverVars, ClientInv
<1> QED BY <1>a, <1>b, <1>c, <1>d, <1>e, <1>f, <1>g, <1>h, <1>i, <1>j
        DEF SdrppNext, Stop, Worker

LEMMA RateStep ==
  ASSUME ClientInv, RateInv, [SdrppNext]_sdrppVars
  PROVE  RateInv'
<1>a. CASE sendBaseband
  <2>1. /\ UNCHANGED <<thread, action, combo, req, rate, serverRate>>
        /\ net' = Append(net, IQ)
    BY <1>a DEF sendBaseband, clientVars
  <2>2. UNCHANGED <<asked, overtaken>> /\ (Connected' => Connected)
    BY <1>a, Zenon DEF sendBaseband, clientVars, history, Connected
  <2> SUFFICES ASSUME Connected PROVE RateInv'
    BY <2>2, Zenon DEF RateInv
  <2>3. Tells(net, "rate", rate, serverRate) /\ Tells(net, "ui", combo, serverRate) /\ Applied
    BY DEF RateInv
  <2>4. IQ \in Packets /\ IQ.kind = "iq" /\ net \in Seq(Packets)
    BY PacketKinds DEF ClientInv
  <2>5. /\ Tells(Append(net, IQ), "rate", rate, serverRate)
        /\ Tells(Append(net, IQ), "ui", combo, serverRate)
    BY <2>3, <2>4, TellsMore
  <2>6. Coming(net, serverRate) => Coming(Append(net, IQ), serverRate)
    BY <2>4, ComingMore
  <2>7. Coming(net, serverRate) => Coming(net', serverRate')
    BY <2>1, <2>6, Zenon
  <2>8. Applied'
    BY <2>1, <2>2, <2>3, <2>7, Zenon DEF Applied
  <2>9. Tells(net', "rate", rate', serverRate') /\ Tells(net', "ui", combo', serverRate')
    BY <2>1, <2>5, Zenon
  <2> QED BY <2>8, <2>9, Zenon DEF RateInv
<1>b. CASE dropClient \/ stop \/ stopClose \/ recvFails
  <2>1. \/ ~up'
        \/ ~running'
        \/ gpc' = "join"
    BY <1>b, Zenon DEF dropClient, stop, stopClose, recvFails, Ended
  <2>2. ~Connected'
    BY <2>1 DEF Connected
  <2> QED BY <2>2, Zenon DEF RateInv
<1>c. CASE stopJoin
  <2>1. UNCHANGED running /\ gpc = "join"
    BY <1>c DEF stopJoin
  <2>2. ~Connected'
    BY <2>1, Zenon DEF Connected, ClientInv
  <2> QED BY <2>2, Zenon DEF RateInv
<1>d. CASE start
  <2>1. PICK r \in Rates : serverRate' = r
    BY <1>d DEF start
  <2>2. /\ net' = <<UI(r), UI(r), SetRate(r)>>
        /\ asked' = req /\ req' = req
        /\ gpc' = "idle" => thread' = "recv"
    BY <1>d, <2>1 DEF start
  <2>3. /\ Tells(net', "rate", rate', serverRate')
        /\ Tells(net', "ui", combo', serverRate')
        /\ Coming(net', serverRate')
    <3> DEFINE s == <<UI(r), UI(r), SetRate(r)>>
    <3>1. Tells(s, "rate", rate', r) /\ Tells(s, "ui", combo', r) /\ Coming(s, r)
      BY ConnectedTells
    <3>2. net' = s
      BY <2>2
    <3> HIDE DEF s
    <3> QED BY <2>1, <3>1, <3>2, Zenon
  <2>4. gpc' = "idle" => Applied'
    BY <2>2, <2>3 DEF Applied
  <2> QED BY <2>3, <2>4 DEF RateInv, Connected
<1>e. CASE \E r \in Rates : setSampleRate(r)
  <2>1. PICK r \in Rates : setSampleRate(r)
    BY <1>e
  <2>2. /\ UNCHANGED <<running, sock, thread, action, combo, rate, gpc, up>>
        /\ req' = r /\ asked' = r
    BY <2>1 DEF setSampleRate
  <2>3. overtaken' = (thread = "action")
    BY <2>1 DEF setSampleRate
  <2> SUFFICES ASSUME Connected PROVE RateInv'
    BY <2>2, Zenon DEF RateInv, Connected
  <2>4. up /\ sock
    BY DEF Connected, ClientInv
  <2>5. serverRate' = r /\ net' = net \o <<SetRate(r), UI(r)>>
    BY <2>1, <2>4, Zenon DEF setSampleRate, Obeyed
  <2>6. Tells(net', "rate", rate', serverRate') /\ Tells(net', "ui", combo', serverRate')
    <3> DEFINE s == net \o <<SetRate(r), UI(r)>>
    <3>1. Tells(s, "rate", rate', r) /\ Tells(s, "ui", combo', r)
      BY ObeyedTells DEF ClientInv
    <3>2. net' = s
      BY <2>5
    <3> HIDE DEF s
    <3> QED BY <2>5, <3>1, <3>2, Zenon
  <2>7. ~overtaken' => thread # "action"
    BY <2>3, Zenon
  <2>8. Applied'
    BY <2>2, <2>5, <2>7 DEF Applied
  <2> QED BY <2>6, <2>8, Zenon DEF RateInv
<1>f. CASE worker
  <2> DEFINE p == Head(net)
  <2>1. /\ net' = Tail(net) /\ thread = "recv" /\ net # <<>> /\ net \in Seq(Packets)
        /\ UNCHANGED <<serverRate, asked, overtaken, gpc, up>>
        /\ p \in Packets
    BY <1>f, TailAt DEF worker, WorkerOnly, history, ClientInv
  <2>2. CASE ~running'
    BY <2>2, Zenon DEF RateInv, Connected
  <2>3. CASE running'
    <3>1. UNCHANGED running
      BY <1>f, <2>3, Zenon DEF worker, parseUi, handleBaseband, Ended
    <3> SUFFICES ASSUME Connected PROVE RateInv'
      BY <2>1, <3>1, Zenon DEF RateInv, Connected
    <3>2. Tells(net, "rate", rate, serverRate) /\ Tells(net, "ui", combo, serverRate) /\ Applied
      BY DEF RateInv
    <3>3. \/ p.kind = "ui" /\ parseUi(p.rate)
          \/ /\ p.kind # "ui" /\ UNCHANGED <<combo, thread, action, req>>
             /\ rate' = IF p.kind = "rate" THEN p.rate ELSE rate
      <4>1. ~Ended
        BY <2>3, Zenon DEF Ended
      <4> QED BY <1>f, <4>1 DEF worker, handleBaseband
    <3>4. /\ combo' = IF p.kind = "ui" THEN p.rate ELSE combo
          /\ rate' = IF p.kind = "rate" THEN p.rate ELSE rate
      BY <3>3 DEF parseUi
    <3>5. Tells(net', "rate", rate', serverRate')
      <4>1. Tells(Tail(net), "rate", IF Head(net).kind = "rate" THEN Head(net).rate ELSE rate, serverRate)
        BY <2>1, <3>2, TellsRest
      <4> QED BY <2>1, <3>4, <4>1, Zenon
    <3>6. Tells(net', "ui", combo', serverRate')
      <4>1. Tells(Tail(net), "ui", IF Head(net).kind = "ui" THEN Head(net).rate ELSE combo, serverRate)
        BY <2>1, <3>2, TellsRest
      <4> QED BY <2>1, <3>4, <4>1, Zenon
    <3>7. Applied'
      <4> SUFFICES ASSUME asked # 0, ~overtaken PROVE Applied'
        BY <2>1, Zenon DEF Applied
      <4>1. req \in {0, asked} /\ (serverRate = asked \/ (req = asked /\ Coming(net, serverRate)))
        BY <2>1, <3>2 DEF Applied
      <4>2. CASE p.kind # "ui"
        <5>1. UNCHANGED <<thread, action, req>>
          BY <3>3, <4>2
        <5>2. Coming(net, serverRate) => Coming(Tail(net), serverRate)
          BY <2>1, <4>2, ComingRest
        <5>3. Coming(net, serverRate) => Coming(net', serverRate')
          BY <2>1, <5>2, Zenon
        <5> QED BY <2>1, <4>1, <5>1, <5>3 DEF Applied
      <4>3. CASE p.kind = "ui"
        <5>1. parseUi(p.rate)
          BY <3>3, <4>3
        <5>2. Coming(net, serverRate) => p.rate = serverRate
          BY <2>1, <4>3, TailAt DEF Coming
        <5>3. CASE MustApply(p.rate)
          <6>1. req = asked /\ req' = 0 /\ thread' = "action" /\ action' = req
            BY <4>1, <5>1, <5>3 DEF parseUi, MustApply
          <6> QED BY <2>1, <6>1 DEF Applied
        <5>4. CASE ~MustApply(p.rate)
          <6>1. req' = 0 /\ UNCHANGED <<thread, action>>
            BY <5>1, <5>4 DEF parseUi
          <6>2. serverRate = asked
            BY <4>1, <5>2, <5>4 DEF MustApply
          <6> QED BY <2>1, <6>1, <6>2 DEF Applied
        <5> QED BY <5>3, <5>4
      <4> QED BY <4>2, <4>3
    <3> QED BY <3>5, <3>6, <3>7, Zenon DEF RateInv
  <2> QED BY <2>2, <2>3
<1>g. CASE sendComboAction
  <2>1. UNCHANGED <<req, rate, combo, asked, overtaken, up, gpc>>
    BY <1>g DEF sendComboAction, WorkerOnly, history
  <2>2. CASE ~running'
    BY <2>2, Zenon DEF RateInv, Connected
  <2>3. CASE running'
    <3>1. UNCHANGED running /\ thread' = "recv" /\ thread = "action"
      BY <1>g, <2>3, Zenon DEF sendComboAction, Ended
    <3> SUFFICES ASSUME Connected PROVE RateInv'
      BY <2>1, <3>1, Zenon DEF RateInv, Connected
    <3>2. up /\ sock
      BY DEF Connected, ClientInv
    <3>3. serverRate' = action /\ net' = net \o <<SetRate(action), UI(action)>>
      BY <1>g, <3>2, Zenon DEF sendComboAction, Obeyed
    <3>4. Tells(net', "rate", rate', serverRate') /\ Tells(net', "ui", combo', serverRate')
      <4> DEFINE s == net \o <<SetRate(action), UI(action)>>
      <4>1. Tells(s, "rate", rate', action) /\ Tells(s, "ui", combo', action)
        BY ObeyedTells DEF ClientInv
      <4>2. net' = s
        BY <3>3
      <4> HIDE DEF s
      <4> QED BY <3>3, <4>1, <4>2, Zenon
    <3>5. Applied
      BY DEF RateInv
    <3>6. Applied'
      BY <2>1, <3>1, <3>3, <3>5 DEF Applied
    <3> QED BY <3>4, <3>6, Zenon DEF RateInv
  <2> QED BY <2>2, <2>3
<1>h. CASE UNCHANGED sdrppVars
  BY <1>h, Zenon DEF sdrppVars, clientVars, serverVars, history, RateInv, Connected, Applied
<1> QED BY <1>a, <1>b, <1>c, <1>d, <1>e, <1>f, <1>g, <1>h
        DEF SdrppNext, Stop, Worker

LEMMA RateAlways == SdrppSpec => [](ClientInv /\ RateInv)
<1>1. SdrppInit => ClientInv /\ RateInv
  <2> SUFFICES ASSUME SdrppInit PROVE ClientInv /\ RateInv
    OBVIOUS
  <2>1. ~running
    BY Zenon DEF SdrppInit
  <2>2. net = <<>> /\ action = 0 /\ req = 0
    BY DEF SdrppInit
  <2> QED BY <2>1, <2>2 DEF ClientInv, RateInv, Connected
<1>2. ClientInv /\ RateInv /\ [SdrppNext]_sdrppVars => (ClientInv /\ RateInv)'
  BY ClientStep, RateStep
<1> QED BY <1>1, <1>2, PTL DEF SdrppSpec

(* For any number of rates, requests, connections and packets under way:    *)
(* once a connected client has read everything, server and client are at    *)
(* the rate the user last asked for, unless an action was about to be sent  *)
(* when it was asked: parseUi(), sendComboAction() and setSampleRate().     *)
THEOREM RateAsAskedAlways == SdrppSpec => []RateAsAsked
<1>1. ClientInv /\ RateInv => RateAsAsked
  <2> SUFFICES ASSUME ClientInv, RateInv, Connected, thread = "recv", net = <<>>,
                      asked # 0, ~overtaken
               PROVE  serverRate = asked /\ combo = asked /\ rate = asked
    BY Zenon DEF RateAsAsked, Connected
  <2>1. \A i \in 1 .. Len(net) : FALSE
    OBVIOUS
  <2>2. rate = serverRate /\ combo = serverRate
    BY <2>1, Zenon DEF RateInv, Tells
  <2>3. ~Coming(net, serverRate)
    BY <2>1, Zenon DEF Coming
  <2>4. serverRate = asked
    BY <2>3 DEF RateInv, Applied
  <2> QED BY <2>2, <2>4
<1> QED BY <1>1, RateAlways, PTL

-----------------------------------------------------------------------------
(* The WAV player: what a pass plays.                                       *)

(* The thread plays what wavStart measured; its count, the position of its  *)
(* stream and what was called back go together, within both sizes.          *)
WavInv ==
  /\ file \in Files
  /\ framePos \in Nat /\ filePos \in Nat /\ heard \in Nat
  /\ wavThread \in {"open", "play"} => dataFrames = DataSize
  /\ wavThread = "play" =>
       /\ framePos = heard /\ filePos = heard
       /\ heard <= dataFrames /\ heard <= file.physical
  /\ short \in BOOLEAN
  /\ short => file.physical >= Width

LEMMA FileFacts ==
  ASSUME file \in Files
  PROVE  /\ file.physical \in Nat /\ file.declared \in Nat /\ DataSize \in Nat
         /\ \/ file.declared \in {0, file.physical % Width}
            \/ file.declared > file.physical
BY WavAssumption DEF Files, DataSize

LEMMA SmallFits ==
  ASSUME NEW a \in Nat, NEW c \in Nat \ {0}, a < c
  PROVE  a % c = a
<1> DEFINE q == a \div c
<1>1. q \in Nat /\ a = c * q + (a % c) /\ a % c \in Nat
  BY Division
<1>2. q = 0
  <2> SUFFICES ASSUME 0 < q PROVE FALSE
    BY <1>1
  <2>1. c * q - c * 0 >= c
    BY <1>1, MultiplesApart
  <2>2. c * 0 = 0
    OBVIOUS
  <2>3. c * q \in Nat
    BY <1>1
  <2> HIDE DEF q
  <2> QED BY <1>1, <2>1, <2>2, <2>3
<1>3. c * q = 0
  BY <1>2
<1> HIDE DEF q
<1> QED BY <1>1, <1>3

(* A measure below what the file holds is that of a size that wrapped.      *)
LEMMA CutShortWrapped ==
  ASSUME file \in Files, DataSize < file.physical
  PROVE  file.physical >= Width
<1>1. /\ file.physical \in Nat /\ file.declared \in Nat
      /\ file.declared = file.physical % Width
      /\ file.declared < file.physical
  BY FileFacts DEF DataSize
<1>2. Width \in Nat \ {0}
  BY WavAssumption
<1> SUFFICES ASSUME file.physical < Width PROVE FALSE
  BY <1>1, <1>2
<1>3. file.physical % Width = file.physical
  BY <1>1, <1>2, SmallFits
<1> QED BY <1>1, <1>3

LEMMA WavStepCorrect ==
  ASSUME WavInv, [WavNext]_wavVars
  PROVE  WavInv'
<1>w. Width \in Nat \ {0} /\ kFrames \in Nat \ {0}
  BY WavAssumption
<1>f. file.physical \in Nat /\ DataSize \in Nat
  BY FileFacts DEF WavInv
<1>1. CASE wavStart
  <2>1. file' = file /\ DataSize' = DataSize
    BY <1>1 DEF wavStart, DataSize
  <2> QED BY <1>1, <2>1 DEF wavStart, playVars, WavInv
<1>2. CASE openFile
  <2>1. DataSize' = DataSize
    BY <1>2 DEF openFile, PlayerOnly, fileVars, DataSize
  <2> QED BY <1>2, <1>f, <2>1 DEF openFile, PlayerOnly, fileVars, WavInv
<1>3. CASE turn
  <2>1. DataSize' = DataSize /\ file' = file /\ dataFrames' = dataFrames /\ wavThread' = wavThread
    BY <1>3 DEF turn, PlayerOnly, fileVars, DataSize
  <2>2. short' \in BOOLEAN /\ (short' => short \/ heard < file.physical)
    BY <1>3, Zenon DEF turn, PassOver
  <2>3. heard < file.physical => DataSize < file.physical
    BY <1>3 DEF turn, WavInv
  <2>4. short' => file'.physical >= Width
    BY <2>1, <2>2, <2>3, CutShortWrapped DEF WavInv
  <2> QED BY <1>3, <1>f, <2>1, <2>2, <2>4 DEF turn, Rewound, WavInv
<1>4. CASE playBlock
  <2> DEFINE got == Least(Least(kFrames, dataFrames - framePos), file.physical - filePos)
  <2>1. DataSize' = DataSize /\ file' = file /\ dataFrames' = dataFrames
    BY <1>4 DEF playBlock, PlayerOnly, fileVars, DataSize
  <2>2. /\ dataFrames = DataSize /\ framePos = heard /\ filePos = heard
        /\ heard < dataFrames /\ heard <= file.physical
    BY <1>4 DEF playBlock, WavInv
  <2>3. /\ got \in Nat /\ heard + got <= dataFrames /\ heard + got <= file.physical
        /\ got = 0 => heard = file.physical
    BY <2>2, <1>w, <1>f DEF Least, WavInv
  <2>4. CASE got = 0
    <3>1. /\ Finished /\ PassOver /\ UNCHANGED <<framePos, filePos, heard>>
      BY <1>4, <2>4 DEF playBlock
    <3>2. ~(heard < file.physical)
      BY <2>3, <2>4, <1>f
    <3>3. short' = short
      BY <3>1, <3>2, Zenon DEF PassOver, WavInv
    <3> QED BY <3>1, <3>3, <2>1 DEF Finished, WavInv
  <2>5. CASE got # 0
    <3>1. /\ framePos' = heard + got /\ filePos' = heard + got /\ heard' = heard + got
          /\ UNCHANGED <<wavThread, short>>
      BY <1>4, <2>2, <2>5 DEF playBlock
    <3> HIDE DEF got
    <3> QED BY <3>1, <2>1, <2>2, <2>3 DEF WavInv
  <2> QED BY <2>4, <2>5
<1>5. CASE playEnds
  <2>1. DataSize' = DataSize /\ file' = file /\ dataFrames' = dataFrames
    BY <1>5 DEF playEnds, PlayerOnly, fileVars, DataSize
  <2>2. wavThread' = "ended" /\ UNCHANGED <<framePos, filePos, heard>>
    BY <1>5 DEF playEnds, Finished
  <2>3. CASE UNCHANGED short
    BY <2>1, <2>2, <2>3 DEF WavInv
  <2>4. CASE framePos = dataFrames /\ PassOver
    <3>1. short' \in BOOLEAN /\ (short' => short \/ heard < file.physical)
      BY <2>4, Zenon DEF PassOver
    <3>2. heard < file.physical => DataSize < file.physical
      BY <1>5, <2>4 DEF playEnds, WavInv
    <3>3. short' => file'.physical >= Width
      BY <2>1, <3>1, <3>2, CutShortWrapped DEF WavInv
    <3> QED BY <2>1, <2>2, <3>1, <3>3 DEF WavInv
  <2> QED BY <1>5, <2>3, <2>4 DEF playEnds
<1>6. CASE wavStop \/ wavStopJoin \/ setLoop \/ UNCHANGED wavVars
  <2>1. UNCHANGED <<file, dataFrames, framePos, filePos, heard, short>> /\ DataSize' = DataSize
    BY <1>6 DEF wavStop, wavStopJoin, setLoop, wavVars, fileVars, playVars, DataSize
  <2>2. wavThread' = wavThread \/ wavThread' = "none"
    BY <1>6 DEF wavStop, wavStopJoin, setLoop, wavVars
  <2> QED BY <2>1, <2>2 DEF WavInv
<1> QED BY <1>1, <1>2, <1>3, <1>4, <1>5, <1>6 DEF WavNext

LEMMA WavAlways == WavSpec => []WavInv
<1>1. WavInit => WavInv
  <2> SUFFICES ASSUME WavInit PROVE WavInv
    OBVIOUS
  <2>1. short \in BOOLEAN /\ ~short
    BY Zenon DEF WavInit
  <2>2. /\ file \in Files /\ framePos = 0 /\ filePos = 0 /\ heard = 0
        /\ wavThread = "none"
    BY DEF WavInit
  <2> QED BY <2>1, <2>2 DEF WavInv
<1>2. WavInv /\ [WavNext]_wavVars => WavInv'
  BY WavStepCorrect
<1> QED BY <1>1, <1>2, PTL DEF WavSpec

(* Every pass that ends or turns by itself has called back the whole        *)
(* recording once and in order, for any size of files and of blocks, unless *)
(* the recording is so long that the 32-bit size of its header wrapped:     *)
(* start() and playLoop().                                                  *)
THEOREM PlaysWholeAlways == WavSpec => []PlaysWhole
<1>1. WavInv => PlaysWhole
  BY DEF WavInv, PlaysWhole
<1> QED BY <1>1, WavAlways, PTL
=============================================================================
