------------------------------ MODULE EgcCode -------------------------------
(* The code layer of src/src/decode/egc/egc_decoder.cpp: Viterbi::decode()  *)
(* takes two symbols a step and keeps, for each state of the encoder, the   *)
(* best path to it; descramble() turns its bytes into those decodeFrame()   *)
(* reads.  Symbols are hard, so a path's metric falls with the symbols it   *)
(* misses: mettab_ is symmetric, and the metric here is minus their number. *)
(* A state is the encoder's register, the oldest bit first.  The code       *)
(* numbers it, so its i \div 2 is a register without the newest bit, and    *)
(* the 32 entries of partabIdx_ are for registers without the oldest.       *)
(* The station, which encodes and scrambles, and the channel are external.  *)
EXTENDS Integers, Sequences

CONSTANTS
  M,            (* bits of the encoder's register: 6                        *)
  partab,       (* partabIdx_: what a 0 that enters is sent as when a 0     *)
                (* leaves, for the bits between                             *)
  Byte, Width,  (* bits of a byte, bits of a path: 8, 32                    *)
  NumBytes,     (* bytes of a frame: 640                                    *)
  Group,        (* bytes scrambled alike: 4                                 *)
  Seed,         (* start of the scrambler's register: 0x80                  *)
  Data,         (* frames the station sends                                 *)
  MaxWrong      (* bound: wrong symbols of a frame                          *)

ASSUME CodeAssumption ==
  /\ M \in Nat /\ 2 <= M /\ M <= Byte
  /\ Byte \in Nat /\ NumBytes \in Nat /\ Group \in Nat \ {0}
  /\ Width \in {k * Byte : k \in 1 .. NumBytes}
  /\ partab \in [[1 .. M - 1 -> {0, 1}] -> 0 .. 3]
  /\ Seed \in [1 .. 8 -> {0, 1}]
  /\ Data \subseteq [1 .. NumBytes -> [1 .. Byte -> {0, 1}]]
  /\ MaxWrong \in Nat

VARIABLES
  state,        (* encoder state -> [path, metric]                          *)
  bitcnt,
  output,       (* bytes, each a sequence of bits, the oldest first         *)
  decoded,      (* what decodeFrame() gets, <<>> until then                 *)
  data,         (* what the station sends                                   *)
  wrong         (* symbols corrupted                                        *)

codeVars == <<state, bitcnt, output, decoded, data, wrong>>

States == [1 .. M -> {0, 1}]
Zeros == [i \in 1 .. M |-> 0]
Bits == NumBytes * Byte
Unreached == -999999

(* --------------------------- scrambling -------------------------------- *)
scrambler[i \in 0 .. NumBytes \div Group] ==
  IF i = 0 THEN Seed
  ELSE LET r == scrambler[i - 1]
       IN  <<(r[8] + r[6] + r[5] + r[4]) % 2>> \o SubSeq(r, 1, 7)

ds(i) == scrambler[i][8]

(* Bytes are turned around, and inverted where the register says so.        *)
descramble(bytes) ==
  [k \in DOMAIN bytes |->
     [b \in 1 .. Byte |-> (bytes[k][Byte + 1 - b] + ds((k - 1) \div Group)) % 2]]

(* ------------------------------ Viterbi -------------------------------- *)
Miss(bit, sym) == IF bit = sym THEN 0 ELSE 1
mets(pair, a, b) == -(Miss(pair \div 2, a) + Miss(pair % 2, b))

NeverBetter(m0, m1) == m0 < m1                                           (* mutant *)
Better(m0, m1) == m0 > m1

(* Both symbols depend on the bit that enters and on the one that leaves:   *)
(* if these differ, both are turned.                                        *)
Pair(in, out, mid) == IF in = out THEN partab[mid] ELSE 3 - partab[mid]

Older(r) == [i \in 1 .. M - 1 |-> r[i]]
Newer(r) == [i \in 1 .. M - 1 |-> r[i + 1]]

(* The state from which a bit out that leaves leads to n.                   *)
Before(n, out) == [i \in 1 .. M |-> IF i = 1 THEN out ELSE n[i - 1]]

(* The survivor into state n comes from one of two states, and the bit that *)
(* leaves the register tells which.                                         *)
Survivor(n, a, b) ==
  LET from(out)   == state[Before(n, out)]
      metric(out) == from(out).metric + mets(Pair(n[M], out, Older(n)), a, b)
      path(out)   == Append(Tail(from(out).path), out)
  IN  IF Better(metric(0), metric(1))
      THEN [metric |-> metric(0), path |-> path(0)]
      ELSE [metric |-> metric(1), path |-> path(1)]

(* The order of the states' numbers, and the first of the best.             *)
Lower(i, j) == \E k \in 1 .. M : i[k] < j[k] /\ \A l \in 1 .. k - 1 : i[l] = j[l]
Best(st) == CHOOSE i \in States : \A j \in States \ {i} :
              st[j].metric < st[i].metric \/ (st[j].metric = st[i].metric /\ Lower(i, j))

(* The oldest byte of the best path, once the path is full.  The test of    *)
(* the last steps, which would rule out odd states, compares bitcnt with    *)
(* the number of symbols: it never holds.                                   *)
step(a, b) ==
  LET next == [n \in States |-> Survivor(n, a, b)]
  IN  /\ bitcnt < Bits /\ bitcnt' = bitcnt + 1
      /\ state' = next
      /\ output' = IF (bitcnt - M + 1) % Byte = 0 /\ bitcnt > Width
                   THEN Append(output, SubSeq(next[Best(next)].path, 1, Byte))
                   ELSE output

(* The end: the path of state 0, behind it zeros for the bits still in the  *)
(* register.                                                                *)
Flushed ==
  LET path == SubSeq(state[Zeros].path \o Zeros, M + 1, Width + M)
  IN  [k \in 1 .. Width \div Byte |-> SubSeq(path, (k - 1) * Byte + 1, k * Byte)]

finish ==
  /\ bitcnt = Bits /\ decoded = <<>>
  /\ output' = output \o Flushed /\ decoded' = descramble(output')
  /\ UNCHANGED <<state, bitcnt, data, wrong>>

(* ------------------------ station and channel -------------------------- *)
CodeInit ==
  /\ state = [n \in States |-> [metric |-> IF n = Zeros THEN 0 ELSE Unreached,
                                path |-> [i \in 1 .. Width |-> 0]]]
  /\ bitcnt = 0 /\ output = <<>> /\ decoded = <<>>
  /\ data \in Data /\ wrong = 0

(* Bit n of the frame f, the lowest bit of a byte first.                    *)
BitOf(f, n) == f[n \div Byte + 1][Byte - (n % Byte)]

(* What the station encodes: the last M bits are zeros.                     *)
Encoded(n) ==
  IF n < 0 \/ n >= Bits - M THEN 0
  ELSE (BitOf(data, n) + ds(n \div (Byte * Group))) % 2

Register(n) == [i \in 1 .. M |-> Encoded(n - M + i - 1)]

SentPair(n) == Pair(Encoded(n), Encoded(n - M), Newer(Register(n)))

symbols ==
  \E x, y \in {0, 1} :
    /\ wrong + x + y <= MaxWrong /\ wrong' = wrong + x + y
    /\ step((SentPair(bitcnt) \div 2 + x) % 2, (SentPair(bitcnt) + y) % 2)
    /\ UNCHANGED <<decoded, data>>

CodeNext == symbols \/ finish

CodeSpec == CodeInit /\ [][CodeNext]_codeVars

(* ------------------------------ properties ----------------------------- *)
(* The frame the station sent is decoded bit by bit in spite of MaxWrong    *)
(* wrong symbols anywhere in it, also those next to its ends and between    *)
(* two bytes, though a path remembers only Width bits: the decoder puts out *)
(* as many bytes as the frame has, in its order, and none twice.            *)
FrameDecoded ==
  decoded # <<>> =>
    /\ Len(decoded) = NumBytes
    /\ \A n \in 0 .. Bits - M - 1 : BitOf(decoded, n) = BitOf(data, n)

(* The path the station took through the encoder is never lost to a worse   *)
(* one: the metric of the state it is in falls with the wrong symbols, no   *)
(* faster, whichever paths were given up; and while no more than one symbol *)
(* was wrong, the path kept for this state is the station's.                *)
TruePathKept ==
  decoded = <<>> =>
    /\ state[Register(bitcnt)].metric \in -wrong .. 0
    /\ wrong <= 1 =>
         state[Register(bitcnt)].path =
           [i \in 1 .. Width |-> Encoded(bitcnt - M - Width + i - 1)]

(* --------------------- what the code can correct ----------------------- *)
(* Symbols in which two branches differ.                                    *)
Apart(p, q) == -mets(p, q \div 2, q % 2)

After(r, in) == [i \in 1 .. M |-> IF i = M THEN in ELSE r[i + 1]]

(* A path that left the station's more than Span steps ago is wrong in the  *)
(* byte that comes out next, and one that misses Enough symbols more than   *)
(* the station's own path is worse even if MaxWrong symbols favour it.      *)
Span == Width + M - Byte
Enough == 2 * MaxWrong + 1

(* Gap shows that the code corrects MaxWrong symbols: Gap[a][r][n] is a     *)
(* lower bound, kept by each step of both, of the symbols in which a path   *)
(* to n that left the station's a steps ago differs from it, the station    *)
(* being in r.  A path that has come back, or that is older, differs in     *)
(* Enough.                                                                  *)
Separates(Gap) ==
  /\ Enough <= -Unreached
  /\ Gap \in [1 .. Span -> [States -> [States -> Int]]]
  /\ \A r, n \in States : \A b, c \in {0, 1} :
       LET d == Apart(Pair(b, r[1], Newer(r)), Pair(c, n[1], Newer(n)))
           s == After(r, b)
           m == After(n, c)
       IN  /\ r = n /\ b # c => Gap[1][s][m] <= d
           /\ \A a \in 1 .. Span - 1 : Gap[a + 1][s][m] <= Gap[a][r][n] + d
           /\ Enough <= Gap[Span][r][n] + d
  /\ \A a \in 1 .. Span : \A r \in States : Enough <= Gap[a][r][r]
====
