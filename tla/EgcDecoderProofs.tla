--------------------------- MODULE EgcDecoderProofs ---------------------------
(* The checksum, for every packet: what it tells from the packet sent.      *)
(* Packets, for every number of channels, message ids and packets, however  *)
(* packets are cut in two, and every limit of the log: what two channels    *)
(* that share the matrix of deinterleave() can do to each other's messages, *)
(* texts and log entries, and what they cannot.                             *)
(* Frames, for every number of rows and columns, unique word, permutation   *)
(* and messages: what UWFinder, depermute() and deinterleave() return.      *)
(* The code layer, for every code, frame and length: what is decoded with   *)
(* no wrong symbol, with one, and with as many as the code can correct.     *)
EXTENDS EgcDecoder, EgcFrame, EgcCode, FiniteSetTheorems, SequenceTheorems,
  WellFoundedInduction, TLAPS

-----------------------------------------------------------------------------
(* The checksum.                                                            *)

LEMMA LeastOf ==
  ASSUME NEW S \in SUBSET Nat, S # {}
  PROVE  \E x \in S : \A y \in S : x <= y
<1> DEFINE R == OpToRel(<, Nat)
<1>1. \A x, y \in Nat : y < x => <<y, x>> \in R
  BY DEF OpToRel
<1>2. IsWellFoundedOn(R, Nat)
  BY NatLessThanWellFounded
<1> HIDE DEF R
<1>3. PICK x \in S : \A y \in S : ~(<<y, x>> \in R)
  BY <1>2, WFMin
<1>4. \A y \in S : x <= y
  <2> SUFFICES ASSUME NEW y \in S, ~(x <= y) PROVE FALSE
    OBVIOUS
  <2>1. x \in Nat /\ y \in Nat /\ y < x
    OBVIOUS
  <2> QED BY <1>1, <1>3, <2>1
<1> QED BY <1>3, <1>4

(* Remainders are equal only of numbers a multiple apart.                   *)
LEMMA SameRemainder ==
  ASSUME NEW B \in Nat \ {0}, NEW x \in Int, NEW y \in Int, x % B = y % B
  PROVE  \E k \in Int : x - y = B * k
<1> DEFINE p == x \div B
           q == y \div B
<1>1. p \in Int /\ q \in Int /\ x = B * p + (x % B) /\ y = B * q + (y % B)
      /\ x % B \in Int
  OBVIOUS
<1> HIDE DEF p, q
<1>2. B * p - B * q = B * (p - q)
  BY <1>1, Z3
<1>3. B * p \in Int /\ B * q \in Int /\ p - q \in Int
  BY <1>1
<1>4. x - y = B * p - B * q
  BY <1>1, <1>3
<1>5. x - y = B * (p - q)
  BY <1>2, <1>4
<1> QED BY <1>3, <1>5

LEMMA SmallMultiple ==
  ASSUME NEW B \in Nat \ {0}, NEW u \in Int, -B < u, u < B, NEW k \in Int, u = B * k
  PROVE  u = 0
<1>1. CASE k = 0
  BY <1>1
<1>2. CASE k >= 1
  <2>1. B * k >= B
    BY <1>2, Z3
  <2> QED BY <2>1
<1>3. CASE k <= -1
  <2>1. B * k <= -B
    BY <1>3, Z3
  <2> QED BY <2>1
<1> QED BY <1>1, <1>2, <1>3

(* Adding to both does not make remainders equal.                           *)
LEMMA AddedApart ==
  ASSUME NEW B \in Nat \ {0}, NEW a \in 0 .. B - 1, NEW b \in 0 .. B - 1, NEW c \in Int,
         (c + a) % B = (c + b) % B
  PROVE  a = b
<1> DEFINE x == c + a  y == c + b
<1>0. x \in Int /\ y \in Int /\ x - y = a - b /\ x % B = y % B
  OBVIOUS
<1> HIDE DEF x, y
<1>1. PICK k \in Int : x - y = B * k
  BY <1>0, SameRemainder
<1>2. a - b \in Int /\ -B < a - b /\ a - b < B /\ a - b = B * k
  BY <1>0, <1>1
<1>3. a - b = 0
  BY <1>2, SmallMultiple
<1> QED BY <1>3

LEMMA ByteFacts ==
  /\ Base \in Nat \ {0} /\ 0 \in Bytes
  /\ \A x \in Int : x % Base \in Bytes
  /\ \A b \in Bytes : b \in Nat
BY EgcAssumption DEF Bytes

LEMMA ByteOf ==
  ASSUME NEW x \in Int
  PROVE  x % Base \in Bytes /\ x % Base \in 0 .. Base - 1 /\ x % Base \in Int
BY EgcAssumption DEF Bytes

LEMMA PairEqual ==
  ASSUME NEW a, NEW b, NEW c, NEW d, <<a, b>> = <<c, d>>
  PROVE  a = c /\ b = d
OBVIOUS

(* One step of the sums, and the byte it takes.                             *)
NextSum(r, b) == LET c0 == (r[1] + b) % Base IN <<c0, (r[2] + c0) % Base>>
Counted(s, i) == IF i <= Len(s) - 2 THEN s[i] ELSE 0

LEMMA NextSumPair ==
  ASSUME NEW a, NEW b, NEW x
  PROVE  NextSum(<<a, b>>, x) = <<(a + x) % Base, (b + ((a + x) % Base)) % Base>>
<1> DEFINE r == <<a, b>>
<1>1. r[1] = a /\ r[2] = b
  OBVIOUS
<1>2. NextSum(r, x) = <<(r[1] + x) % Base, (r[2] + ((r[1] + x) % Base)) % Base>>
  BY DEF NextSum
<1> HIDE DEF r
<1>3. NextSum(r, x) = <<(a + x) % Base, (b + ((a + x) % Base)) % Base>>
  BY <1>1, <1>2, Zenon
<1> QED BY <1>3 DEF r

SumsOf(f, s, n) ==
  f = [i \in 0 .. n |-> IF i = 0 THEN <<0, 0>> ELSE NextSum(f[i - 1], Counted(s, i))]

LEMMA SumsFurther ==
  ASSUME NEW s, NEW n \in Nat, NEW f, SumsOf(f, s, n)
  PROVE  \E g : SumsOf(g, s, n + 1)
<1> DEFINE g == [i \in 0 .. n + 1 |->
                   IF i = n + 1 THEN NextSum(f[n], Counted(s, i)) ELSE f[i]]
<1>1. ASSUME NEW i \in 0 .. n + 1
      PROVE  g[i] = IF i = 0 THEN <<0, 0>> ELSE NextSum(g[i - 1], Counted(s, i))
  <2>1. CASE i = n + 1
    <3>1. g[i] = NextSum(f[n], Counted(s, i)) /\ g[i - 1] = f[n] /\ i # 0
      BY <2>1
    <3> HIDE DEF g
    <3> QED BY <3>1
  <2>2. CASE i # n + 1
    <3>1. i \in 0 .. n /\ g[i] = f[i]
      BY <2>2
    <3>2. f[i] = IF i = 0 THEN <<0, 0>> ELSE NextSum(f[i - 1], Counted(s, i))
      BY <3>1 DEF SumsOf
    <3>3. i # 0 => i - 1 \in 0 .. n + 1 /\ i - 1 # n + 1
      BY <3>1
    <3>4. i # 0 => g[i - 1] = f[i - 1]
      BY <3>3
    <3> HIDE DEF g
    <3> QED BY <3>1, <3>2, <3>4
  <2> QED BY <2>1, <2>2
<1>2. g = [i \in 0 .. n + 1 |-> g[i]]
  OBVIOUS
<1> HIDE DEF g
<1>3. SumsOf(g, s, n + 1)
  BY <1>1, <1>2 DEF SumsOf
<1> QED BY <1>3

LEMMA SumsExist ==
  ASSUME NEW s, NEW n \in Nat
  PROVE  \E f : SumsOf(f, s, n)
<1> DEFINE S == {k \in Nat : ~ \E f : SumsOf(f, s, k)}
<1> SUFFICES ASSUME S # {} PROVE FALSE
  OBVIOUS
<1> HIDE DEF S
<1>1. S \in SUBSET Nat
  BY DEF S
<1>2. PICK k \in S : \A y \in S : k <= y
  BY <1>1, LeastOf
<1>3. k \in Nat /\ ~ \E f : SumsOf(f, s, k)
  BY DEF S
<1>4. k # 0
  <2> DEFINE f == [i \in 0 .. 0 |-> <<0, 0>>]
  <2>1. f = [i \in 0 .. 0 |-> IF i = 0 THEN <<0, 0>> ELSE NextSum(f[i - 1], Counted(s, i))]
    OBVIOUS
  <2> HIDE DEF f
  <2>2. SumsOf(f, s, 0)
    BY <2>1 DEF SumsOf
  <2> QED BY <2>2, <1>3
<1>5. k - 1 \in Nat /\ k - 1 \notin S
  BY <1>1, <1>2, <1>3, <1>4
<1>6. PICK f : SumsOf(f, s, k - 1)
  BY <1>5 DEF S
<1>7. \E g : SumsOf(g, s, (k - 1) + 1)
  BY <1>5, <1>6, SumsFurther
<1>8. (k - 1) + 1 = k
  BY <1>3
<1> QED BY <1>3, <1>7, <1>8

LEMMA SumsDef ==
  ASSUME NEW s \in Seq(Bytes)
  PROVE  SumsOf(sums(s), s, Len(s))
<1> DEFINE Is(f) ==
      f = [i \in 0 .. Len(s) |->
             IF i = 0 THEN <<0, 0>>
             ELSE LET c0 == (f[i - 1][1] + IF i <= Len(s) - 2 THEN s[i] ELSE 0) % Base
                  IN  <<c0, (f[i - 1][2] + c0) % Base>>]
<1>1. \A f : Is(f) <=> SumsOf(f, s, Len(s))
  BY DEF SumsOf, NextSum, Counted
<1>2. sums(s) = CHOOSE f : Is(f)
  BY DEF sums
<1>3. \E f : Is(f)
  BY <1>1, SumsExist
<1> HIDE DEF Is
<1>4. Is(sums(s))
  BY <1>2, <1>3
<1> QED BY <1>1, <1>4

LEMMA SumsStep ==
  ASSUME NEW s \in Seq(Bytes), NEW i \in 0 .. Len(s)
  PROVE  /\ i = 0 => sums(s)[i] = <<0, 0>>
         /\ i # 0 => sums(s)[i] = NextSum(sums(s)[i - 1], Counted(s, i))
         /\ sums(s)[i] \in Bytes \X Bytes
<1>0. Len(s) \in Nat
  OBVIOUS
<1>1. ASSUME NEW k \in 0 .. Len(s)
      PROVE  sums(s)[k] = IF k = 0 THEN <<0, 0>> ELSE NextSum(sums(s)[k - 1], Counted(s, k))
  BY SumsDef DEF SumsOf
<1>2. ASSUME NEW k \in 1 .. Len(s) PROVE Counted(s, k) \in Nat
  <2>1. s[k] \in Bytes
    OBVIOUS
  <2>2. s[k] \in Nat
    BY <2>1, ByteFacts
  <2> QED BY <2>2, <1>0 DEF Counted
<1> DEFINE S == {k \in 0 .. Len(s) : sums(s)[k] \notin Bytes \X Bytes}
<1>3. S = {}
  <2> SUFFICES ASSUME S # {} PROVE FALSE
    OBVIOUS
  <2>1. S \in SUBSET Nat
    BY <1>0
  <2> HIDE DEF S
  <2>2. PICK k \in S : \A y \in S : k <= y
    BY <2>1, LeastOf
  <2>3. k \in 0 .. Len(s) /\ sums(s)[k] \notin Bytes \X Bytes
    BY DEF S
  <2>4. k # 0
    <3>1. <<0, 0>> \in Bytes \X Bytes
      BY ByteFacts
    <3> QED BY <3>1, <2>3, <1>1
  <2>5. k - 1 \in 0 .. Len(s) /\ k - 1 \notin S /\ k \in 1 .. Len(s)
    BY <2>2, <2>3, <2>4, <1>0
  <2>6. sums(s)[k - 1] \in Bytes \X Bytes
    BY <2>5 DEF S
  <2> DEFINE r == sums(s)[k - 1]
             b == Counted(s, k)
             x == r[1] + b
             c0 == x % Base
             y == r[2] + c0
  <2>7. r[1] \in Bytes /\ r[2] \in Bytes /\ b \in Nat
    BY <2>5, <2>6, <1>2
  <2>8. sums(s)[k] = <<c0, y % Base>>
    BY <2>3, <2>4, <1>1 DEF NextSum
  <2> HIDE DEF r, b
  <2> HIDE DEF c0, y
  <2>9. x \in Int
    <3>1. r[1] \in Nat
      BY <2>7, ByteFacts
    <3> QED BY <3>1, <2>7
  <2> HIDE DEF x
  <2>10. c0 \in Bytes /\ c0 \in Int
    BY <2>9, ByteOf DEF c0
  <2>11. y \in Int
    <3>1. r[2] \in Nat
      BY <2>7, ByteFacts
    <3> QED BY <3>1, <2>10 DEF y
  <2> HIDE DEF y
  <2>12. y % Base \in Bytes
    BY <2>11, ByteOf
  <2> DEFINE z == y % Base
  <2>13. sums(s)[k] = <<c0, z>> /\ z \in Bytes
    BY <2>8, <2>12
  <2> HIDE DEF z
  <2> QED BY <2>3, <2>10, <2>13
<1>4. sums(s)[i] \in Bytes \X Bytes
  BY <1>3
<1> QED BY <1>1, <1>4

(* Sums that differ stay so while the same bytes are added.                 *)
LEMMA NextSumApart ==
  ASSUME NEW r \in Bytes \X Bytes, NEW t \in Bytes \X Bytes, NEW b \in Bytes,
         NextSum(r, b) = NextSum(t, b)
  PROVE  r = t
<1> DEFINE c == (r[1] + b) % Base
           d == (t[1] + b) % Base
<1>1. /\ r[1] \in Bytes /\ r[2] \in Bytes /\ t[1] \in Bytes /\ t[2] \in Bytes
      /\ r = <<r[1], r[2]>> /\ t = <<t[1], t[2]>>
  OBVIOUS
<1>2. /\ r[1] \in 0 .. Base - 1 /\ r[2] \in 0 .. Base - 1
      /\ t[1] \in 0 .. Base - 1 /\ t[2] \in 0 .. Base - 1 /\ b \in Int
  BY <1>1, ByteFacts DEF Bytes
<1>3. c = d /\ (r[2] + c) % Base = (t[2] + d) % Base
  BY DEF NextSum
<1>4. c \in Int
  BY <1>2, ByteFacts
<1>5. (b + r[1]) % Base = (b + t[1]) % Base
  <2>1. b + r[1] = r[1] + b /\ b + t[1] = t[1] + b
    BY <1>2
  <2> QED BY <2>1, <1>3
<1> HIDE DEF c, d
<1>6. (c + r[2]) % Base = (c + t[2]) % Base
  <2>1. c + r[2] = r[2] + c /\ c + t[2] = t[2] + c
    BY <1>2, <1>4
  <2> QED BY <2>1, <1>3
<1>7. r[1] = t[1] /\ r[2] = t[2]
  BY <1>2, <1>4, <1>5, <1>6, ByteFacts, AddedApart
<1> QED BY <1>1, <1>7

(* One byte that differs, or two next to each other, leave sums that differ. *)
LEMMA SumsApart ==
  ASSUME NEW s \in Seq(Bytes), NEW t \in Seq(Bytes), Len(s) = Len(t),
         NEW i \in 1 .. Len(s) - 2, s[i] # t[i],
         \A j \in 1 .. Len(s) \ {i, i + 1} : s[j] = t[j]
  PROVE  sums(s)[Len(s)] # sums(t)[Len(s)]
<1> DEFINE n == Len(s)
<1>0. n \in Nat /\ i \in Nat /\ i <= n - 2 /\ i >= 1 /\ Len(t) = n
  OBVIOUS
<1> HIDE DEF n
<1>1. ASSUME NEW k \in 0 .. n
      PROVE  /\ k = 0 => sums(s)[k] = <<0, 0>> /\ sums(t)[k] = <<0, 0>>
             /\ k # 0 => /\ sums(s)[k] = NextSum(sums(s)[k - 1], Counted(s, k))
                         /\ sums(t)[k] = NextSum(sums(t)[k - 1], Counted(t, k))
             /\ sums(s)[k] \in Bytes \X Bytes /\ sums(t)[k] \in Bytes \X Bytes
  BY <1>0, SumsStep DEF n
<1>2. ASSUME NEW k \in 1 .. n
      PROVE  /\ Counted(s, k) \in Bytes /\ Counted(t, k) \in Bytes
             /\ k \notin {i, i + 1} => Counted(s, k) = Counted(t, k)
  <2>1. k \in 1 .. Len(s) /\ k \in 1 .. Len(t) /\ s[k] \in Bytes /\ t[k] \in Bytes
    BY <1>0 DEF n
  <2>2. k \notin {i, i + 1} => s[k] = t[k]
    BY <2>1
  <2> QED BY <2>1, <2>2, <1>0, ByteFacts DEF Counted
<1>3. sums(s)[i - 1] = sums(t)[i - 1]
  <2> DEFINE S == {k \in 0 .. i - 1 : sums(s)[k] # sums(t)[k]}
  <2>1. S = {}
    <3> SUFFICES ASSUME S # {} PROVE FALSE
      OBVIOUS
    <3>1. S \in SUBSET Nat
      BY <1>0
    <3> HIDE DEF S
    <3>2. PICK k \in S : \A y \in S : k <= y
      BY <3>1, LeastOf
    <3>3. k \in 0 .. i - 1 /\ k \in 0 .. n /\ sums(s)[k] # sums(t)[k]
      BY <1>0 DEF S
    <3>4. k # 0
      BY <3>3, <1>1
    <3>5. k - 1 \in 0 .. i - 1 /\ k - 1 \notin S /\ k \in 1 .. n /\ k \notin {i, i + 1}
      BY <3>2, <3>3, <3>4, <1>0
    <3>6. sums(s)[k - 1] = sums(t)[k - 1]
      BY <3>5 DEF S
    <3> QED BY <3>3, <3>4, <3>5, <3>6, <1>1, <1>2
  <2>2. i - 1 \in 0 .. i - 1
    BY <1>0
  <2> QED BY <2>1, <2>2
<1>4. sums(s)[i + 1] # sums(t)[i + 1]
  <2> SUFFICES ASSUME sums(s)[i + 1] = sums(t)[i + 1] PROVE FALSE
    OBVIOUS
  <2> DEFINE r == sums(s)[i - 1]
             x == Counted(s, i)
             y == Counted(t, i)
             u == Counted(s, i + 1)
             v == Counted(t, i + 1)
             c == (r[1] + x) % Base
             d == (r[1] + y) % Base
             c1 == (r[2] + c) % Base
             d1 == (r[2] + d) % Base
             e == (c + u) % Base
             f == (d + v) % Base
  <2>1. /\ i - 1 \in 0 .. n /\ i \in 0 .. n /\ i + 1 \in 0 .. n /\ i \in 1 .. n /\ i + 1 \in 1 .. n
        /\ (i + 1) - 1 = i /\ i # 0 /\ i + 1 # 0
    BY <1>0
  <2>2. x # y
    <3>1. x = s[i] /\ y = t[i]
      BY <1>0 DEF Counted, n
    <3> QED BY <3>1
  <2>3. r \in Bytes \X Bytes /\ x \in Bytes /\ y \in Bytes /\ u \in Bytes /\ v \in Bytes
    BY <2>1, <1>1, <1>2
  <2>4. sums(s)[i] = <<c, c1>> /\ sums(t)[i] = <<d, d1>>
    BY <2>1, <1>1, <1>3 DEF NextSum
  <2>5. /\ sums(s)[i + 1] = NextSum(sums(s)[i], u)
        /\ sums(t)[i + 1] = NextSum(sums(t)[i], v)
    BY <2>1, <1>1
  <2> HIDE DEF r, x, y, u, v
  <2>7. r[1] \in Int /\ r[2] \in Int /\ x \in 0 .. Base - 1 /\ y \in 0 .. Base - 1
        /\ u \in Int /\ v \in Int
    BY <2>3, ByteFacts DEF Bytes
  <2>8. c \in 0 .. Base - 1 /\ d \in 0 .. Base - 1 /\ c \in Int /\ d \in Int
    <3>1. r[1] + x \in Int /\ r[1] + y \in Int
      BY <2>7
    <3> QED BY <3>1, ByteOf
  <2>9. c # d
    BY <2>2, <2>7, ByteFacts, AddedApart
  <2> HIDE DEF c, d
  <2>10. c1 \in 0 .. Base - 1 /\ d1 \in 0 .. Base - 1
    <3>1. r[2] + c \in Int /\ r[2] + d \in Int
      BY <2>7, <2>8
    <3> QED BY <3>1, ByteOf
  <2>11. c1 # d1
    BY <2>7, <2>8, <2>9, ByteFacts, AddedApart
  <2> HIDE DEF c1, d1
  <2>5a. /\ sums(s)[i + 1] = <<e, (c1 + e) % Base>>
         /\ sums(t)[i + 1] = <<f, (d1 + f) % Base>>
    <3>1. /\ NextSum(<<c, c1>>, u) = <<e, (c1 + e) % Base>>
          /\ NextSum(<<d, d1>>, v) = <<f, (d1 + f) % Base>>
      BY NextSumPair
    <3> HIDE DEF e, f
    <3> QED BY <3>1, <2>4, <2>5, Zenon
  <2>6. e = f /\ (c1 + e) % Base = (d1 + f) % Base
    <3> HIDE DEF e, f
    <3> DEFINE g == (c1 + e) % Base  h == (d1 + f) % Base
    <3>1. <<e, g>> = <<f, h>>
      BY <2>5a, Zenon
    <3> HIDE DEF g, h
    <3>2. e = f /\ g = h
      BY <3>1, PairEqual
    <3> QED BY <3>2 DEF g, h
  <2>12. e \in Int
    <3>1. c + u \in Int
      BY <2>7, <2>8
    <3> QED BY <3>1, ByteOf
  <2> HIDE DEF e, f
  <2>13. (e + c1) % Base = (e + d1) % Base
    <3>1. e + c1 = c1 + e /\ e + d1 = d1 + f
      BY <2>6, <2>10, <2>12
    <3> QED BY <3>1, <2>6
  <2>14. c1 = d1
    BY <2>10, <2>12, <2>13, ByteFacts, AddedApart
  <2> QED BY <2>11, <2>14
<1>5. sums(s)[n] # sums(t)[n]
  <2> DEFINE S == {k \in 0 .. n : k >= i + 1 /\ sums(s)[k] = sums(t)[k]}
  <2>1. S = {}
    <3> SUFFICES ASSUME S # {} PROVE FALSE
      OBVIOUS
    <3>1. S \in SUBSET Nat
      BY <1>0
    <3> HIDE DEF S
    <3>2. PICK k \in S : \A y \in S : k <= y
      BY <3>1, LeastOf
    <3>3. k \in 0 .. n /\ k >= i + 1 /\ sums(s)[k] = sums(t)[k]
      BY DEF S
    <3>4. k # i + 1
      BY <3>3, <1>4
    <3>5. /\ k - 1 \in 0 .. n /\ k - 1 >= i + 1 /\ k - 1 \notin S /\ k \in 1 .. n
          /\ k \notin {i, i + 1} /\ k # 0
      BY <3>2, <3>3, <3>4, <1>0
    <3>6. sums(s)[k - 1] # sums(t)[k - 1]
      BY <3>5 DEF S
    <3>7. /\ sums(s)[k] = NextSum(sums(s)[k - 1], Counted(s, k))
          /\ sums(t)[k] = NextSum(sums(t)[k - 1], Counted(s, k))
          /\ Counted(s, k) \in Bytes
          /\ sums(s)[k - 1] \in Bytes \X Bytes /\ sums(t)[k - 1] \in Bytes \X Bytes
      BY <3>3, <3>5, <1>1, <1>2
    <3>8. sums(s)[k - 1] = sums(t)[k - 1]
      <4> DEFINE a == sums(s)[k - 1]  b == sums(t)[k - 1]  x == Counted(s, k)
      <4>1. a \in Bytes \X Bytes /\ b \in Bytes \X Bytes /\ x \in Bytes
        BY <3>7
      <4>2. NextSum(a, x) = NextSum(b, x)
        BY <3>3, <3>7, Zenon
      <4> HIDE DEF a, b, x
      <4>3. a = b
        BY <4>1, <4>2, NextSumApart
      <4> QED BY <4>3 DEF a, b
    <3> QED BY <3>6, <3>8
  <2>2. n \in 0 .. n /\ n >= i + 1
    BY <1>0
  <2> QED BY <2>1, <2>2
<1> QED BY <1>5 DEF n

(* The two bytes of the checksum tell sums apart.                           *)
LEMMA CrcApart ==
  ASSUME NEW s \in Seq(Bytes), NEW t \in Seq(Bytes), Len(s) = Len(t),
         NEW i \in 1 .. Len(s) - 2, s[i] # t[i],
         \A j \in 1 .. Len(s) \ {i, i + 1} : s[j] = t[j]
  PROVE  egcCrc(s) # egcCrc(t)
<1> DEFINE C == sums(s)[Len(s)]
           D == sums(t)[Len(t)]
<1>0. Len(s) \in 0 .. Len(s) /\ Len(t) \in 0 .. Len(t)
  OBVIOUS
<1>1. C \in Bytes \X Bytes /\ D \in Bytes \X Bytes
  BY <1>0, SumsStep
<1>2. C # D
  BY SumsApart
<1>3. /\ egcCrc(s) = <<(C[1] - C[2]) % Base, (C[2] - 2 * C[1]) % Base>>
      /\ egcCrc(t) = <<(D[1] - D[2]) % Base, (D[2] - 2 * D[1]) % Base>>
  BY DEF egcCrc
<1> HIDE DEF C, D
<1>4. /\ C[1] \in 0 .. Base - 1 /\ C[2] \in 0 .. Base - 1
      /\ D[1] \in 0 .. Base - 1 /\ D[2] \in 0 .. Base - 1
      /\ C = <<C[1], C[2]>> /\ D = <<D[1], D[2]>>
  BY <1>1 DEF Bytes
<1> SUFFICES ASSUME egcCrc(s) = egcCrc(t) PROVE FALSE
  OBVIOUS
<1> DEFINE a == C[1]  b == C[2]  x == D[1]  y == D[2]
<1>5. (a - b) % Base = (x - y) % Base /\ (b - 2 * a) % Base = (y - 2 * x) % Base
  <2> DEFINE p == (a - b) % Base  q == (b - 2 * a) % Base
             u == (x - y) % Base  v == (y - 2 * x) % Base
  <2>1. <<p, q>> = <<u, v>>
    BY <1>3, Zenon
  <2> HIDE DEF p, q, u, v
  <2>2. p = u /\ q = v
    BY <2>1, PairEqual
  <2> QED BY <2>2 DEF p, q, u, v
<1>6. Base \in Nat \ {0} /\ a \in 0 .. Base - 1 /\ b \in 0 .. Base - 1
      /\ x \in 0 .. Base - 1 /\ y \in 0 .. Base - 1
  BY <1>4, ByteFacts
<1> HIDE DEF a, b, x, y
<1>7. PICK k \in Int : (a - b) - (x - y) = Base * k
  <2> DEFINE u == a - b  v == x - y
  <2>1. u \in Int /\ v \in Int /\ u % Base = v % Base
    BY <1>5, <1>6
  <2> HIDE DEF u, v
  <2>2. \E j \in Int : u - v = Base * j
    BY <2>1, <1>6, SameRemainder
  <2> QED BY <2>2 DEF u, v
<1>8. PICK m \in Int : (b - 2 * a) - (y - 2 * x) = Base * m
  <2> DEFINE u == b - 2 * a  v == y - 2 * x
  <2>1. u \in Int /\ v \in Int /\ u % Base = v % Base
    BY <1>5, <1>6
  <2> HIDE DEF u, v
  <2>2. \E j \in Int : u - v = Base * j
    BY <2>1, <1>6, SameRemainder
  <2> QED BY <2>2 DEF u, v
<1>9. x - a = Base * (k + m)
  <2>1. Base * k + Base * m = Base * (k + m)
    BY <1>6, Z3
  <2>2. Base * k \in Int /\ Base * m \in Int
    BY <1>6
  <2>3. x - a = Base * k + Base * m
    BY <1>6, <1>7, <1>8, <2>2
  <2> QED BY <2>1, <2>3
<1>10. x - a = 0
  <2>1. k + m \in Int /\ x - a \in Int /\ -Base < x - a /\ x - a < Base
    BY <1>6
  <2> QED BY <2>1, <1>6, <1>9, SmallMultiple
<1>11. y - b = 0
  <2>1. y - b \in Int /\ -Base < y - b /\ y - b < Base /\ y - b = Base * k
    BY <1>6, <1>7, <1>10
  <2> QED BY <2>1, <1>6, SmallMultiple
<1>12. a = x /\ b = y
  BY <1>6, <1>10, <1>11
<1> QED BY <1>2, <1>4, <1>12 DEF a, b, x, y

-----------------------------------------------------------------------------
(* Types.                                                                   *)

AllAa(c) == {AaPacket(c, a) : a \in AaNumbers}
Parts(c) == {Part(k, q) : k \in {"bd", "be"}, q \in Split(c)}
PacketsOf(c) == Plain(c) \cup AllAa(c) \cup Parts(c)

AllPackets == UNION {PacketsOf(c) : c \in Channels}
AllSplit == UNION {Split(c) : c \in Channels}
AllParts == UNION {Parts(c) : c \in Channels}
MessageIds == Ids \cup Nat

Item == [from : SUBSET Channels, overlapped : BOOLEAN, mixed : BOOLEAN]
Entry == [ch : Channels, id : MessageIds, text : Seq(Item)]
AaItem == [id : 1 .. MaxMsg, no : 0 .. MaxPkt, sure : BOOLEAN]
Chain == [last : 0 .. MaxPkt, ita2 : BOOLEAN, text : Seq(AaItem)]
Buffer == [active : BOOLEAN, head : AllSplit \cup {None}, data : Seq(Bytes), expected : Nat,
           overlapped : BOOLEAN]
Joining == [before : AllParts \cup {None}, part : AllParts \cup {None}, put : BOOLEAN]

TypeOK ==
  /\ frame \in [Channels -> AllPackets \cup {None}]
  /\ \A c \in Channels : frame[c] \in PacketsOf(c) \cup {None}
  /\ seen \in [Channels -> SUBSET AllPackets]
  /\ mfa \in [Channels -> Buffer]
  /\ joined \in [Channels -> Joining]
  /\ chain \in [Channels -> Chain]
  /\ onAir \in [Channels -> 0 .. MaxMsg]
  /\ log \in Seq(Entry)
  /\ received \in Nat

LEMMA EgcFacts == MaxPkt \in Nat /\ kMax \in Nat \ {0} /\ MaxMsg \in Nat /\ MaxFrames \in Nat
BY EgcAssumption

LEMMA SplitFacts ==
  ASSUME NEW c \in Channels, NEW q \in Split(c)
  PROVE  /\ q.ch = c /\ q.id \in MessageIds /\ q # None /\ q \in AllSplit
         /\ q.kind \in {"egc", "term", "aa", "nested"}
         /\ q.kind = "aa" => /\ q.id \in 1 .. MaxMsg /\ q.no \in 0 .. MaxPkt
                             /\ q.ita2 \in BOOLEAN /\ q.zap \in BOOLEAN /\ q \in AllAa(c)
<1>1. CASE q \in Plain(c)
  BY <1>1 DEF Plain, MessageIds, None, AllSplit
<1>2. CASE q \in Nested(c)
  BY <1>2 DEF Nested, MessageIds, None, AllSplit
<1>3. CASE q \in AllAa(c)
  <2>1. PICK a \in AaNumbers : q = AaPacket(c, a)
    BY <1>3 DEF AllAa
  <2> DEFINE i == (a.id % 2 = 1)  z == (<<a.id, a.no>> \in Zaps)
  <2>2. q = [kind |-> "aa", ch |-> c, id |-> a.id, no |-> a.no, ita2 |-> i, zap |-> z]
    BY <2>1 DEF AaPacket
  <2>3. i \in BOOLEAN /\ z \in BOOLEAN
    OBVIOUS
  <2>4. a.id \in 1 .. MaxMsg /\ a.no \in 0 .. MaxPkt /\ a.id \in Nat
    BY <2>1, EgcFacts DEF AaNumbers
  <2> HIDE DEF i, z
  <2>5. q.ita2 \in BOOLEAN /\ q.zap \in BOOLEAN
    BY <2>2, <2>3
  <2> QED BY <1>3, <2>2, <2>4, <2>5 DEF None, MessageIds, AllSplit
<1> QED BY <1>1, <1>2, <1>3 DEF Split, AllAa

LEMMA PacketFacts ==
  ASSUME NEW c \in Channels, NEW p \in PacketsOf(c)
  PROVE  /\ p.ch = c /\ p # None /\ p \in AllPackets
         /\ p.kind \in {"egc", "bd", "be", "term", "aa"}
         /\ p.kind \in {"bd", "be"} => p.of \in Split(c) /\ p \in AllParts
         /\ p.kind \notin {"bd", "be"} => p \in Split(c)
<1>0. p \in AllPackets
  BY DEF AllPackets
<1>1. CASE p \in Plain(c) \cup AllAa(c)
  <2>1. p \in Split(c)
    BY <1>1 DEF Split, AllAa
  <2>2. p.kind # "nested"
    <3>1. CASE p \in Plain(c)
      BY <3>1 DEF Plain
    <3>2. CASE p \in AllAa(c)
      <4>1. PICK a \in AaNumbers : p = AaPacket(c, a)
        BY <3>2 DEF AllAa
      <4> DEFINE i == (a.id % 2 = 1)  z == (<<a.id, a.no>> \in Zaps)
      <4>2. p = [kind |-> "aa", ch |-> c, id |-> a.id, no |-> a.no, ita2 |-> i, zap |-> z]
        BY <4>1 DEF AaPacket
      <4> HIDE DEF i, z
      <4> QED BY <4>2
    <3> QED BY <1>1, <3>1, <3>2
  <2> QED BY <1>0, <2>1, <2>2, SplitFacts
<1>2. CASE p \in Parts(c)
  <2>1. PICK k \in {"bd", "be"}, q \in Split(c) : p = Part(k, q)
    BY <1>2 DEF Parts
  <2>2. q.ch = c
    BY <2>1, SplitFacts
  <2>3. p.kind = k /\ p.ch = q.ch /\ p.of = q /\ p # None
    BY <2>1 DEF Part, None
  <2> QED BY <1>0, <1>2, <2>1, <2>2, <2>3 DEF AllParts
<1> QED BY <1>1, <1>2 DEF PacketsOf

LEMMA SplitChannel ==
  ASSUME NEW q \in AllSplit
  PROVE  /\ q.ch \in Channels /\ q \in Split(q.ch) /\ q.id \in MessageIds /\ q # None
         /\ q.kind \in {"egc", "term", "aa", "nested"}
<1>1. PICK c \in Channels : q \in Split(c)
  BY DEF AllSplit
<1> QED BY <1>1, SplitFacts

LEMMA TextFacts ==
  ASSUME TypeOK, NEW c \in Channels
  PROVE  /\ chain[c].text \in Seq(AaItem) /\ Len(chain[c].text) \in Nat
         /\ chain[c].last \in 0 .. MaxPkt /\ chain[c].ita2 \in BOOLEAN
         /\ \A k \in 1 .. Len(chain[c].text) :
              /\ chain[c].text[k].id \in Int /\ chain[c].text[k].no \in Int
              /\ chain[c].text[k].sure \in BOOLEAN
<1>1. /\ chain[c].text \in Seq(AaItem)
      /\ chain[c].last \in 0 .. MaxPkt /\ chain[c].ita2 \in BOOLEAN
  BY DEF TypeOK, Chain
<1>2. ASSUME NEW k \in 1 .. Len(chain[c].text) PROVE chain[c].text[k] \in AaItem
  BY <1>1
<1>3. ASSUME NEW x \in AaItem PROVE x.id \in Int /\ x.no \in Int /\ x.sure \in BOOLEAN
  BY EgcFacts DEF AaItem
<1> QED BY <1>1, <1>2, <1>3

-----------------------------------------------------------------------------
(* Bytes of packets in two parts.                                           *)

LEMMA BytesOf ==
  ASSUME NEW q \in AllSplit
  PROVE  /\ front(q) \in Seq(Bytes) /\ back(q) \in Seq(Bytes) /\ crc(q) \in Seq(Bytes)
         /\ Len(crc(q)) = 2
<1>1. PICK c \in Channels : q \in Split(c)
  BY DEF AllSplit
<1> QED BY <1>1, EgcAssumption

LEMMA TwoJoined ==
  ASSUME NEW v \in Seq(Bytes), NEW z \in Seq(Bytes)
  PROVE  /\ v \o z \in Seq(Bytes) /\ Len(v \o z) = Len(v) + Len(z)
         /\ \A j \in 1 .. Len(v) : (v \o z)[j] = v[j]
         /\ \A j \in Len(v) + 1 .. Len(v) + Len(z) : (v \o z)[j] = z[j - Len(v)]
OBVIOUS

(* w is x, y and the two bytes of z one after the other.                    *)
IsJoined(w, x, y, z) ==
  /\ w \in Seq(Bytes) /\ Len(w) = Len(x) + Len(y) + 2
  /\ Len(x) \in Nat /\ Len(y) \in Nat
  /\ \A j \in 1 .. Len(x) : w[j] = x[j]
  /\ \A j \in Len(x) + 1 .. Len(x) + Len(y) : w[j] = y[j - Len(x)]
  /\ \A j \in Len(x) + Len(y) + 1 .. Len(x) + Len(y) + 2 : w[j] = z[j - (Len(x) + Len(y))]
  /\ crcBytesOf(w) = z

LEMMA JoinedBytes ==
  ASSUME NEW x \in Seq(Bytes), NEW y \in Seq(Bytes), NEW z \in Seq(Bytes), Len(z) = 2
  PROVE  IsJoined(x \o y \o z, x, y, z)
<1> DEFINE u == x \o y
           w == u \o z
           n == Len(w)
<1>1. /\ u \in Seq(Bytes) /\ Len(u) = Len(x) + Len(y) /\ Len(x) \in Nat /\ Len(y) \in Nat
      /\ \A j \in 1 .. Len(x) : u[j] = x[j]
      /\ \A j \in Len(x) + 1 .. Len(x) + Len(y) : u[j] = y[j - Len(x)]
  OBVIOUS
<1> HIDE DEF u
<1>2. /\ w \in Seq(Bytes) /\ Len(w) = Len(u) + 2 /\ Len(u) \in Nat
      /\ \A j \in 1 .. Len(u) : w[j] = u[j]
      /\ \A j \in Len(u) + 1 .. Len(u) + 2 : w[j] = z[j - Len(u)]
  <2>1. /\ w \in Seq(Bytes) /\ Len(w) = Len(u) + Len(z)
        /\ \A j \in 1 .. Len(u) : w[j] = u[j]
        /\ \A j \in Len(u) + 1 .. Len(u) + Len(z) : w[j] = z[j - Len(u)]
    <3>1. u \in Seq(Bytes)
      BY <1>1
    <3> QED BY <3>1, TwoJoined
  <2> HIDE DEF w
  <2> QED BY <2>1, <1>1
<1> HIDE DEF w
<1>3. crcBytesOf(w) = z
  <2> DEFINE v == SubSeq(w, n - 1, n)
  <2>1. n \in Nat /\ n - 1 \in 1 .. n + 1 /\ n = Len(u) + 2
    BY <1>2
  <2>2. /\ v \in Seq(Bytes) /\ Len(v) = 2
        /\ \A k \in 1 .. 2 : v[k] = w[n - 2 + k]
    BY <1>2, <2>1
  <2> HIDE DEF v, n
  <2>3. ASSUME NEW k \in 1 .. 2 PROVE v[k] = z[k]
    <3> DEFINE j == n - 2 + k
    <3>1. j \in Len(u) + 1 .. Len(u) + 2 /\ j - Len(u) = k
      BY <2>1, <1>2
    <3>2. v[k] = w[j]
      BY <2>2
    <3> HIDE DEF j
    <3>3. w[j] = z[j - Len(u)]
      BY <3>1, <1>2
    <3> QED BY <3>1, <3>2, <3>3
  <2>4. v = z
    BY <2>2, <2>3, SeqEqual
  <2> QED BY <2>4 DEF crcBytesOf, v, n
<1> QED
  <2>1. /\ \A j \in 1 .. Len(x) : w[j] = x[j]
        /\ \A j \in Len(x) + 1 .. Len(x) + Len(y) : w[j] = y[j - Len(x)]
    BY <1>1, <1>2
  <2>2. IsJoined(w, x, y, z)
    BY <2>1, <1>1, <1>2, <1>3 DEF IsJoined
  <2> QED BY <2>2 DEF w, u

(* A first part in the place of one near to it is told by the checksum.     *)
LEMMA NearTold ==
  ASSUME NEW x \in Seq(Bytes), NEW s \in Seq(Bytes), Near(x, s),
         NEW y \in Seq(Bytes), NEW z \in Seq(Bytes), Len(z) = 2
  PROVE  egcCrc(x \o y \o z) # egcCrc(s \o y \o z)
<1> DEFINE w == x \o y \o z
           v == s \o y \o z
<1>1. PICK i \in 1 .. Len(x) : /\ x[i] # s[i] /\ Len(s) = Len(x)
                               /\ \A j \in 1 .. Len(x) \ {i, i + 1} : x[j] = s[j]
  <2>1. DOMAIN x = 1 .. Len(x)
    OBVIOUS
  <2> QED BY <2>1, Zenon DEF Near
<1>2. IsJoined(w, x, y, z) /\ IsJoined(v, s, y, z)
  BY JoinedBytes
<1> HIDE DEF w, v
<1>3. Len(s) = Len(x)
  BY <1>1
<1>4. i \in 1 .. Len(w) - 2 /\ w[i] # v[i] /\ Len(w) = Len(v)
  BY <1>1, <1>2, <1>3 DEF IsJoined
<1>5. ASSUME NEW j \in 1 .. Len(w) \ {i, i + 1} PROVE w[j] = v[j]
  <2>1. CASE j \in 1 .. Len(x)
    BY <2>1, <1>1, <1>2, <1>3 DEF IsJoined
  <2>2. CASE j \in Len(x) + 1 .. Len(x) + Len(y)
    BY <2>2, <1>2, <1>3 DEF IsJoined
  <2>3. CASE j \in Len(x) + Len(y) + 1 .. Len(x) + Len(y) + 2
    BY <2>3, <1>2, <1>3 DEF IsJoined
  <2> QED BY <2>1, <2>2, <2>3, <1>2 DEF IsJoined
<1>6. egcCrc(w) # egcCrc(v)
  BY <1>2, <1>4, <1>5, CrcApart DEF IsJoined
<1> QED BY <1>6 DEF w, v

(* When the first part of a and the second of q make a packet.              *)
LEMMA TakenFacts ==
  ASSUME NEW m \in Buffer, NEW a \in AllSplit, NEW q \in AllSplit,
         m.data = front(a), m.expected = Len(Whole(a))
  PROVE  /\ Taken(m, q) \in Seq(Bytes)
         /\ Complete(m, Taken(m, q)) <=>
              /\ Len(back(a)) = Len(back(q))
              /\ crc(q) \in {<<0, 0>>, egcCrc(front(a) \o back(q) \o crc(q))}
<1> DEFINE x == front(a)  b == back(a)  y == back(q)  z == crc(q)
           w == x \o y \o z
<1>1. /\ x \in Seq(Bytes) /\ b \in Seq(Bytes) /\ y \in Seq(Bytes) /\ z \in Seq(Bytes)
      /\ Len(z) = 2
  BY BytesOf
<1>2. m.expected = Len(x) + Len(b) + 2
  BY BytesOf, JoinedBytes DEF Whole, IsJoined
<1> HIDE DEF x, b, y, z
<1>3. w \in Seq(Bytes) /\ Len(w) = Len(x) + Len(y) + 2 /\ crcBytesOf(w) = z
  BY <1>1, JoinedBytes DEF IsJoined
<1>4. Len(x) \in Nat /\ Len(y) \in Nat /\ Len(b) \in Nat
  BY <1>1
<1> HIDE DEF w
<1>5. Taken(m, q) = IF Len(x) + Len(y) + 2 <= m.expected THEN w ELSE x
  BY DEF Taken, w, x, y, z
<1>6. Taken(m, q) \in Seq(Bytes)
  BY <1>1, <1>3, <1>5
<1>7. Complete(m, Taken(m, q)) <=> Len(b) = Len(y) /\ z \in {<<0, 0>>, egcCrc(w)}
  <2>1. CASE Len(x) + Len(y) + 2 <= m.expected
    <3>1. Taken(m, q) = w
      BY <2>1, <1>5
    <3>2. Len(w) = m.expected <=> Len(b) = Len(y)
      BY <1>2, <1>3, <1>4
    <3>3. crcOk(w) <=> z \in {<<0, 0>>, egcCrc(w)}
      BY <1>3, <1>4 DEF crcOk
    <3> QED BY <3>1, <3>2, <3>3 DEF Complete
  <2>2. CASE ~(Len(x) + Len(y) + 2 <= m.expected)
    <3>1. Taken(m, q) = x /\ Len(x) # m.expected /\ Len(b) # Len(y)
      BY <2>2, <1>2, <1>4, <1>5
    <3> QED BY <3>1 DEF Complete
  <2> QED BY <2>1, <2>2
<1> QED BY <1>6, <1>7 DEF x, b, y, z, w

-----------------------------------------------------------------------------
(* What add() does to the log.                                              *)

(* One entry for a channel and id.                                          *)
Unique(s) == \A i, j \in DOMAIN s : s[i].ch = s[j].ch /\ s[i].id = s[j].id => i = j

(* Every item of l is one of k's, or t under the channel ch.                *)
ItemsFrom(l, k, ch, t) ==
  \A i \in DOMAIN l : \A n \in DOMAIN l[i].text :
    \/ l[i].ch = ch /\ l[i].text[n] = t
    \/ \E i0 \in DOMAIN k : \E n0 \in DOMAIN k[i0].text :
         k[i0].ch = l[i].ch /\ k[i0].text[n0] = l[i].text[n]

(* The newest kMax entries.                                                 *)
LEMMA KeptFacts ==
  ASSUME NEW s \in Seq(Entry), Unique(s)
  PROVE  /\ Kept(s) \in Seq(Entry) /\ Unique(Kept(s)) /\ Len(Kept(s)) <= kMax
         /\ \A i \in DOMAIN Kept(s) : \E j \in DOMAIN s : Kept(s)[i] = s[j]
<1>1. kMax \in Nat /\ Len(s) \in Nat
  BY EgcFacts
<1>2. CASE Len(s) <= kMax
  BY <1>1, <1>2 DEF Kept
<1>3. CASE Len(s) > kMax
  <2> DEFINE m == Len(s) - kMax
             k == SubSeq(s, m + 1, Len(s))
  <2>1. m \in Nat /\ m + 1 \in 1 .. Len(s) + 1 /\ Kept(s) = k /\ Len(s) - m = kMax
    BY <1>1, <1>3 DEF Kept
  <2>2. /\ k \in Seq(Entry) /\ Len(k) = kMax
        /\ \A i \in 1 .. kMax : k[i] = s[m + i]
    BY <1>1, <2>1
  <2> HIDE DEF m, k
  <2>3. \A i \in 1 .. kMax : m + i \in DOMAIN s
    BY <1>1, <2>1
  <2>4. DOMAIN k = 1 .. kMax
    BY <2>2
  <2>5. Unique(k)
    <3> SUFFICES ASSUME NEW i \in DOMAIN k, NEW j \in DOMAIN k, k[i].ch = k[j].ch, k[i].id = k[j].id
                 PROVE  i = j
      BY DEF Unique
    <3>1. i \in 1 .. kMax /\ j \in 1 .. kMax /\ k[i] = s[m + i] /\ k[j] = s[m + j]
      BY <2>2, <2>4
    <3>2. m + i = m + j
      BY <3>1, <2>3 DEF Unique
    <3> QED BY <3>1, <3>2, <2>1, <1>1
  <2>6. \A i \in DOMAIN k : \E j \in DOMAIN s : k[i] = s[j]
    BY <2>2, <2>3, <2>4
  <2> QED BY <1>1, <2>1, <2>2, <2>5, <2>6
<1> QED BY <1>1, <1>2, <1>3

LEMMA AddedFacts ==
  ASSUME log \in Seq(Entry), Unique(log), Len(log) <= kMax,
         NEW ch \in Channels, NEW id \in MessageIds, NEW t \in Item
  PROVE  /\ Added(ch, id, t) \in Seq(Entry) /\ Unique(Added(ch, id, t))
         /\ Len(Added(ch, id, t)) <= kMax
         /\ ItemsFrom(Added(ch, id, t), log, ch, t)
<1> DEFINE e == [ch |-> ch, id |-> id, text |-> <<t>>]
<1>1. Len(log) \in Nat /\ DOMAIN log = 1 .. Len(log)
  OBVIOUS
<1>2. CASE Entries(ch, id) = {}
  <2> DEFINE s == Append(log, e)
  <2>1. e \in Entry /\ e.ch = ch /\ e.id = id /\ e.text = <<t>>
    BY DEF Entry
  <2> HIDE DEF e
  <2>2. /\ s \in Seq(Entry) /\ DOMAIN s = 1 .. Len(log) + 1 /\ s[Len(log) + 1] = e
        /\ \A i \in 1 .. Len(log) : s[i] = log[i]
    BY <2>1, <1>1
  <2> HIDE DEF s
  <2>3. \A i \in DOMAIN log : ~(log[i].ch = ch /\ log[i].id = id)
    BY <1>2 DEF Entries, SameMessage
  <2>4. Unique(s)
    <3> SUFFICES ASSUME NEW i \in DOMAIN s, NEW j \in DOMAIN s, s[i].ch = s[j].ch, s[i].id = s[j].id
                 PROVE  i = j
      BY DEF Unique
    <3>1. CASE i \in 1 .. Len(log) /\ j \in 1 .. Len(log)
      BY <3>1, <2>2, <1>1 DEF Unique
    <3>2. CASE i = Len(log) + 1 /\ j = Len(log) + 1
      BY <3>2
    <3>3. CASE i \in 1 .. Len(log) /\ j = Len(log) + 1
      BY <3>3, <2>1, <2>2, <2>3, <1>1
    <3>4. CASE i = Len(log) + 1 /\ j \in 1 .. Len(log)
      BY <3>4, <2>1, <2>2, <2>3, <1>1
    <3> QED BY <3>1, <3>2, <3>3, <3>4, <2>2, <1>1
  <2>5. Added(ch, id, t) = Kept(s)
    BY <1>2 DEF Added, s, e
  <2>6. /\ Kept(s) \in Seq(Entry) /\ Unique(Kept(s)) /\ Len(Kept(s)) <= kMax
        /\ \A i \in DOMAIN Kept(s) : \E j \in DOMAIN s : Kept(s)[i] = s[j]
    BY <2>2, <2>4, KeptFacts
  <2>7. ItemsFrom(Kept(s), log, ch, t)
    <3> SUFFICES ASSUME NEW i \in DOMAIN Kept(s), NEW n \in DOMAIN Kept(s)[i].text
                 PROVE  \/ Kept(s)[i].ch = ch /\ Kept(s)[i].text[n] = t
                        \/ \E i0 \in DOMAIN log : \E n0 \in DOMAIN log[i0].text :
                             log[i0].ch = Kept(s)[i].ch /\ log[i0].text[n0] = Kept(s)[i].text[n]
      BY DEF ItemsFrom
    <3>1. PICK j \in DOMAIN s : Kept(s)[i] = s[j]
      BY <2>6
    <3>2. CASE j \in 1 .. Len(log)
      BY <3>1, <3>2, <2>2, <1>1
    <3>3. CASE j = Len(log) + 1
      <4>1. Kept(s)[i] = e
        BY <3>1, <3>3, <2>2
      <4>2. n = 1 /\ <<t>>[1] = t
        BY <4>1, <2>1
      <4> QED BY <4>1, <4>2, <2>1
    <3> QED BY <3>2, <3>3, <2>2, <1>1
  <2> QED BY <2>5, <2>6, <2>7
<1>3. CASE Entries(ch, id) # {}
  <2>1. PICK i \in DOMAIN log : log[i].ch = ch /\ log[i].id = id
    BY <1>3 DEF Entries, SameMessage
  <2>2. Entries(ch, id) = {i}
    BY <2>1 DEF Entries, SameMessage, Unique
  <2>3. i \in Nat
    BY <2>1, <1>1
  <2>4. (CHOOSE k \in Entries(ch, id) : \A j \in Entries(ch, id) : j <= k) = i
    BY <2>2, <2>3
  <2> DEFINE l == [log EXCEPT ![i].text = Append(@, t)]
  <2>5. Added(ch, id, t) = l
    BY <1>3, <2>4 DEF Added
  <2>6. log[i] \in Entry /\ log[i].text \in Seq(Item)
    <3>1. i \in 1 .. Len(log)
      BY <2>1, <1>1
    <3>2. log[i] \in Entry
      BY <3>1
    <3> QED BY <3>2 DEF Entry
  <2>7. /\ l \in Seq(Entry) /\ Len(l) = Len(log) /\ DOMAIN l = DOMAIN log
        /\ \A j \in DOMAIN log : l[j].ch = log[j].ch /\ l[j].id = log[j].id
        /\ l[i].text = Append(log[i].text, t)
        /\ \A j \in DOMAIN log \ {i} : l[j] = log[j]
    <3>1. Append(log[i].text, t) \in Seq(Item)
      BY <2>6
    <3>2. [log[i] EXCEPT !.text = Append(@, t)] \in Entry
      BY <3>1, <2>6 DEF Entry
    <3>3. /\ [log[i] EXCEPT !.text = Append(@, t)].ch = log[i].ch
          /\ [log[i] EXCEPT !.text = Append(@, t)].id = log[i].id
          /\ [log[i] EXCEPT !.text = Append(@, t)].text = Append(log[i].text, t)
      BY <2>6 DEF Entry
    <3>4. /\ DOMAIN l = DOMAIN log /\ l[i] = [log[i] EXCEPT !.text = Append(@, t)]
          /\ \A j \in DOMAIN log \ {i} : l[j] = log[j]
      BY <2>1
    <3> HIDE DEF l
    <3>5. l \in Seq(Entry) /\ Len(l) = Len(log)
      <4>1. l = [log EXCEPT ![i] = [log[i] EXCEPT !.text = Append(@, t)]]
        BY DEF l
      <4>2. i \in 1 .. Len(log)
        BY <2>1, <1>1
      <4> QED BY <4>1, <4>2, <3>2, ExceptSeq
    <3> QED BY <3>3, <3>4, <3>5
  <2> HIDE DEF l
  <2>8. Unique(l)
    BY <2>7 DEF Unique
  <2>9. ItemsFrom(l, log, ch, t)
    <3> SUFFICES ASSUME NEW j \in DOMAIN l, NEW n \in DOMAIN l[j].text
                 PROVE  \/ l[j].ch = ch /\ l[j].text[n] = t
                        \/ \E i0 \in DOMAIN log : \E n0 \in DOMAIN log[i0].text :
                             log[i0].ch = l[j].ch /\ log[i0].text[n0] = l[j].text[n]
      BY DEF ItemsFrom
    <3>1. CASE j # i
      BY <3>1, <2>7
    <3>2. CASE j = i
      <4>1. l[i].text = Append(log[i].text, t) /\ l[i].ch = ch
        BY <2>1, <2>7
      <4>2. n \in 1 .. Len(log[i].text) + 1 /\ Len(log[i].text) \in Nat
        BY <4>1, <2>6, <3>2
      <4>3. CASE n \in 1 .. Len(log[i].text)
        <5>1. n \in DOMAIN log[i].text /\ l[i].text[n] = log[i].text[n]
          BY <4>1, <4>3, <2>6
        <5> QED BY <5>1, <3>2, <2>1, <4>1
      <4>4. CASE n = Len(log[i].text) + 1
        BY <4>1, <4>4, <2>6, <3>2
      <4> QED BY <4>2, <4>3, <4>4
    <3> QED BY <3>1, <3>2
  <2> QED BY <2>5, <2>7, <2>8, <2>9
<1> QED BY <1>2, <1>3

-----------------------------------------------------------------------------
(* The invariant.                                                           *)

Carried(p) == IF p.kind \in {"bd", "be"} THEN p.of ELSE p

(* What was surely assembled from one packet of this channel is not of a    *)
(* later message than the frame in mat, nor this than the station's.        *)
ChainInv ==
  \A c \in Channels :
    /\ frame[c] # None /\ Carried(frame[c]).kind = "aa" => Carried(frame[c]).id <= onAir[c]
    /\ Len(chain[c].text) > 0 => chain[c].last = chain[c].text[Len(chain[c].text)].no
    /\ \A k \in 1 .. Len(chain[c].text) : chain[c].text[k].sure =>
         /\ chain[c].text[k].id <= onAir[c]
         /\ frame[c] # None /\ Carried(frame[c]).kind = "aa" =>
              chain[c].text[k].id <= Carried(frame[c]).id

(* The buffer waits exactly after a first part, and holds that part.        *)
WaitsFor(m, c, p) ==
  /\ p.kind = "bd" /\ p \in AllParts /\ m.head = p.of /\ m.head \in AllSplit
  /\ m.data = front(m.head) /\ m.expected = Len(Whole(m.head))
  /\ m.head.ch # c => m.overlapped

PartsInv ==
  \A c \in Channels :
    /\ mfa[c].active <=> joined[c].part.kind = "bd"
    /\ mfa[c].active => WaitsFor(mfa[c], c, joined[c].part)

EgcInv == TypeOK /\ ChainInv /\ PartsInv /\ LogSound /\ MultiframeJoined /\ ChainOrdered

LEMMA EgcInvInit == EgcInit => EgcInv
<1> SUFFICES ASSUME EgcInit PROVE EgcInv
  OBVIOUS
<1>1. TypeOK
  <2>1. \A c \in Channels : frame[c] = None
    BY DEF EgcInit
  <2>2. 0 \in MessageIds /\ 0 \in 0 .. MaxPkt /\ 0 \in 0 .. MaxMsg
    BY EgcFacts DEF MessageIds
  <2>3. frame \in [Channels -> AllPackets \cup {None}] /\ seen \in [Channels -> SUBSET AllPackets]
    BY DEF EgcInit
  <2>4. mfa \in [Channels -> Buffer]
    BY DEF EgcInit, Buffer
  <2>5. joined \in [Channels -> Joining]
    BY DEF EgcInit, Joining
  <2>6. chain \in [Channels -> Chain]
    BY <2>2 DEF EgcInit, Chain
  <2>7. onAir \in [Channels -> 0 .. MaxMsg]
    BY <2>2 DEF EgcInit
  <2>8. log \in Seq(Entry) /\ received \in Nat
    BY DEF EgcInit
  <2> QED BY <2>1, <2>3, <2>4, <2>5, <2>6, <2>7, <2>8 DEF TypeOK
<1>2. ChainInv /\ ChainOrdered
  <2>1. \A c \in Channels : frame[c] = None /\ Len(chain[c].text) = 0
    BY DEF EgcInit
  <2> QED BY <2>1 DEF ChainInv, ChainOrdered
<1>3. PartsInv /\ MultiframeJoined
  <2>1. \A c \in Channels : /\ ~mfa[c].active /\ ~joined[c].put
                            /\ joined[c].part.kind = "none" /\ joined[c].before.kind = "none"
    BY DEF EgcInit, None
  <2> QED BY <2>1 DEF PartsInv, MultiframeJoined
<1>4. LogSound
  BY EgcFacts DEF EgcInit, LogSound
<1> QED BY <1>1, <1>2, <1>3, <1>4 DEF EgcInv

(* The log after add(): sound if the item is.                               *)
LEMMA LogStep ==
  ASSUME EgcInv, NEW c \in Channels, NEW id \in MessageIds, NEW t \in Item,
         t.from # {c} => t.overlapped, log' = Added(c, id, t)
  PROVE  log' \in Seq(Entry) /\ LogSound'
<1>1. log \in Seq(Entry) /\ Unique(log) /\ Len(log) <= kMax
  BY DEF EgcInv, TypeOK, LogSound, Unique
<1>2. /\ log' \in Seq(Entry) /\ Unique(log') /\ Len(log') <= kMax /\ ItemsFrom(log', log, c, t)
  BY <1>1, AddedFacts
<1>3. ASSUME NEW i \in DOMAIN log', NEW k \in DOMAIN log'[i].text,
             log'[i].text[k].from # {log'[i].ch}
      PROVE  log'[i].text[k].overlapped
  BY <1>2, <1>3 DEF ItemsFrom, EgcInv, LogSound
<1> QED BY <1>2, <1>3 DEF LogSound, Unique

LEMMA LogKept ==
  ASSUME EgcInv, log' = log
  PROVE  log' \in Seq(Entry) /\ LogSound'
BY DEF EgcInv, TypeOK, LogSound

(* add() changes the log.                                                   *)
LEMMA AddedDiffers ==
  ASSUME log \in Seq(Entry), Len(log) <= kMax,
         NEW ch \in Channels, NEW id \in MessageIds, NEW t \in Item
  PROVE  Added(ch, id, t) # log
<1> DEFINE e == [ch |-> ch, id |-> id, text |-> <<t>>]
<1>1. /\ Len(log) \in Nat /\ DOMAIN log = 1 .. Len(log) /\ kMax \in Nat \ {0}
      /\ Len(log) <= kMax
  BY EgcFacts
<1>2. CASE Entries(ch, id) = {}
  <2> DEFINE s == Append(log, e)
  <2>1. e \in Entry /\ e.ch = ch /\ e.id = id
    BY DEF Entry
  <2> HIDE DEF e
  <2>2. s \in Seq(Entry) /\ Len(s) = Len(log) + 1 /\ s[Len(log) + 1] = e
    BY <2>1, <1>1
  <2> HIDE DEF s
  <2>3. Added(ch, id, t) = Kept(s)
    BY <1>2 DEF Added, s, e
  <2>4. CASE Len(s) <= kMax
    <3>1. Kept(s) = s
      BY <2>4, <2>2, <1>1 DEF Kept
    <3> QED BY <3>1, <2>2, <2>3, <1>1
  <2>5. CASE Len(s) > kMax
    <3> DEFINE m == Len(s) - kMax
               k == SubSeq(s, m + 1, Len(s))
    <3>1. /\ m \in Nat /\ m + 1 \in 1 .. Len(s) + 1 /\ Kept(s) = k /\ Len(s) - m = kMax
          /\ m + kMax = Len(log) + 1
      BY <2>2, <2>5, <1>1 DEF Kept
    <3>2. /\ k \in Seq(Entry) /\ Len(k) = kMax
          /\ \A i \in 1 .. kMax : k[i] = s[m + i]
      BY <2>2, <3>1, <1>1
    <3> HIDE DEF k, m
    <3>3. Len(log) = kMax
      <4> DEFINE n == Len(log)
                 l == Len(s)
      <4>1. n \in Nat /\ kMax \in Nat /\ n <= kMax /\ l = n + 1 /\ l > kMax
        BY <2>2, <2>5, <1>1
      <4> HIDE DEF n, l
      <4>2. n = kMax
        BY <4>1
      <4> QED BY <4>2 DEF n
    <3>4. k[kMax] = e
      <4>1. kMax \in 1 .. kMax
        BY <1>1
      <4>2. k[kMax] = s[m + kMax]
        BY <3>2, <4>1
      <4> QED BY <4>2, <3>1, <2>2
    <3>5. kMax \in DOMAIN log /\ log[kMax] # e
      <4>1. kMax \in DOMAIN log
        BY <3>3, <1>1
      <4>2. ~(log[kMax].ch = ch /\ log[kMax].id = id)
        BY <4>1, <1>2 DEF Entries, SameMessage
      <4> QED BY <4>1, <4>2, <2>1
    <3> QED BY <3>1, <3>4, <3>5, <2>3
  <2> QED BY <2>2, <2>4, <2>5, <1>1
<1>3. CASE Entries(ch, id) # {}
  <2> DEFINE i == CHOOSE i \in Entries(ch, id) : \A j \in Entries(ch, id) : j <= i
             l == [log EXCEPT ![i].text = Append(@, t)]
  <2>1. PICK n \in Entries(ch, id) : \A j \in Entries(ch, id) : j <= n
    <3>1. Entries(ch, id) \subseteq 1 .. Len(log)
      BY <1>1 DEF Entries
    <3> DEFINE S == {Len(log) - j : j \in Entries(ch, id)}
    <3>2. S \in SUBSET Nat /\ S # {}
      BY <1>1, <1>3, <3>1
    <3> HIDE DEF S
    <3>3. PICK x \in S : \A y \in S : x <= y
      BY <3>2, LeastOf
    <3>4. PICK n \in Entries(ch, id) : x = Len(log) - n
      BY <3>3 DEF S
    <3>5. ASSUME NEW j \in Entries(ch, id) PROVE j <= n
      <4>1. Len(log) - j \in S
        BY DEF S
      <4>2. Len(log) - n <= Len(log) - j
        BY <4>1, <3>3, <3>4
      <4> QED BY <4>2, <3>1, <1>1
    <3> QED BY <3>4, <3>5
  <2>2. i \in Entries(ch, id)
    BY <2>1
  <2>3. i \in DOMAIN log
    BY <2>2 DEF Entries
  <2>4. Added(ch, id, t) = l
    BY <1>3 DEF Added
  <2> HIDE DEF i
  <2>5. log[i] \in Entry /\ log[i].text \in Seq(Item)
    <3>1. i \in 1 .. Len(log)
      BY <2>3, <1>1
    <3>2. log[i] \in Entry
      BY <3>1
    <3> QED BY <3>2 DEF Entry
  <2>6. l[i].text = Append(log[i].text, t)
    BY <2>3, <2>5 DEF Entry
  <2>7. Len(Append(log[i].text, t)) # Len(log[i].text)
    BY <2>5
  <2> QED BY <2>4, <2>6, <2>7
<1> QED BY <1>2, <1>3

-----------------------------------------------------------------------------
(* Receiving.                                                               *)

LEMMA ReceiveStep ==
  ASSUME EgcInv, NEW c \in Channels, NEW p \in PacketsOf(c), receive(c, p), onAir' = onAir,
         Carried(p).kind = "aa" => Carried(p).id = onAir[c]
  PROVE  EgcInv'
<1>0. TypeOK /\ ChainInv /\ PartsInv /\ LogSound /\ MultiframeJoined /\ ChainOrdered
  BY DEF EgcInv
<1>1. /\ frame' = [frame EXCEPT ![c] = p] /\ frame[c] = None
      /\ UNCHANGED <<mfa, joined, chain, log>> /\ received' = received + 1
  BY DEF receive
<1>2. p \in AllPackets
  BY DEF AllPackets
<1>3. TypeOK'
  <2>1. seen' \in [Channels -> SUBSET AllPackets]
    <3>1. {frame[b] : b \in Busy} \subseteq AllPackets
      BY <1>0 DEF TypeOK, Busy
    <3> QED BY <1>0, <1>2, <3>1 DEF receive, TypeOK
  <2>2. frame' \in [Channels -> AllPackets \cup {None}]
    BY <1>0, <1>1, <1>2 DEF TypeOK
  <2>3. \A d \in Channels : frame'[d] \in PacketsOf(d) \cup {None}
    BY <1>0, <1>1 DEF TypeOK
  <2> QED BY <1>0, <1>1, <2>1, <2>2, <2>3 DEF TypeOK
<1>4. ChainInv'
  <2> SUFFICES ASSUME NEW d \in Channels
               PROVE  /\ frame'[d] # None /\ Carried(frame'[d]).kind = "aa" =>
                           Carried(frame'[d]).id <= onAir[d]
                      /\ Len(chain[d].text) > 0 => chain[d].last = chain[d].text[Len(chain[d].text)].no
                      /\ \A k \in 1 .. Len(chain[d].text) : chain[d].text[k].sure =>
                           /\ chain[d].text[k].id <= onAir[d]
                           /\ frame'[d] # None /\ Carried(frame'[d]).kind = "aa" =>
                                chain[d].text[k].id <= Carried(frame'[d]).id
    BY <1>1 DEF ChainInv
  <2>1. CASE d # c
    <3>1. frame'[d] = frame[d]
      BY <1>0, <1>1, <2>1 DEF TypeOK
    <3> QED BY <3>1, <1>0, Zenon DEF ChainInv
  <2>2. CASE d = c
    <3>1. frame'[d] = p
      BY <1>0, <1>1, <2>2 DEF TypeOK
    <3>2. onAir[d] \in Int
      BY <1>0, EgcFacts DEF TypeOK
    <3>3. Carried(p).kind = "aa" => Carried(p).id <= onAir[d]
      BY <2>2, <3>2
    <3>4. ASSUME NEW k \in 1 .. Len(chain[d].text), chain[d].text[k].sure
          PROVE  /\ chain[d].text[k].id <= onAir[d]
                 /\ Carried(p).kind = "aa" => chain[d].text[k].id <= Carried(p).id
      BY <1>0, <2>2, <3>4 DEF ChainInv
    <3> QED BY <3>1, <3>3, <3>4, <1>0 DEF ChainInv
  <2> QED BY <2>1, <2>2
<1>5. ChainOrdered' /\ MultiframeJoined' /\ PartsInv' /\ LogSound'
  BY <1>0, <1>1 DEF ChainOrdered, MultiframeJoined, PartsInv, LogSound
<1> QED BY <1>3, <1>4, <1>5 DEF EgcInv

(* What a station sends are packets of its channel, AA packets of the       *)
(* message under way.                                                       *)
LEMMA AaPacketFacts ==
  ASSUME NEW c \in Channels, NEW id, NEW q \in AaOf(c, id)
  PROVE  q \in AllAa(c) /\ q \in Split(c) /\ q.kind = "aa" /\ q.id = id
<1>1. PICK a \in AaNumbers : a.id = id /\ q = AaPacket(c, a)
  BY DEF AaOf
<1>2. q \in AllAa(c)
  BY <1>1 DEF AllAa
<1> DEFINE i == (a.id % 2 = 1)  z == (<<a.id, a.no>> \in Zaps)
<1>3. q = [kind |-> "aa", ch |-> c, id |-> a.id, no |-> a.no, ita2 |-> i, zap |-> z]
  BY <1>1 DEF AaPacket
<1> HIDE DEF i, z
<1> QED BY <1>1, <1>2, <1>3 DEF Split, AllAa

LEMMA InPartsFacts ==
  ASSUME NEW c \in Channels, NEW Q \in SUBSET Split(c), NEW p \in InParts(Q)
  PROVE  p \in Parts(c) /\ p.kind \in {"bd", "be"} /\ p.of \in Q
<1> DEFINE H == Q \cap Halves
<1>1. p \in {Part("bd", q) : q \in H} \/ p \in {Part("be", q) : q \in H}
  BY DEF InParts
<1>2. \E q \in H : p = Part("bd", q) \/ p = Part("be", q)
  BY <1>1
<1>3. PICK q \in Q : p = Part("bd", q) \/ p = Part("be", q)
  BY <1>2
<1> QED BY <1>3 DEF Parts, Part

LEMMA SentFacts ==
  ASSUME NEW c \in Channels
  PROVE  /\ \A p \in Packets(c) : p \in PacketsOf(c) /\ Carried(p).kind # "aa"
         /\ \A p \in AaPackets(c, onAir[c]) :
              p \in PacketsOf(c) /\ (Carried(p).kind = "aa" => Carried(p).id = onAir[c])
<1>1. ASSUME NEW p \in Packets(c) PROVE p \in PacketsOf(c) /\ Carried(p).kind # "aa"
  <2>1. CASE p \in Plain(c)
    BY <2>1 DEF Plain, PacketsOf, Carried
  <2>2. CASE p \in InParts(Plain(c) \cup Nested(c))
    <3> DEFINE Q == Plain(c) \cup Nested(c)
    <3>1. Q \in SUBSET Split(c)
      BY DEF Split
    <3>2. \A q \in Q : q.kind # "aa"
      BY DEF Plain, Nested
    <3> HIDE DEF Q
    <3>3. p \in Parts(c) /\ p.kind \in {"bd", "be"} /\ p.of \in Q
      BY <2>2, <3>1, InPartsFacts DEF Q
    <3> QED BY <3>2, <3>3 DEF PacketsOf, Carried
  <2> QED BY <2>1, <2>2 DEF Packets
<1>2. ASSUME NEW p \in AaPackets(c, onAir[c])
      PROVE  p \in PacketsOf(c) /\ (Carried(p).kind = "aa" => Carried(p).id = onAir[c])
  <2> DEFINE Q == AaOf(c, onAir[c])
  <2>1. \A q \in Q : q \in AllAa(c) /\ q \in Split(c) /\ q.kind = "aa" /\ q.id = onAir[c]
    BY AaPacketFacts
  <2> HIDE DEF Q
  <2>2. CASE p \in Q
    BY <2>1, <2>2 DEF PacketsOf, Carried
  <2>3. CASE p \in InParts(Q)
    <3>1. p \in Parts(c) /\ p.kind \in {"bd", "be"} /\ p.of \in Q
      <4>1. Q \in SUBSET Split(c)
        BY <2>1
      <4> QED BY <4>1, <2>3, InPartsFacts
    <3> QED BY <2>1, <3>1 DEF PacketsOf, Carried
  <2> QED BY <2>2, <2>3 DEF AaPackets, Q
<1> QED BY <1>1, <1>2

-----------------------------------------------------------------------------
(* Decoding.                                                                *)

(* mat holds a packet, another channel's only if that was in deinterleave() *)
(* meanwhile, or nothing readable.                                          *)
LEMMA ReadableFacts ==
  ASSUME EgcInv, NEW c \in Channels, frame[c] # None, NEW p \in Readable(c)
  PROVE  \/ p.kind = "bad"
         \/ \E d \in Channels : p \in PacketsOf(d) /\ (d # c => p # frame[c])
<1>0. TypeOK
  BY DEF EgcInv
<1>1. p = frame[c] \/ p \in seen[c] \/ p = [kind |-> "bad"]
  BY DEF Readable
<1>2. CASE p = frame[c]
  BY <1>0, <1>2 DEF TypeOK
<1>3. CASE p \in seen[c]
  <2>1. PICK d \in Channels : p \in PacketsOf(d)
    BY <1>0, <1>3 DEF TypeOK, AllPackets
  <2>2. ASSUME d # c, p = frame[c] PROVE FALSE
    <3>1. p \in PacketsOf(c)
      BY <1>0, <2>2 DEF TypeOK
    <3> QED BY <2>1, <2>2, <3>1, PacketFacts
  <2> QED BY <2>1, <2>2
<1>4. CASE p = [kind |-> "bad"]
  BY <1>4
<1> QED BY <1>1, <1>2, <1>3, <1>4

(* A frame decoded without a change of the texts of LES channels.           *)
LEMMA DecodedKept ==
  ASSUME EgcInv, NEW c \in Channels, decode(c), chain' = chain
  PROVE  chain' \in [Channels -> Chain] /\ ChainInv' /\ ChainOrdered'
<1>0. TypeOK /\ ChainInv /\ ChainOrdered
  BY DEF EgcInv
<1>1. frame' = [frame EXCEPT ![c] = None] /\ onAir' = onAir
  BY DEF decode
<1>2. \A d \in Channels : frame'[d] # None => frame'[d] = frame[d]
  BY <1>0, <1>1 DEF TypeOK
<1>3. ChainInv'
  BY <1>0, <1>1, <1>2, Zenon DEF ChainInv
<1> QED BY <1>0, <1>3 DEF ChainOrdered, TypeOK

(* A text of a LES channel goes on or begins anew, or is left to a zap test. *)
LEMMA DecodedAa ==
  ASSUME EgcInv, NEW c \in Channels, decode(c), frame[c] # None,
         NEW q \in AllSplit, q.kind = "aa", NEW t \in Item, handleAaPacket(c, q, t),
         ~t.overlapped /\ ~t.mixed => q = Carried(frame[c])
  PROVE  chain' \in [Channels -> Chain] /\ ChainInv' /\ ChainOrdered'
<1> DEFINE m == chain[c]
           base == IF Continues(m.last, q.no) THEN m.text ELSE <<>>
           s == ~t.overlapped /\ ~t.mixed
           x == [id |-> q.id, no |-> q.no, sure |-> s]
           text == Append(base, x)
<1>0. TypeOK /\ ChainInv /\ ChainOrdered
  BY DEF EgcInv
<1>1. frame' = [frame EXCEPT ![c] = None] /\ onAir' = onAir
  BY DEF decode
<1>2. \A e \in Channels : frame'[e] = IF e = c THEN None ELSE frame[e]
  BY <1>0, <1>1 DEF TypeOK
<1>3. /\ q.id \in 1 .. MaxMsg /\ q.no \in 0 .. MaxPkt /\ q.ita2 \in BOOLEAN
      /\ q.no \in Nat /\ q.id \in Nat
  BY SplitChannel, SplitFacts, EgcFacts
<1>4. /\ m.text \in Seq(AaItem) /\ Len(m.text) \in Nat /\ m.ita2 \in BOOLEAN
      /\ m.last \in 0 .. MaxPkt
      /\ \A k \in 1 .. Len(m.text) : m.text[k].id \in Int /\ m.text[k].no \in Int
  BY <1>0, TextFacts
<1>5. x \in AaItem /\ x.id = q.id /\ x.no = q.no /\ x.sure = s
  <2>1. s \in BOOLEAN
    OBVIOUS
  <2> HIDE DEF s
  <2> QED BY <1>3, <2>1 DEF AaItem
<1>6. chain \in [Channels -> Chain]
  BY <1>0 DEF TypeOK
<1>7. CASE q.zap
  <2>1. chain' = chain
    BY <1>7 DEF handleAaPacket
  <2> QED BY <2>1, DecodedKept
<1>8. CASE ~q.zap
  <2>1. chain' = [chain EXCEPT ![c] = [last |-> q.no,
                                       ita2 |-> IF m.last = 0 THEN q.ita2 ELSE m.ita2,
                                       text |-> text]]
    BY <1>8 DEF handleAaPacket
  <2> HIDE DEF x
  <2>2. /\ base \in Seq(AaItem) /\ Len(base) \in Nat
        /\ base = m.text \/ base = <<>>
        /\ Len(base) > 0 => base = m.text /\ Continues(m.last, q.no)
    BY <1>4
  <2> HIDE DEF base
  <2>3. /\ text \in Seq(AaItem) /\ Len(text) = Len(base) + 1 /\ text[Len(base) + 1] = x
        /\ \A k \in 1 .. Len(base) : text[k] = base[k]
    BY <1>5, <2>2
  <2> HIDE DEF text
  <2>4. /\ chain' \in [Channels -> Chain] /\ chain'[c].text = text /\ chain'[c].last = q.no
        /\ \A e \in Channels \ {c} : chain'[e] = chain[e]
    <3> DEFINE i == IF m.last = 0 THEN q.ita2 ELSE m.ita2
               y == [last |-> q.no, ita2 |-> i, text |-> text]
    <3>1. i \in BOOLEAN
      BY <1>3, <1>4
    <3>2. chain' = [chain EXCEPT ![c] = y]
      BY <2>1
    <3> HIDE DEF m, i
    <3>3. y \in Chain /\ y.text = text /\ y.last = q.no
      BY <1>3, <2>3, <3>1 DEF Chain
    <3> HIDE DEF y
    <3> QED BY <1>6, <3>2, <3>3
  <2>5. ASSUME s PROVE q = Carried(frame[c]) /\ q.id <= onAir[c]
    BY <1>0, <2>5 DEF ChainInv
  <2>6. ASSUME NEW k \in 1 .. Len(base), base[k].sure
        PROVE  base[k].id <= onAir[c] /\ (s => base[k].id <= q.id)
    <3>1. base = m.text /\ k \in 1 .. Len(m.text)
      BY <2>2
    <3>2. /\ m.text[k].id <= onAir[c]
          /\ Carried(frame[c]).kind = "aa" => m.text[k].id <= Carried(frame[c]).id
      BY <1>0, <2>6, <3>1 DEF ChainInv
    <3> QED BY <2>5, <3>1, <3>2
  <2>7. ChainInv'
    <3> SUFFICES ASSUME NEW e \in Channels
                 PROVE  /\ frame'[e] # None /\ Carried(frame'[e]).kind = "aa" =>
                             Carried(frame'[e]).id <= onAir[e]
                        /\ Len(chain'[e].text) > 0 =>
                             chain'[e].last = chain'[e].text[Len(chain'[e].text)].no
                        /\ \A k \in 1 .. Len(chain'[e].text) : chain'[e].text[k].sure =>
                             /\ chain'[e].text[k].id <= onAir[e]
                             /\ frame'[e] # None /\ Carried(frame'[e]).kind = "aa" =>
                                  chain'[e].text[k].id <= Carried(frame'[e]).id
      BY <1>1 DEF ChainInv
    <3>1. CASE e # c
      <4>1. frame'[e] = frame[e] /\ chain'[e] = chain[e]
        BY <3>1, <1>2, <2>4
      <4> QED BY <4>1, <1>0, Zenon DEF ChainInv
    <3>2. CASE e = c
      <4>1. frame'[e] = None
        BY <3>2, <1>2
      <4>2. chain'[e].last = chain'[e].text[Len(chain'[e].text)].no
        BY <3>2, <1>5, <2>3, <2>4
      <4>3. ASSUME NEW k \in 1 .. Len(text), text[k].sure PROVE text[k].id <= onAir[c]
        <5>1. CASE k \in 1 .. Len(base)
          BY <5>1, <4>3, <2>3, <2>6
        <5>2. CASE k = Len(base) + 1
          BY <5>2, <4>3, <2>3, <2>5, <1>5
        <5> QED BY <5>1, <5>2, <2>2, <2>3
      <4> QED BY <3>2, <4>1, <4>2, <4>3, <2>4
    <3> QED BY <3>1, <3>2
  <2>8. ChainOrdered'
    <3> SUFFICES ASSUME NEW e \in Channels, NEW k \in 2 .. Len(chain'[e].text),
                        chain'[e].text[k - 1].sure, chain'[e].text[k].sure
                 PROVE  \/ /\ chain'[e].text[k].id = chain'[e].text[k - 1].id
                           /\ chain'[e].text[k].no > chain'[e].text[k - 1].no
                        \/ /\ chain'[e].text[k].id > chain'[e].text[k - 1].id
                           /\ chain'[e].text[k].no > 1
      BY DEF ChainOrdered
    <3>1. CASE e # c
      BY <3>1, <1>0, <2>4 DEF ChainOrdered
    <3>2. CASE e = c
      <4>1. k - 1 \in 1 .. Len(base) /\ k \in 2 .. Len(base) + 1 /\ chain'[e].text = text
        BY <3>2, <2>2, <2>3, <2>4
      <4>2. Len(base) > 0 /\ base = m.text /\ Continues(m.last, q.no)
        BY <4>1, <2>2
      <4>3. text[k - 1] = m.text[k - 1]
        BY <4>1, <4>2, <2>3
      <4>4. CASE k \in 2 .. Len(base)
        <5>1. text[k] = m.text[k]
          BY <4>2, <4>4, <2>2, <2>3
        <5> QED BY <4>1, <4>2, <4>3, <4>4, <5>1, <1>0, <3>2 DEF ChainOrdered
      <4>5. CASE k = Len(base) + 1
        <5>1. text[k] = x /\ k - 1 = Len(m.text)
          BY <4>2, <4>5, <2>2, <2>3
        <5>2. m.last = m.text[k - 1].no
          BY <5>1, <4>1, <4>2, <1>0 DEF ChainInv
        <5>3. q.no > 1 /\ q.no > m.text[k - 1].no
          BY <5>2, <4>2 DEF Continues
        <5>4. s /\ base[k - 1].sure
          BY <5>1, <4>1, <4>2, <4>3, <1>5
        <5>5. m.text[k - 1].id <= q.id
          BY <5>4, <4>1, <4>2, <2>6
        <5>6. m.text[k - 1].id \in Int /\ m.text[k - 1].no \in Int
          BY <1>4, <4>1, <4>2
        <5> QED BY <4>1, <4>3, <5>1, <5>3, <5>5, <5>6, <1>3, <1>5
      <4> QED BY <4>1, <4>4, <4>5, <2>2
    <3> QED BY <3>1, <3>2
  <2> QED BY <2>4, <2>7, <2>8
<1> QED BY <1>7, <1>8

(* A packet with the right checksum changes the log, unless it is the first *)
(* part of another.                                                         *)
LEMMA DecodedPacket ==
  ASSUME EgcInv, NEW c \in Channels, decode(c), frame[c] # None,
         NEW q \in AllSplit, NEW t \in Item, decodePacket(c, q, t),
         t.from # {c} => t.overlapped,
         ~t.overlapped /\ ~t.mixed => q = Carried(frame[c])
  PROVE  /\ chain' \in [Channels -> Chain] /\ ChainInv' /\ ChainOrdered'
         /\ log' \in Seq(Entry) /\ LogSound'
         /\ q.kind # "nested" => log' # log
<1>0. log \in Seq(Entry) /\ Len(log) <= kMax
  BY DEF EgcInv, TypeOK, LogSound
<1>1. q.id \in MessageIds /\ 0 \in MessageIds
  BY SplitChannel DEF MessageIds
<1>2. ASSUME NEW id \in MessageIds, log' = Added(c, id, t)
      PROVE  log' \in Seq(Entry) /\ LogSound' /\ log' # log
  BY <1>0, <1>2, LogStep, AddedDiffers
<1>3. CASE q.kind = "egc" /\ emitEgc(c, q.id, t)
  BY <1>1, <1>2, <1>3, DecodedKept DEF emitEgc
<1>4. CASE q.kind = "term" /\ emitTerminal(c, t)
  BY <1>1, <1>2, <1>4, DecodedKept DEF emitTerminal, emitEgc
<1>5. CASE q.kind = "aa" /\ handleAaPacket(c, q, t)
  <2>1. log' = Added(c, 0, t)
    BY <1>5 DEF handleAaPacket
  <2> QED BY <1>1, <1>2, <1>5, <2>1, DecodedAa
<1>6. CASE q.kind = "nested" /\ UNCHANGED <<chain, log>>
  BY <1>6, DecodedKept, LogKept
<1> QED BY <1>3, <1>4, <1>5, <1>6 DEF decodePacket

(* The parts of a packet put together, or given up.                         *)
LEMMA JoinedStep ==
  ASSUME EgcInv, NEW c \in Channels, NEW p \in AllParts,
         mfa' \in [Channels -> Buffer], \A d \in Channels \ {c} : mfa'[d] = mfa[d], noted(c, p),
         p.kind = "bd" => log' = log /\ mfa'[c].active /\ WaitsFor(mfa'[c], c, p),
         p.kind # "bd" => ~mfa'[c].active,
         p.kind = "be" /\ joined[c].part.kind # "bd" => log' = log,
         p.kind = "be" /\ joined[c].part.kind = "bd" /\ log' # log =>
            /\ Len(back(joined[c].part.of)) = Len(back(p.of))
            /\ crc(p.of) # <<0, 0>> /\ Sealed(p.of) => ~Near(front(joined[c].part.of), front(p.of)),
         p.kind = "be" /\ joined[c].part.kind = "bd" /\ joined[c].part.of = p.of
           /\ p.of.kind # "nested" => (log' # log <=> crc(p.of) = <<0, 0>> \/ Sealed(p.of)),
         p.kind \in {"bd", "be"}
  PROVE  joined' \in [Channels -> Joining] /\ PartsInv' /\ MultiframeJoined'
<1> DEFINE put == log' # log
           a == joined[c].part
           j == [before |-> a, part |-> p, put |-> put]
<1>0. joined \in [Channels -> Joining] /\ PartsInv /\ MultiframeJoined
  BY DEF EgcInv, TypeOK
<1>1. joined' = [joined EXCEPT ![c] = j]
  BY DEF noted
<1>2. put \in BOOLEAN /\ a \in AllParts \cup {None}
  BY <1>0 DEF Joining
<1> HIDE DEF put, a
<1>3. j \in Joining /\ j.before = a /\ j.part = p /\ j.put = put
  BY <1>2 DEF Joining
<1> HIDE DEF j
<1>4. /\ joined' \in [Channels -> Joining] /\ joined'[c] = j
      /\ \A d \in Channels \ {c} : joined'[d] = joined[d]
  BY <1>0, <1>1, <1>3
<1>5. PartsInv'
  <2> SUFFICES ASSUME NEW d \in Channels
               PROVE  /\ mfa'[d].active <=> joined'[d].part.kind = "bd"
                      /\ mfa'[d].active => WaitsFor(mfa'[d], d, joined'[d].part)
    BY DEF PartsInv
  <2>1. CASE d = c
    <3>1. mfa'[c] \in Buffer
      OBVIOUS
    <3> QED BY <2>1, <3>1, <1>3, <1>4 DEF Buffer
  <2>2. CASE d # c
    BY <2>2, <1>0, <1>4 DEF PartsInv
  <2> QED BY <2>1, <2>2
<1>6. MultiframeJoined'
  <2> SUFFICES ASSUME NEW d \in Channels
               PROVE  LET i == joined'[d]  f == i.before  g == i.part IN
                      /\ i.put =>
                           /\ f.kind = "bd" /\ g.kind = "be"
                           /\ Len(back(f.of)) = Len(back(g.of))
                           /\ crc(g.of) # <<0, 0>> /\ Sealed(g.of) => ~Near(front(f.of), front(g.of))
                      /\ f.kind = "bd" /\ g.kind = "be" =>
                           (f.of = g.of /\ f.of.kind # "nested" =>
                              (i.put <=> crc(g.of) = <<0, 0>> \/ Sealed(g.of)))
    BY DEF MultiframeJoined, Sealed
  <2>1. CASE d # c
    BY <2>1, <1>0, <1>4, Zenon DEF MultiframeJoined
  <2>2. put => /\ a.kind = "bd" /\ p.kind = "be"
               /\ Len(back(a.of)) = Len(back(p.of))
               /\ crc(p.of) # <<0, 0>> /\ Sealed(p.of) => ~Near(front(a.of), front(p.of))
    BY DEF put, a
  <2>3. a.kind = "bd" /\ p.kind = "be" =>
          (a.of = p.of /\ a.of.kind # "nested" => (put <=> crc(p.of) = <<0, 0>> \/ Sealed(p.of)))
    BY DEF put, a
  <2>4. CASE d = c
    BY <2>2, <2>3, <2>4, <1>3, <1>4, Zenon
  <2> QED BY <2>1, <2>4
<1> QED BY <1>4, <1>5, <1>6

LEMMA DecodedRest ==
  ASSUME EgcInv, NEW c \in Channels, decode(c),
         chain' \in [Channels -> Chain], ChainInv', ChainOrdered', log' \in Seq(Entry), LogSound',
         mfa' \in [Channels -> Buffer], joined' \in [Channels -> Joining], PartsInv',
         MultiframeJoined'
  PROVE  EgcInv'
<1>0. TypeOK
  BY DEF EgcInv
<1>1. /\ frame' = [frame EXCEPT ![c] = None] /\ seen' = [seen EXCEPT ![c] = {}]
      /\ onAir' = onAir /\ received' = received
  BY DEF decode
<1>2. \A d \in Channels : frame'[d] = IF d = c THEN None ELSE frame[d]
  BY <1>0, <1>1 DEF TypeOK
<1>3. TypeOK'
  BY <1>0, <1>1, <1>2 DEF TypeOK
<1> QED BY <1>3 DEF EgcInv

LEMMA PartsKept ==
  ASSUME EgcInv, UNCHANGED <<mfa, joined>>
  PROVE  /\ mfa' \in [Channels -> Buffer] /\ joined' \in [Channels -> Joining]
         /\ PartsInv' /\ MultiframeJoined'
BY DEF EgcInv, TypeOK, PartsInv, MultiframeJoined

(* 0xBD                                                                     *)
LEMMA BeginStep ==
  ASSUME EgcInv, NEW c \in Channels, decode(c), NEW d \in Channels, NEW p \in PacketsOf(d),
         p.kind = "bd", NEW ov \in BOOLEAN, d # c => ov, beginMultiframe(c, p, ov)
  PROVE  EgcInv'
<1> DEFINE m == [active |-> TRUE, head |-> p.of, data |-> front(p.of),
                 expected |-> Len(Whole(p.of)), overlapped |-> ov]
<1>0. mfa \in [Channels -> Buffer]
  BY DEF EgcInv, TypeOK
<1>1. p \in AllParts /\ p.of \in Split(d) /\ p.of \in AllSplit /\ p.of.ch = d
  BY PacketFacts, SplitFacts
<1>2. m \in Buffer
  <2>1. front(p.of) \in Seq(Bytes) /\ Len(Whole(p.of)) \in Nat
    BY <1>1, BytesOf, JoinedBytes DEF Whole, IsJoined
  <2> QED BY <1>1, <2>1 DEF Buffer
<1>3. mfa' = [mfa EXCEPT ![c] = m] /\ UNCHANGED <<chain, log>> /\ noted(c, p)
  BY DEF beginMultiframe
<1>4. WaitsFor(m, c, p) /\ m.active
  BY <1>1 DEF WaitsFor
<1> HIDE DEF m
<1>5. /\ mfa' \in [Channels -> Buffer] /\ mfa'[c] = m
      /\ \A e \in Channels \ {c} : mfa'[e] = mfa[e]
  BY <1>0, <1>2, <1>3
<1>6. WaitsFor(mfa'[c], c, p) /\ mfa'[c].active
  BY <1>4, <1>5
<1>7. joined' \in [Channels -> Joining] /\ PartsInv' /\ MultiframeJoined'
  BY <1>1, <1>3, <1>5, <1>6, JoinedStep
<1> QED BY <1>3, <1>5, <1>7, DecodedKept, LogKept, DecodedRest

(* 0xBE after a first part                                                  *)
LEMMA EndStep ==
  ASSUME EgcInv, NEW c \in Channels, decode(c), frame[c] # None,
         NEW d \in Channels, NEW p \in PacketsOf(d), p.kind = "be",
         d # c => p # frame[c], endMultiframe(c, p, p # frame[c]), mfa[c].active,
         crcOk(SecondPart(p.of))
  PROVE  EgcInv'
<1> DEFINE m == mfa[c]
           a == joined[c].part
           h == a.of
           q == p.of
           ov == p # frame[c]
           bytes == Taken(m, q)
           t == [from |-> {m.head.ch, q.ch}, overlapped |-> m.overlapped \/ ov, mixed |-> m.head # q]
           whole == Complete(m, bytes)
<1>0. TypeOK /\ mfa \in [Channels -> Buffer] /\ joined \in [Channels -> Joining] /\ m \in Buffer
  BY DEF EgcInv, TypeOK
<1>1. p \in AllParts /\ q \in AllSplit /\ q.ch = d
  BY PacketFacts, SplitFacts
<1>2. WaitsFor(m, c, a) /\ a.kind = "bd"
  BY DEF EgcInv, PartsInv
<1>3. /\ h \in AllSplit /\ m.head = h /\ m.data = front(h) /\ m.expected = Len(Whole(h))
      /\ h.ch # c => m.overlapped
  BY <1>2 DEF WaitsFor
<1>4. /\ bytes \in Seq(Bytes)
      /\ whole <=> /\ Len(back(h)) = Len(back(q))
                   /\ crc(q) \in {<<0, 0>>, egcCrc(front(h) \o back(q) \o crc(q))}
  BY <1>0, <1>1, <1>3, TakenFacts
<1>5. /\ mfa' = [mfa EXCEPT ![c] = AfterSecond(m, bytes)] /\ noted(c, p)
      /\ whole => decodePacket(c, h, t)
      /\ ~whole => UNCHANGED <<chain, log>>
  BY <1>3 DEF endMultiframe
<1>6. AfterSecond(m, bytes) \in Buffer /\ ~AfterSecond(m, bytes).active
  <2> HIDE DEF m, bytes
  <2> QED BY <1>0, <1>4 DEF AfterSecond, Buffer
<1>7. /\ mfa' \in [Channels -> Buffer] /\ ~mfa'[c].active
      /\ \A e \in Channels \ {c} : mfa'[e] = mfa[e]
  <2> DEFINE n == AfterSecond(m, bytes)
  <2> HIDE DEF n
  <2>1. mfa' = [mfa EXCEPT ![c] = n] /\ n \in Buffer /\ ~n.active
    BY <1>5, <1>6 DEF n
  <2> QED BY <1>0, <2>1
<1>8. /\ t \in Item /\ (t.from # {c} => t.overlapped)
      /\ ~t.overlapped /\ ~t.mixed => h = Carried(frame[c])
  <2>1. h.ch \in Channels /\ m.overlapped \in BOOLEAN
    BY <1>0, <1>3, SplitChannel DEF Buffer
  <2>2. t \in Item
    BY <1>1, <1>3, <2>1 DEF Item
  <2>3. ~ov => d = c /\ q = Carried(frame[c])
    BY DEF Carried
  <2> QED BY <1>1, <1>3, <2>2, <2>3
<1> HIDE DEF t, bytes, m
<1>9. /\ chain' \in [Channels -> Chain] /\ ChainInv' /\ ChainOrdered'
      /\ log' \in Seq(Entry) /\ LogSound'
      /\ log' # log => whole
      /\ whole /\ h.kind # "nested" => log' # log
  <2> HIDE DEF whole, h
  <2>1. CASE whole
    <3>1. decodePacket(c, h, t)
      BY <1>5, <2>1
    <3> QED BY <3>1, <2>1, <1>3, <1>8, DecodedPacket
  <2>2. CASE ~whole
    BY <1>5, <2>2, DecodedKept, LogKept
  <2> QED BY <2>1, <2>2
<1>10. ASSUME log' # log, crc(q) # <<0, 0>>, Sealed(q) PROVE ~Near(front(h), front(q))
  <2>1. crc(q) = egcCrc(front(h) \o back(q) \o crc(q))
    BY <1>4, <1>9, <1>10
  <2>2. crc(q) = egcCrc(front(q) \o back(q) \o crc(q))
    BY <1>10 DEF Sealed, Whole
  <2>3. /\ front(h) \in Seq(Bytes) /\ front(q) \in Seq(Bytes) /\ back(q) \in Seq(Bytes)
        /\ crc(q) \in Seq(Bytes) /\ Len(crc(q)) = 2
    BY <1>1, <1>3, BytesOf
  <2> QED BY <2>1, <2>2, <2>3, NearTold
<1>11. ASSUME h = q, q.kind # "nested"
       PROVE  log' # log <=> crc(q) = <<0, 0>> \/ Sealed(q)
  <2>1. whole <=> crc(q) = <<0, 0>> \/ Sealed(q)
    BY <1>4, <1>11 DEF Sealed, Whole
  <2> QED BY <2>1, <1>9, <1>11
<1>12. joined' \in [Channels -> Joining] /\ PartsInv' /\ MultiframeJoined'
  BY <1>1, <1>2, <1>4, <1>5, <1>7, <1>9, <1>10, <1>11, JoinedStep
<1> QED BY <1>7, <1>9, <1>12, DecodedRest

LEMMA DecodeStep ==
  ASSUME EgcInv, NEW c \in Channels, decode(c)
  PROVE  EgcInv'
<1>1. frame[c] # None
  BY DEF decode
<1>2. PICK p \in Readable(c) : decodeFrame(c, p, p # frame[c])
  BY DEF decode
<1>3. CASE p.kind = "bad"
  <2>1. UNCHANGED <<mfa, joined, chain, log>>
    BY <1>2, <1>3 DEF decodeFrame
  <2> QED BY <2>1, PartsKept, LogKept, DecodedKept, DecodedRest
<1>4. CASE \E d \in Channels : p \in PacketsOf(d) /\ (d # c => p # frame[c])
  <2>1. PICK d \in Channels : p \in PacketsOf(d) /\ (d # c => p # frame[c])
    BY <1>4
  <2>2. p.kind \in {"egc", "bd", "be", "term", "aa"}
    BY <2>1, PacketFacts
  <2>3. CASE p.kind = "bd"
    <3>1. beginMultiframe(c, p, p # frame[c])
      BY <1>2, <2>3 DEF decodeFrame
    <3> QED BY <3>1, <2>1, <2>3, BeginStep
  <2>4. CASE p.kind = "be"
    <3>1. endMultiframe(c, p, p # frame[c])
      BY <1>2, <2>4 DEF decodeFrame
    <3>2. CASE ~crcOk(SecondPart(p.of))
      <4>1. UNCHANGED <<mfa, joined, chain, log>>
        BY <3>1, <3>2 DEF endMultiframe
      <4> QED BY <4>1, PartsKept, LogKept, DecodedKept, DecodedRest
    <3>3. CASE crcOk(SecondPart(p.of)) /\ ~mfa[c].active
      <4>1. UNCHANGED <<mfa, chain, log>> /\ noted(c, p)
        BY <3>1, <3>3 DEF endMultiframe
      <4>2. p \in AllParts
        BY <2>1, <2>4, PacketFacts
      <4>3. /\ mfa' \in [Channels -> Buffer] /\ ~mfa'[c].active /\ joined[c].part.kind # "bd"
            /\ \A e \in Channels \ {c} : mfa'[e] = mfa[e]
        BY <3>3, <4>1 DEF EgcInv, TypeOK, PartsInv
      <4>4. joined' \in [Channels -> Joining] /\ PartsInv' /\ MultiframeJoined'
        BY <2>4, <4>1, <4>2, <4>3, JoinedStep
      <4> QED BY <4>1, <4>3, <4>4, LogKept, DecodedKept, DecodedRest
    <3>4. CASE crcOk(SecondPart(p.of)) /\ mfa[c].active
      BY <1>1, <2>1, <2>4, <3>1, <3>4, EndStep
    <3> QED BY <3>2, <3>3, <3>4
  <2>5. CASE p.kind \in {"egc", "term", "aa"}
    <3> DEFINE t == [from |-> {p.ch}, overlapped |-> p # frame[c], mixed |-> FALSE]
    <3>1. decodePacket(c, p, t) /\ UNCHANGED <<mfa, joined>>
      BY <1>2, <2>5 DEF decodeFrame
    <3>2. p \in AllSplit /\ p.ch = d
      BY <2>1, <2>5, PacketFacts, SplitFacts
    <3>3. /\ t \in Item /\ (t.from # {c} => t.overlapped)
          /\ ~t.overlapped /\ ~t.mixed => p = Carried(frame[c])
      BY <2>1, <2>5, <3>2 DEF Item, Carried
    <3> HIDE DEF t
    <3>4. /\ chain' \in [Channels -> Chain] /\ ChainInv' /\ ChainOrdered'
          /\ log' \in Seq(Entry) /\ LogSound'
      BY <1>1, <3>1, <3>2, <3>3, DecodedPacket
    <3> QED BY <3>1, <3>4, PartsKept, DecodedRest
  <2> QED BY <2>2, <2>3, <2>4, <2>5
<1> QED BY <1>1, <1>2, <1>3, <1>4, ReadableFacts

(* The next message is a later one.                                         *)
LEMMA NextStep ==
  ASSUME EgcInv, NEW c \in Channels, nextMessage(c)
  PROVE  EgcInv'
<1>0. TypeOK /\ ChainInv
  BY DEF EgcInv
<1>1. /\ onAir' = [onAir EXCEPT ![c] = onAir[c] + 1] /\ onAir[c] < MaxMsg
      /\ UNCHANGED <<frame, seen, mfa, joined, chain, log, received>>
  BY DEF nextMessage
<1>2. /\ onAir \in [Channels -> 0 .. MaxMsg] /\ onAir' \in [Channels -> 0 .. MaxMsg]
      /\ \A d \in Channels : onAir[d] \in Int /\ onAir'[d] \in Int /\ onAir[d] <= onAir'[d]
  BY <1>0, <1>1, EgcFacts DEF TypeOK
<1>3. TypeOK'
  BY <1>0, <1>1, <1>2 DEF TypeOK
<1>4. ChainInv'
  <2> SUFFICES ASSUME NEW d \in Channels
               PROVE  /\ frame[d] # None /\ Carried(frame[d]).kind = "aa" =>
                           Carried(frame[d]).id <= onAir'[d]
                      /\ \A k \in 1 .. Len(chain[d].text) : chain[d].text[k].sure =>
                           chain[d].text[k].id <= onAir'[d]
    BY <1>0, <1>1 DEF ChainInv
  <2>1. ASSUME frame[d] # None, Carried(frame[d]).kind = "aa" PROVE Carried(frame[d]).id <= onAir'[d]
    <3> DEFINE q == Carried(frame[d])
    <3>1. frame[d] \in PacketsOf(d)
      BY <1>0, <2>1 DEF TypeOK
    <3>2. q \in Split(d)
      BY <3>1, PacketFacts DEF Carried
    <3>3. q.id <= onAir[d]
      BY <1>0, <2>1 DEF ChainInv
    <3> HIDE DEF q
    <3>4. q.id \in Int
      BY <2>1, <3>2, SplitFacts, EgcFacts DEF q
    <3>5. q.id <= onAir'[d]
      BY <1>2, <3>3, <3>4
    <3> QED BY <3>5 DEF q
  <2>2. ASSUME NEW k \in 1 .. Len(chain[d].text), chain[d].text[k].sure
        PROVE  chain[d].text[k].id <= onAir'[d]
    <3>1. chain[d].text[k].id \in Int
      BY <1>0, TextFacts
    <3>2. chain[d].text[k].id <= onAir[d]
      BY <1>0, <2>2 DEF ChainInv
    <3> QED BY <3>1, <3>2, <1>2
  <2> QED BY <2>1, <2>2
<1>5. PartsInv' /\ LogSound' /\ MultiframeJoined' /\ ChainOrdered'
  BY <1>1 DEF EgcInv, PartsInv, LogSound, MultiframeJoined, ChainOrdered
<1> QED BY <1>3, <1>4, <1>5 DEF EgcInv

LEMMA EgcInvStep == EgcInv /\ [EgcNext]_egcVars => EgcInv'
<1> SUFFICES ASSUME EgcInv, [EgcNext]_egcVars PROVE EgcInv'
  OBVIOUS
<1>1. ASSUME NEW c \in Channels, receivePacket(c) PROVE EgcInv'
  <2>1. PICK p \in Packets(c) : receive(c, p) /\ onAir' = onAir
    BY <1>1 DEF receivePacket
  <2> QED BY <2>1, SentFacts, ReceiveStep
<1>2. ASSUME NEW c \in Channels, sendAa(c) PROVE EgcInv'
  <2>1. PICK p \in AaPackets(c, onAir[c]) : receive(c, p) /\ onAir' = onAir
    BY <1>2 DEF sendAa
  <2> QED BY <2>1, SentFacts, ReceiveStep
<1>3. ASSUME NEW c \in Channels, nextMessage(c) PROVE EgcInv'
  BY <1>3, NextStep
<1>4. ASSUME NEW c \in Channels, decode(c) PROVE EgcInv'
  BY <1>4, DecodeStep
<1>5. CASE UNCHANGED egcVars
  <2>1. TypeOK' /\ ChainInv' /\ ChainOrdered' /\ PartsInv' /\ LogSound' /\ MultiframeJoined'
    BY <1>5 DEF egcVars, EgcInv, TypeOK, ChainInv, ChainOrdered, PartsInv, LogSound, MultiframeJoined
  <2> QED BY <2>1 DEF EgcInv
<1> QED BY <1>1, <1>2, <1>3, <1>4, <1>5 DEF EgcNext

(* The frames, buffers, texts, messages and the log of every channel keep   *)
(* their types: what endMultiframe, handleAaPacket and add() put there.     *)
THEOREM EgcTypeAlways == EgcSpec => []TypeOK
<1>1. EgcInv => TypeOK
  BY DEF EgcInv
<1> QED BY <1>1, EgcInvInit, EgcInvStep, PTL DEF EgcSpec

(* Whatever second part endMultiframe finds in the shared matrix: a first   *)
(* part is used once, by the second part after it, and only if that is as   *)
(* long; where the second part has a checksum of its own, it tells a first  *)
(* part that differs in a byte or two neighbours.                           *)
THEOREM MultiframeAlwaysJoined == EgcSpec => []MultiframeJoined
<1>1. EgcInv => MultiframeJoined
  BY DEF EgcInv
<1> QED BY <1>1, EgcInvInit, EgcInvStep, PTL DEF EgcSpec

(* A text holds packets of rising numbers, and runs into a later message    *)
(* only past that one's packets 0 and 1, in whatever order a station sends  *)
(* the packets of a message, and however often or seldom they arrive.       *)
THEOREM ChainAlwaysOrdered == EgcSpec => []ChainOrdered
<1>1. EgcInv => ChainOrdered
  BY DEF EgcInv
<1> QED BY <1>1, EgcInvInit, EgcInvStep, PTL DEF EgcSpec

(* EgcLog keeps to its limit and to one entry for a channel and id, and     *)
(* what came from another channel came while two were in deinterleave().    *)
THEOREM LogAlwaysSound == EgcSpec => []LogSound
<1>1. EgcInv => LogSound
  BY DEF EgcInv
<1> QED BY <1>1, EgcInvInit, EgcInvStep, PTL DEF EgcSpec

-----------------------------------------------------------------------------
(* Frames: positions of symbols.                                            *)

LEMMA Division ==
  ASSUME NEW a \in Nat, NEW c \in Nat \ {0}
  PROVE  /\ a % c \in 0 .. c - 1 /\ a \div c \in Nat
         /\ a = c * (a \div c) + (a % c)
OBVIOUS

LEMMA MultiplesApart ==
  ASSUME NEW c \in Nat \ {0}, NEW p \in Nat, NEW q \in Nat, p < q
  PROVE  c * q - c * p >= c /\ c * q \in Nat /\ c * p \in Nat
<1>1. c * q - c * p = c * (q - p)
  BY Z3
<1>2. q - p >= 1
  OBVIOUS
<1>3. c * (q - p) >= c
  BY <1>2, Z3
<1> QED BY <1>1, <1>3

LEMMA Quotient ==
  ASSUME NEW c \in Nat \ {0}, NEW q \in Nat, NEW x \in 0 .. c - 1
  PROVE  (c * q + x) \div c = q /\ (c * q + x) % c = x /\ c * q + x \in Nat
<1> DEFINE a == c * q + x
           d == a \div c
           e == a % c
<1>0. c * q \in Nat
  OBVIOUS
<1>1. a \in Nat
  BY <1>0
<1>2. d \in Nat /\ e \in 0 .. c - 1 /\ a = c * d + e
  BY <1>1, Division
<1>3. d = q
  <2>1. CASE d < q
    <3>1. c * q - c * d >= c /\ c * d \in Nat
      BY <1>2, <2>1, MultiplesApart
    <3>2. c * q + x = c * d + e
      BY <1>2
    <3> HIDE DEF d, e
    <3> QED BY <1>0, <1>2, <3>1, <3>2
  <2>2. CASE q < d
    <3>1. c * d - c * q >= c /\ c * d \in Nat
      BY <1>2, <2>2, MultiplesApart
    <3>2. c * q + x = c * d + e
      BY <1>2
    <3> HIDE DEF d, e
    <3> QED BY <1>0, <1>2, <3>1, <3>2
  <2> HIDE DEF d
  <2> QED BY <1>2, <2>1, <2>2
<1>4. e = x
  <2>1. c * q + x = c * q + e
    BY <1>2, <1>3
  <2> HIDE DEF d, e
  <2> QED BY <1>0, <1>2, <2>1
<1> QED BY <1>1, <1>3, <1>4

(* A position below a multiple of c is in a row below it.                   *)
LEMMA RowBelow ==
  ASSUME NEW c \in Nat \ {0}, NEW k \in Nat \ {0}, NEW a \in 0 .. c * k - 1
  PROVE  a \div c \in 0 .. k - 1 /\ a % c \in 0 .. c - 1 /\ a = c * (a \div c) + (a % c)
<1> DEFINE d == a \div c
           e == a % c
<1>0. c * k \in Nat
  OBVIOUS
<1>1. a \in Nat /\ a < c * k
  BY <1>0
<1>2. d \in Nat /\ e \in 0 .. c - 1 /\ a = c * d + e
  BY <1>1, Division
<1>3. d < k
  <2> SUFFICES ASSUME k <= d PROVE FALSE
    BY <1>2
  <2>1. c * k <= c * d /\ c * d \in Nat
    <3>1. CASE k = d
      BY <1>0, <3>1
    <3>2. CASE k < d
      <4>1. c * d - c * k >= c /\ c * d \in Nat
        BY <1>2, <3>2, MultiplesApart
      <4> HIDE DEF d
      <4> QED BY <1>0, <4>1
    <3> QED BY <1>2, <3>1, <3>2
  <2> HIDE DEF d, e
  <2> QED BY <1>0, <1>1, <1>2, <2>1
<1> QED BY <1>2, <1>3

LEMMA BelowRow ==
  ASSUME NEW c \in Nat \ {0}, NEW k \in Nat \ {0}, NEW q \in 0 .. k - 1, NEW x \in 0 .. c - 1
  PROVE  c * q + x \in 0 .. c * k - 1
<1>1. c * k - c * q >= c /\ c * k \in Nat /\ c * q \in Nat
  BY MultiplesApart
<1> QED BY <1>1

LEMMA FrameFacts ==
  /\ Rows \in Nat \ {0} /\ Cols \in Nat \ {0} /\ Row \in Nat \ {0} /\ Row = Cols + 2
  /\ kUWFrameLen \in Nat \ {0} /\ kUWFrameLen = Row * Rows
  /\ Rows * Cols \in Nat \ {0} /\ Step \in Nat
<1>1. /\ Rows \in Nat \ {0} /\ Cols \in Nat \ {0} /\ Row \in Nat \ {0} /\ Row = Cols + 2
      /\ Step \in Nat
  BY FrameAssumption DEF Row
<1>2. ASSUME NEW a \in Nat \ {0}, NEW b \in Nat \ {0}
      PROVE  a * b \in Nat \ {0} /\ a * b = b * a
  BY Z3
<1> QED BY <1>1, <1>2 DEF kUWFrameLen

(* Where symbol x of row j is.                                              *)
Pos(j, x) == Row * j + x

LEMMA PosFacts ==
  ASSUME NEW j \in 0 .. Rows - 1, NEW x \in 0 .. Row - 1
  PROVE  /\ Pos(j, x) \in 0 .. kUWFrameLen - 1
         /\ Pos(j, x) \div Row = j /\ Pos(j, x) % Row = x
<1>1. Pos(j, x) \in 0 .. Row * Rows - 1
  BY FrameFacts, BelowRow DEF Pos
<1>2. j \in Nat /\ Row \in Nat \ {0}
  BY FrameFacts
<1>3. Pos(j, x) \div Row = j /\ Pos(j, x) % Row = x
  BY <1>2, Quotient DEF Pos
<1> QED BY <1>1, <1>3, FrameFacts

LEMMA PosOf ==
  ASSUME NEW n \in 0 .. kUWFrameLen - 1
  PROVE  /\ n \div Row \in 0 .. Rows - 1 /\ n % Row \in 0 .. Row - 1
         /\ n = Pos(n \div Row, n % Row)
<1>1. Row \in Nat \ {0} /\ Rows \in Nat \ {0} /\ n \in 0 .. Row * Rows - 1
  BY FrameFacts
<1>2. /\ n \div Row \in 0 .. Rows - 1 /\ n % Row \in 0 .. Row - 1
      /\ n = Row * (n \div Row) + (n % Row)
  BY <1>1, RowBelow
<1> QED BY <1>2 DEF Pos

-----------------------------------------------------------------------------
(* Frames: the permutation of the rows and the interleaving.                *)

SentAs(i) == (i * Step) % Rows

LEMMA SentRow ==
  ASSUME NEW i \in 0 .. Rows - 1
  PROVE  SentAs(i) \in 0 .. Rows - 1 /\ Place(SentAs(i)) = i
<1>1. i * Step \in Nat /\ Rows \in Nat \ {0}
  BY FrameFacts
<1>2. SentAs(i) \in 0 .. Rows - 1
  BY <1>1, Division DEF SentAs
<1>3. \A k \in 0 .. Rows - 1 : SentAs(k) = SentAs(i) => k = i
  BY FrameAssumption DEF SentAs
<1>4. Place(SentAs(i)) = i
  <2> DEFINE j == SentAs(i)
  <2>1. \E k \in 0 .. Rows - 1 : SentAs(k) = j
    OBVIOUS
  <2>2. Place(j) = CHOOSE k \in 0 .. Rows - 1 : SentAs(k) = j
    BY DEF Place, SentAs
  <2>3. Place(j) \in 0 .. Rows - 1 /\ SentAs(Place(j)) = j
    BY <2>1, <2>2, Zenon
  <2> QED BY <1>3, <2>3
<1> QED BY <1>2, <1>4

LEMMA EveryRowSent ==
  ASSUME NEW j \in 0 .. Rows - 1
  PROVE  \E i \in 0 .. Rows - 1 : SentAs(i) = j
<1> DEFINE S == 0 .. Rows - 1
           f == [i \in S |-> SentAs(i)]
<1>1. IsFiniteSet(S)
  BY FrameFacts, FS_Interval
<1>2. f \in [S -> S]
  BY SentRow
<1>3. \A i, k \in S : f[i] = f[k] => i = k
  BY SentRow, FrameAssumption DEF SentAs
<1>4. f \in Injection(S, S)
  BY <1>2, <1>3 DEF Injection, IsInjective
<1> HIDE DEF f
<1>5. f \in Surjection(S, S)
  BY <1>1, <1>4, FS_Injection
<1>6. \E i \in S : f[i] = j
  BY <1>5 DEF Surjection
<1> QED BY <1>6 DEF f

LEMMA SymbolHead ==
  ASSUME NEW m \in Messages, NEW j \in 0 .. Rows - 1, NEW x \in {0, 1}
  PROVE  Symbol(m, Pos(j, x)) = nrmPol[j + 1]
<1>1. x \in 0 .. Row - 1 /\ x < 2
  BY FrameFacts
<1>2. Pos(j, x) \div Row = j /\ Pos(j, x) % Row = x
  BY <1>1, PosFacts
<1> QED BY <1>1, <1>2 DEF Symbol

LEMMA SymbolBody ==
  ASSUME NEW m \in Messages, NEW i \in 0 .. Rows - 1, NEW c \in 0 .. Cols - 1
  PROVE  Symbol(m, Pos(SentAs(i), c + 2)) = m[Rows * c + i + 1]
<1>1. c + 2 \in 0 .. Row - 1 /\ ~(c + 2 < 2) /\ (c + 2) - 2 = c /\ c \in Nat /\ Rows \in Nat
  BY FrameFacts
<1>2. SentAs(i) \in 0 .. Rows - 1 /\ Place(SentAs(i)) = i
  BY SentRow
<1>3. Pos(SentAs(i), c + 2) \div Row = SentAs(i) /\ Pos(SentAs(i), c + 2) % Row = c + 2
  BY <1>1, <1>2, PosFacts
<1>4. Symbol(m, Pos(SentAs(i), c + 2)) = m[c * Rows + i + 1]
  BY <1>1, <1>2, <1>3 DEF Symbol
<1>5. c * Rows = Rows * c
  BY <1>1
<1> QED BY <1>4, <1>5

LEMMA SymbolBit ==
  ASSUME NEW m \in Messages, NEW n \in 0 .. kUWFrameLen - 1
  PROVE  Symbol(m, n) \in {0, 1}
<1> DEFINE j == n \div Row
           x == n % Row
<1>1. j \in 0 .. Rows - 1 /\ x \in 0 .. Row - 1 /\ n = Pos(j, x)
  BY PosOf
<1> HIDE DEF j, x
<1>2. CASE x < 2
  <2>1. x \in {0, 1}
    BY <1>1, <1>2, FrameFacts
  <2>2. Symbol(m, n) = nrmPol[j + 1]
    BY <1>1, <2>1, SymbolHead
  <2>3. j + 1 \in 1 .. Rows
    BY <1>1, FrameFacts
  <2> QED BY <2>2, <2>3, FrameAssumption
<1>3. CASE ~(x < 2)
  <2>1. x - 2 \in 0 .. Cols - 1 /\ (x - 2) + 2 = x
    BY <1>1, <1>3, FrameFacts
  <2>2. PICK i \in 0 .. Rows - 1 : SentAs(i) = j
    BY <1>1, EveryRowSent
  <2>3. Symbol(m, n) = m[Rows * (x - 2) + i + 1]
    <3>1. Symbol(m, Pos(SentAs(i), (x - 2) + 2)) = m[Rows * (x - 2) + i + 1]
      BY <2>1, SymbolBody
    <3> QED BY <1>1, <2>1, <2>2, <3>1
  <2>4. Rows * (x - 2) + i \in 0 .. Rows * Cols - 1
    BY <2>1, FrameFacts, BelowRow
  <2>5. Rows * (x - 2) + i + 1 \in 1 .. Rows * Cols
    BY <2>4, FrameFacts
  <2> QED BY <2>3, <2>5, FrameAssumption
<1> QED BY <1>2, <1>3

-----------------------------------------------------------------------------
(* Frames: what the receiver makes of a register that holds a whole frame.  *)

BitSeqs == [1 .. kUWFrameLen -> {0, 1}]
Positions == 0 .. kUWFrameLen - 1
Heads == (0 .. Rows - 1) \X {0, 1}

(* Symbol n of the frame f as the channel delivers it, upright if t is 0.   *)
Bit(W, n) == IF n \in W THEN 1 ELSE 0
Delivered(m, t, W, n) == (Symbol(m, n) + t + Bit(W, n)) % 2

(* The s newest symbols of a register are the first s of a frame.           *)
Holds(r, m, t, W, s) == \A n \in 0 .. s - 1 : r[s - n] = Delivered(m, t, W, n)

UWErrors(W) == {n \in W : IsUW(n)}

LEMMA HeadFacts ==
  ASSUME NEW k \in Heads
  PROVE  /\ k[1] \in 0 .. Rows - 1 /\ k[2] \in {0, 1}
         /\ Pos(k[1], k[2]) \in Positions /\ IsUW(Pos(k[1], k[2]))
         /\ kUWFrameLen - k[1] * Row - k[2] = kUWFrameLen - Pos(k[1], k[2])
         /\ kUWFrameLen - Pos(k[1], k[2]) \in 1 .. kUWFrameLen
<1>1. k[1] \in 0 .. Rows - 1 /\ k[2] \in {0, 1}
  BY DEF Heads
<1>2. k[2] \in 0 .. Row - 1 /\ k[2] < 2
  BY <1>1, FrameFacts
<1>3. Pos(k[1], k[2]) \in Positions /\ Pos(k[1], k[2]) % Row = k[2]
  BY <1>1, <1>2, PosFacts DEF Positions
<1>4. k[1] * Row = Row * k[1] /\ Row * k[1] \in Nat
  <2>1. k[1] \in Nat /\ Row \in Nat
    BY <1>1, FrameFacts
  <2> QED BY <2>1
<1>5. kUWFrameLen - k[1] * Row - k[2] = kUWFrameLen - Pos(k[1], k[2])
  BY <1>1, <1>4, FrameFacts DEF Pos
<1>6. kUWFrameLen - Pos(k[1], k[2]) \in 1 .. kUWFrameLen
  BY <1>3, FrameFacts DEF Positions
<1> QED BY <1>1, <1>2, <1>3, <1>5, <1>6 DEF IsUW

LEMMA HeadsFinite == IsFiniteSet(Heads) /\ Cardinality(Heads) = 2 * Rows
<1>1. IsFiniteSet(0 .. Rows - 1) /\ Cardinality(0 .. Rows - 1) = Rows
  <2>1. 0 \in Int /\ Rows - 1 \in Int /\ Rows \in Nat \ {0}
    BY FrameFacts
  <2> QED BY <2>1, FS_Interval
<1>2. IsFiniteSet({0, 1}) /\ Cardinality({0, 1}) = 2
  <2>1. {0, 1} = {0} \cup {1} /\ 1 \notin {0}
    OBVIOUS
  <2>2. IsFiniteSet({0}) /\ Cardinality({0}) = 1
    BY FS_Singleton
  <2>3. IsFiniteSet({0} \cup {1}) /\ Cardinality({0} \cup {1}) = 1 + 1
    BY <2>1, <2>2, FS_AddElement
  <2> QED BY <2>1, <2>3
<1>3. IsFiniteSet(Heads) /\ Cardinality(Heads) = Rows * 2
  <2> DEFINE S == 0 .. Rows - 1
             T == {0, 1}
  <2>1. IsFiniteSet(S) /\ IsFiniteSet(T) /\ Cardinality(S) = Rows /\ Cardinality(T) = 2
    BY <1>1, <1>2
  <2>2. Heads = S \X T
    BY DEF Heads
  <2> HIDE DEF S, T
  <2>3. IsFiniteSet(S \X T) /\ Cardinality(S \X T) = Cardinality(S) * Cardinality(T)
    BY <2>1, FS_Product
  <2> QED BY <2>1, <2>2, <2>3, Zenon
<1> QED BY <1>3, FrameFacts

Misfits(r, w) == {k \in Heads : r[kUWFrameLen - k[1] * Row - k[2]] # w[k[1] + 1]}

LEMMA MisfitsFinite ==
  ASSUME NEW r, NEW w
  PROVE  IsFiniteSet(Misfits(r, w)) /\ Wrong(r, w) = Cardinality(Misfits(r, w))
         /\ Wrong(r, w) \in Nat
<1>1. IsFiniteSet(Misfits(r, w))
  BY HeadsFinite, FS_Subset DEF Misfits
<1>2. Wrong(r, w) = Cardinality(Misfits(r, w))
  BY DEF Wrong, Misfits, Heads
<1> QED BY <1>1, <1>2, FS_CardinalityType

(* A register that fits the unique word misfits the reversed one.           *)
LEMMA OppositeCount ==
  ASSUME NEW r \in BitSeqs
  PROVE  Wrong(r, nrmPol) + Wrong(r, revPol) = 2 * Rows
<1> DEFINE A == Misfits(r, nrmPol)
           B == Misfits(r, revPol)
<1>1. ASSUME NEW k \in Heads
      PROVE  /\ r[kUWFrameLen - k[1] * Row - k[2]] \in {0, 1}
             /\ nrmPol[k[1] + 1] \in {0, 1}
             /\ revPol[k[1] + 1] = 1 - nrmPol[k[1] + 1]
  <2>1. kUWFrameLen - k[1] * Row - k[2] \in 1 .. kUWFrameLen /\ k[1] \in 0 .. Rows - 1
    BY HeadFacts
  <2>2. k[1] + 1 \in 1 .. Rows
    BY <2>1, FrameFacts
  <2> QED BY <2>1, <2>2, FrameAssumption DEF BitSeqs, revPol, Flip
<1>2. ASSUME NEW k \in Heads
      PROVE  k \in A <=> k \notin B
  BY <1>1 DEF Misfits
<1>3. A \cup B = Heads /\ A \cap B = {}
  <2>1. A \subseteq Heads /\ B \subseteq Heads
    BY DEF Misfits
  <2> HIDE DEF A, B
  <2> QED BY <1>2, <2>1
<1>4. /\ IsFiniteSet(A) /\ IsFiniteSet(B)
      /\ Cardinality(A) = Wrong(r, nrmPol) /\ Cardinality(B) = Wrong(r, revPol)
      /\ Wrong(r, nrmPol) \in Nat /\ Wrong(r, revPol) \in Nat
  BY MisfitsFinite
<1> HIDE DEF A, B
<1>5. Cardinality(A \cup B) = Cardinality(A) + Cardinality(B) - Cardinality(A \cap B)
  BY <1>4, FS_Union
<1>6. Cardinality({}) = 0
  BY FS_EmptySet
<1>7. 2 * Rows = Wrong(r, nrmPol) + Wrong(r, revPol) - 0
  BY <1>3, <1>4, <1>5, <1>6, HeadsFinite, Zenon
<1> QED BY <1>4, <1>7

(* The unique words counted at the heads of the rows are those in W.        *)
LEMMA HeadCount ==
  ASSUME NEW W \in SUBSET Positions
  PROVE  Cardinality({k \in Heads : Pos(k[1], k[2]) \in W}) = Cardinality(UWErrors(W))
<1> DEFINE S == {k \in Heads : Pos(k[1], k[2]) \in W}
           T == UWErrors(W)
           f == [k \in S |-> Pos(k[1], k[2])]
<1>1. IsFiniteSet(S)
  BY HeadsFinite, FS_Subset
<1>2. f \in [S -> T]
  BY HeadFacts DEF UWErrors
<1>3. ASSUME NEW k \in S, NEW l \in S, f[k] = f[l] PROVE k = l
  <2>1. k \in Heads /\ l \in Heads /\ Pos(k[1], k[2]) = Pos(l[1], l[2])
    BY <1>3
  <2>2. /\ k[1] \in 0 .. Rows - 1 /\ k[2] \in {0, 1} /\ l[1] \in 0 .. Rows - 1 /\ l[2] \in {0, 1}
    BY <2>1, HeadFacts
  <2>3. k[2] \in 0 .. Row - 1 /\ l[2] \in 0 .. Row - 1
    BY <2>2, FrameFacts
  <2>4. k[1] = Pos(k[1], k[2]) \div Row /\ k[2] = Pos(k[1], k[2]) % Row
    BY <2>2, <2>3, PosFacts
  <2>5. l[1] = Pos(l[1], l[2]) \div Row /\ l[2] = Pos(l[1], l[2]) % Row
    BY <2>2, <2>3, PosFacts
  <2>6. k[1] = l[1] /\ k[2] = l[2]
    BY <2>1, <2>4, <2>5
  <2> QED BY <2>1, <2>6 DEF Heads
<1>4. ASSUME NEW n \in T PROVE \E k \in S : f[k] = n
  <2>1. n \in W /\ n \in Positions /\ n % Row < 2
    BY DEF UWErrors, IsUW
  <2> DEFINE k == <<n \div Row, n % Row>>
  <2>2. /\ n \div Row \in 0 .. Rows - 1 /\ n % Row \in 0 .. Row - 1
        /\ n = Pos(n \div Row, n % Row)
    BY <2>1, PosOf DEF Positions
  <2>3. n % Row \in {0, 1}
    BY <2>1, <2>2, FrameFacts
  <2>4. k \in Heads
    BY <2>2, <2>3 DEF Heads
  <2>5. Pos(k[1], k[2]) = n
    BY <2>2
  <2>6. k \in S
    BY <2>1, <2>4, <2>5
  <2>7. f[k] = n
    BY <2>5, <2>6
  <2> QED BY <2>6, <2>7
<1>5. f \in Bijection(S, T)
  <2> HIDE DEF S, T, f
  <2>1. IsInjective(f)
    BY <1>2, <1>3 DEF IsInjective
  <2> QED BY <1>2, <1>4, <2>1 DEF Bijection, Injection, Surjection
<1> HIDE DEF S, T, f
<1>6. Cardinality(T) = Cardinality(S)
  BY <1>1, <1>5, FS_Bijection DEF ExistsBijection
<1> QED BY <1>6 DEF S, T

LEMMA DeliveredBit ==
  ASSUME NEW m \in Messages, NEW t \in {0, 1}, NEW W, NEW n \in Positions
  PROVE  /\ Delivered(m, t, W, n) \in {0, 1}
         /\ Delivered(m, 0, W, n) = Symbol(m, n) <=> n \notin W
         /\ Delivered(m, 1, W, n) = 1 - Delivered(m, 0, W, n)
<1>1. Symbol(m, n) \in {0, 1}
  BY SymbolBit DEF Positions
<1>2. Bit(W, n) \in {0, 1} /\ (Bit(W, n) = 1 <=> n \in W)
  BY DEF Bit
<1> QED BY <1>1, <1>2 DEF Delivered

LEMMA HeldMisfits ==
  ASSUME NEW r \in BitSeqs, NEW m \in Messages, NEW t \in {0, 1}, NEW W \in SUBSET Positions,
         Holds(r, m, t, W, kUWFrameLen)
  PROVE  Wrong(r, IF t = 0 THEN nrmPol ELSE revPol) = Cardinality(UWErrors(W))
<1> DEFINE w == IF t = 0 THEN nrmPol ELSE revPol
<1>1. ASSUME NEW k \in Heads
      PROVE  r[kUWFrameLen - k[1] * Row - k[2]] # w[k[1] + 1] <=> Pos(k[1], k[2]) \in W
  <2> DEFINE n == Pos(k[1], k[2])
  <2>1. /\ k[1] \in 0 .. Rows - 1 /\ k[2] \in {0, 1} /\ n \in Positions
        /\ kUWFrameLen - k[1] * Row - k[2] = kUWFrameLen - n
    BY HeadFacts
  <2>2. r[kUWFrameLen - n] = Delivered(m, t, W, n)
    BY <2>1 DEF Holds, Positions
  <2>3. Symbol(m, n) = nrmPol[k[1] + 1]
    BY <2>1, SymbolHead
  <2>4. k[1] + 1 \in 1 .. Rows
    BY <2>1, FrameFacts
  <2>5. nrmPol[k[1] + 1] \in {0, 1} /\ revPol[k[1] + 1] = 1 - nrmPol[k[1] + 1]
    BY <2>4, FrameAssumption DEF revPol, Flip
  <2> HIDE DEF n
  <2>6. /\ Delivered(m, 0, W, n) \in {0, 1}
        /\ Delivered(m, 0, W, n) = Symbol(m, n) <=> n \notin W
        /\ Delivered(m, 1, W, n) = 1 - Delivered(m, 0, W, n)
    BY <2>1, DeliveredBit
  <2>7. CASE t = 0
    BY <2>1, <2>2, <2>3, <2>6, <2>7 DEF n
  <2>8. CASE t = 1
    <3>1. w[k[1] + 1] = 1 - Symbol(m, n)
      BY <2>3, <2>5, <2>8
    <3> HIDE DEF w
    <3>2. r[kUWFrameLen - k[1] * Row - k[2]] # w[k[1] + 1] <=> n \in W
      BY <2>1, <2>2, <2>3, <2>5, <2>6, <2>8, <3>1
    <3> QED BY <3>2 DEF n
  <2> QED BY <2>7, <2>8
<1>2. Misfits(r, w) = {k \in Heads : Pos(k[1], k[2]) \in W}
  <2> HIDE DEF w
  <2> QED BY <1>1 DEF Misfits
<1>3. Wrong(r, w) = Cardinality(Misfits(r, w))
  BY MisfitsFinite
<1> HIDE DEF w
<1>4. Wrong(r, w) = Cardinality(UWErrors(W))
  BY <1>2, <1>3, HeadCount
<1> QED BY <1>4 DEF w

(* A frame with few enough wrong symbols in its unique word is detected and *)
(* put upright.                                                             *)
LEMMA PutUpright ==
  ASSUME NEW r \in BitSeqs, NEW m \in Messages, NEW t \in {0, 1}, NEW W \in SUBSET Positions,
         Holds(r, m, t, W, kUWFrameLen), Cardinality(UWErrors(W)) <= tolerance
  PROVE  /\ Detects(r) /\ Upright(r) \in BitSeqs
         /\ Holds(Upright(r), m, 0, W, kUWFrameLen)
<1>1. Wrong(r, nrmPol) + Wrong(r, revPol) = 2 * Rows
  BY OppositeCount
<1>2. Wrong(r, nrmPol) \in Nat /\ Wrong(r, revPol) \in Nat
  BY MisfitsFinite
<1>3. Wrong(r, IF t = 0 THEN nrmPol ELSE revPol) = Cardinality(UWErrors(W))
  BY HeldMisfits
<1>4. tolerance \in Nat /\ tolerance < Rows /\ Rows \in Nat
  BY FrameAssumption
<1>5. CASE t = 0
  <2>1. Wrong(r, nrmPol) <= tolerance /\ ~(Wrong(r, revPol) <= tolerance)
    BY <1>1, <1>2, <1>3, <1>4, <1>5
  <2>2. Upright(r) = r
    BY <2>1 DEF Upright
  <2>3. Detects(r)
    BY <2>1 DEF Detects
  <2> QED BY <1>5, <2>2, <2>3
<1>6. CASE t = 1
  <2>1. Wrong(r, revPol) <= tolerance
    BY <1>3, <1>6
  <2>2. Upright(r) = [i \in 1 .. kUWFrameLen |-> 1 - r[i]]
    BY <2>1 DEF Upright, Flip, BitSeqs
  <2>3. Detects(r)
    BY <2>1 DEF Detects
  <2>4. \A i \in 1 .. kUWFrameLen : r[i] \in {0, 1}
    BY DEF BitSeqs
  <2>5. Upright(r) \in BitSeqs
    BY <2>2, <2>4 DEF BitSeqs
  <2>6. ASSUME NEW n \in Positions
        PROVE  Upright(r)[kUWFrameLen - n] = Delivered(m, 0, W, n)
    <3>1. kUWFrameLen - n \in 1 .. kUWFrameLen
      BY FrameFacts DEF Positions
    <3>2. r[kUWFrameLen - n] = Delivered(m, 1, W, n)
      BY <1>6 DEF Holds, Positions
    <3>3. Delivered(m, 1, W, n) = 1 - Delivered(m, 0, W, n) /\ Delivered(m, 0, W, n) \in {0, 1}
      BY DeliveredBit
    <3>4. Upright(r)[kUWFrameLen - n] = 1 - r[kUWFrameLen - n]
      BY <2>2, <3>1
    <3> QED BY <3>2, <3>3, <3>4
  <2> QED BY <2>3, <2>5, <2>6 DEF Holds, Positions
<1> QED BY <1>5, <1>6

-----------------------------------------------------------------------------
(* Frames: bits out of an upright register.                                 *)

(* The symbol bit k of a message is sent as.                                *)
BitIndex == 1 .. Rows * Cols
At(k) == Pos(SentAs((k - 1) % Rows), (k - 1) \div Rows + 2)

LEMMA IndexFacts ==
  ASSUME NEW k \in BitIndex
  PROVE  /\ (k - 1) % Rows \in 0 .. Rows - 1 /\ (k - 1) \div Rows \in 0 .. Cols - 1
         /\ k = Rows * ((k - 1) \div Rows) + ((k - 1) % Rows) + 1
         /\ At(k) \in Positions /\ ~IsUW(At(k))
         /\ At(k) \div Row = SentAs((k - 1) % Rows) /\ At(k) % Row = (k - 1) \div Rows + 2
<1> DEFINE c == (k - 1) \div Rows
           i == (k - 1) % Rows
<1>1. k - 1 \in 0 .. Rows * Cols - 1
  BY FrameFacts DEF BitIndex
<1>2. c \in 0 .. Cols - 1 /\ i \in 0 .. Rows - 1 /\ k - 1 = Rows * c + i
  BY <1>1, FrameFacts, RowBelow
<1>3. At(k) = Pos(SentAs(i), c + 2)
  BY DEF At
<1> HIDE DEF c, i
<1>4. SentAs(i) \in 0 .. Rows - 1 /\ c + 2 \in 0 .. Row - 1 /\ ~(c + 2 < 2)
  BY <1>2, SentRow, FrameFacts
<1>5. At(k) \in Positions /\ At(k) \div Row = SentAs(i) /\ At(k) % Row = c + 2
  BY <1>3, <1>4, PosFacts DEF Positions
<1>6. k = Rows * c + i + 1
  <2>1. k \in Int /\ Rows * c \in Int
    BY <1>2, FrameFacts DEF BitIndex
  <2> QED BY <1>2, <2>1
<1>7. ~IsUW(At(k))
  BY <1>4, <1>5 DEF IsUW
<1> QED BY <1>2, <1>5, <1>6, <1>7, Zenon DEF c, i

LEMMA BitAt ==
  ASSUME NEW m \in Messages, NEW k \in BitIndex
  PROVE  Symbol(m, At(k)) = m[k]
<1> DEFINE c == (k - 1) \div Rows
           i == (k - 1) % Rows
<1>1. i \in 0 .. Rows - 1 /\ c \in 0 .. Cols - 1 /\ k = Rows * c + i + 1
  BY IndexFacts
<1>2. At(k) = Pos(SentAs(i), c + 2)
  BY DEF At
<1> HIDE DEF c, i
<1>3. Symbol(m, Pos(SentAs(i), c + 2)) = m[Rows * c + i + 1]
  BY <1>1, SymbolBody
<1> QED BY <1>1, <1>2, <1>3, Zenon

LEMMA BitTaken ==
  ASSUME NEW r \in BitSeqs, NEW k \in BitIndex
  PROVE  deinterleave(depermute(r))[k] = r[kUWFrameLen - At(k)]
<1> DEFINE c == (k - 1) \div Rows
           i == (k - 1) % Rows
           rows == depermute(r)
<1>1. i \in 0 .. Rows - 1 /\ c \in 0 .. Cols - 1
  BY IndexFacts
<1>2. deinterleave(rows)[k] = rows[i][c + 3]
  BY DEF deinterleave, BitIndex
<1>3. c + 3 \in 1 .. Row
  BY <1>1, FrameFacts
<1>4. rows[i][c + 3] = r[kUWFrameLen + 1 - (SentAs(i) * Row + (c + 3))]
  BY <1>1, <1>3 DEF depermute, SentAs
<1>5. kUWFrameLen + 1 - (SentAs(i) * Row + (c + 3)) = kUWFrameLen - At(k)
  <2>1. SentAs(i) \in 0 .. Rows - 1
    BY <1>1, SentRow
  <2>2. At(k) = Row * SentAs(i) + (c + 2)
    BY DEF At, Pos
  <2> HIDE DEF c, i
  <2>3. SentAs(i) * Row = Row * SentAs(i) /\ Row * SentAs(i) \in Int
    BY <2>1, FrameFacts
  <2> QED BY <1>1, <2>2, <2>3, FrameFacts
<1> QED BY <1>2, <1>4, <1>5

(* Bits and symbols behind the unique word are the same.                    *)
LEMMA BitsCount ==
  ASSUME NEW W \in SUBSET Positions
  PROVE  Cardinality({k \in BitIndex : At(k) \in W}) = Cardinality({n \in W : ~IsUW(n)})
<1> DEFINE S == {k \in BitIndex : At(k) \in W}
           T == {n \in W : ~IsUW(n)}
           f == [k \in S |-> At(k)]
<1>1. IsFiniteSet(S)
  <2>1. IsFiniteSet(BitIndex)
    BY FrameFacts, FS_Interval DEF BitIndex
  <2> QED BY <2>1, FS_Subset
<1>2. f \in [S -> T]
  BY IndexFacts
<1>3. ASSUME NEW k \in S, NEW l \in S, f[k] = f[l] PROVE k = l
  <2>1. k \in BitIndex /\ l \in BitIndex /\ At(k) = At(l)
    BY <1>3
  <2>2. /\ (k - 1) % Rows \in 0 .. Rows - 1 /\ (k - 1) \div Rows \in 0 .. Cols - 1
        /\ k = Rows * ((k - 1) \div Rows) + ((k - 1) % Rows) + 1
        /\ At(k) \div Row = SentAs((k - 1) % Rows) /\ At(k) % Row = (k - 1) \div Rows + 2
    BY <2>1, IndexFacts
  <2>3. /\ (l - 1) % Rows \in 0 .. Rows - 1 /\ (l - 1) \div Rows \in 0 .. Cols - 1
        /\ l = Rows * ((l - 1) \div Rows) + ((l - 1) % Rows) + 1
        /\ At(l) \div Row = SentAs((l - 1) % Rows) /\ At(l) % Row = (l - 1) \div Rows + 2
    BY <2>1, IndexFacts
  <2>4. SentAs((k - 1) % Rows) = SentAs((l - 1) % Rows)
    BY <2>1, <2>2, <2>3
  <2>5. (k - 1) % Rows = (l - 1) % Rows
    BY <2>2, <2>3, <2>4, SentRow
  <2>6. (k - 1) \div Rows = (l - 1) \div Rows
    <3>1. (k - 1) \div Rows + 2 = (l - 1) \div Rows + 2
      BY <2>1, <2>2, <2>3
    <3> QED BY <2>2, <2>3, <3>1
  <2> QED BY <2>2, <2>3, <2>5, <2>6, Zenon
<1>4. ASSUME NEW n \in T PROVE \E k \in S : f[k] = n
  <2> DEFINE j == n \div Row
             x == n % Row
  <2>1. n \in W /\ n \in Positions /\ ~(x < 2)
    BY DEF IsUW
  <2>2. j \in 0 .. Rows - 1 /\ x \in 0 .. Row - 1 /\ n = Pos(j, x)
    BY <2>1, PosOf DEF Positions
  <2> HIDE DEF j, x
  <2>3. PICK i \in 0 .. Rows - 1 : SentAs(i) = j
    BY <2>2, EveryRowSent
  <2> DEFINE c == x - 2
             k == Rows * c + i + 1
  <2>4. c \in 0 .. Cols - 1 /\ c + 2 = x
    BY <2>1, <2>2, FrameFacts
  <2>5. Rows * c + i \in 0 .. Rows * Cols - 1
    <3> HIDE DEF c
    <3> QED BY <2>4, FrameFacts, BelowRow
  <2>6. k \in BitIndex /\ k - 1 = Rows * c + i
    <3> HIDE DEF c
    <3> QED BY <2>5, FrameFacts DEF BitIndex
  <2>7. (Rows * c + i) \div Rows = c /\ (Rows * c + i) % Rows = i
    <3>1. c \in Nat /\ Rows \in Nat \ {0}
      BY <2>4, FrameFacts
    <3> HIDE DEF c
    <3> QED BY <3>1, Quotient
  <2>8. At(k) = n
    <3>1. (k - 1) \div Rows = c /\ (k - 1) % Rows = i
      BY <2>6, <2>7, Zenon
    <3> HIDE DEF c, k
    <3> QED BY <2>2, <2>3, <2>4, <3>1, Zenon DEF At
  <2> HIDE DEF k
  <2>9. k \in S
    BY <2>1, <2>6, <2>8
  <2> QED BY <2>8, <2>9
<1>5. f \in Bijection(S, T)
  <2> HIDE DEF S, T, f
  <2>1. IsInjective(f)
    BY <1>2, <1>3 DEF IsInjective
  <2> QED BY <1>2, <1>4, <2>1 DEF Bijection, Injection, Surjection
<1> HIDE DEF S, T, f
<1>6. Cardinality(T) = Cardinality(S)
  BY <1>1, <1>5, FS_Bijection DEF ExistsBijection
<1> QED BY <1>6 DEF S, T

(* What a frame behind its last symbol is returned as.                      *)
LEMMA FrameReturned ==
  ASSUME NEW r \in BitSeqs, NEW m \in Messages, NEW t \in {0, 1}, NEW W \in SUBSET Positions,
         Holds(r, m, t, W, kUWFrameLen), Cardinality(UWErrors(W)) <= tolerance
  PROVE  LET bits == deinterleave(depermute(Upright(r))) IN
         /\ Detects(r) /\ bits # <<>>
         /\ Differ(bits, m) = Cardinality({n \in W : ~IsUW(n)})
<1> DEFINE bits == deinterleave(depermute(Upright(r)))
<1>1. Detects(r) /\ Upright(r) \in BitSeqs /\ Holds(Upright(r), m, 0, W, kUWFrameLen)
  BY PutUpright
<1>2. DOMAIN bits = BitIndex
  BY DEF deinterleave, BitIndex
<1>3. ASSUME NEW k \in BitIndex
      PROVE  bits[k] # m[k] <=> At(k) \in W
  <2>1. bits[k] = Upright(r)[kUWFrameLen - At(k)] /\ At(k) \in Positions
    BY <1>1, BitTaken, IndexFacts
  <2>2. bits[k] = Delivered(m, 0, W, At(k))
    BY <1>1, <2>1 DEF Holds, Positions
  <2>3. Symbol(m, At(k)) = m[k]
    BY BitAt
  <2>4. Delivered(m, 0, W, At(k)) = Symbol(m, At(k)) <=> At(k) \notin W
    BY <2>1, DeliveredBit
  <2> HIDE DEF bits
  <2> QED BY <2>2, <2>3, <2>4
<1> HIDE DEF bits
<1>4. {k \in DOMAIN bits : bits[k] # m[k]} = {k \in BitIndex : At(k) \in W}
  BY <1>2, <1>3
<1>5. Differ(bits, m) = Cardinality({n \in W : ~IsUW(n)})
  BY <1>4, BitsCount DEF Differ
<1>6. bits # <<>>
  <2> SUFFICES ASSUME bits = <<>> PROVE FALSE
    OBVIOUS
  <2>1. DOMAIN bits = {}
    OBVIOUS
  <2>2. 1 \in BitIndex
    BY FrameFacts DEF BitIndex
  <2> QED BY <1>2, <2>1, <2>2
<1> QED BY <1>1, <1>5, <1>6 DEF bits

-----------------------------------------------------------------------------
(* Frames: the register as the symbols come in.                             *)

LEMMA Shifted ==
  ASSUME NEW r \in BitSeqs, NEW b \in {0, 1}
  PROVE  LET q == SubSeq(<<b>> \o r, 1, kUWFrameLen) IN
         /\ q \in BitSeqs /\ q[1] = b
         /\ \A i \in 2 .. kUWFrameLen : q[i] = r[i - 1]
<1> DEFINE s == <<b>> \o r
           q == SubSeq(s, 1, kUWFrameLen)
<1>1. kUWFrameLen \in Nat \ {0}
  BY FrameFacts
<1>2. r \in Seq({0, 1}) /\ Len(r) = kUWFrameLen
  BY <1>1 DEF BitSeqs
<1>3. /\ s \in Seq({0, 1}) /\ Len(s) = kUWFrameLen + 1
      /\ s[1] = b /\ \A i \in 2 .. kUWFrameLen + 1 : s[i] = r[i - 1]
  BY <1>1, <1>2
<1> HIDE DEF s
<1>4. /\ q \in Seq({0, 1}) /\ Len(q) = kUWFrameLen
      /\ \A i \in 1 .. kUWFrameLen : q[i] = s[i]
  BY <1>1, <1>3
<1> HIDE DEF q
<1>5. q \in [1 .. kUWFrameLen -> {0, 1}]
  BY <1>4
<1>6. q[1] = b /\ \A i \in 2 .. kUWFrameLen : q[i] = r[i - 1]
  BY <1>1, <1>3, <1>4
<1> QED BY <1>5, <1>6 DEF q, s, BitSeqs

(* The register after one more symbol of a frame.                           *)
LEMMA HoldsMore ==
  ASSUME NEW r \in BitSeqs, NEW q \in BitSeqs, NEW m, NEW t, NEW W,
         NEW s \in Positions, W \subseteq 0 .. s - 1, NEW bad \in {0, 1}, NEW V,
         V = IF bad = 1 THEN W \cup {s} ELSE W,
         q[1] = (Symbol(m, s) + t + bad) % 2,
         \A i \in 2 .. kUWFrameLen : q[i] = r[i - 1],
         Holds(r, m, t, W, s)
  PROVE  Holds(q, m, t, V, s + 1) /\ V \subseteq 0 .. s
<1>0. s \in Nat /\ s + 1 \in 1 .. kUWFrameLen
  BY FrameFacts DEF Positions
<1>1. V \subseteq 0 .. s
  BY <1>0
<1>2. \A n \in 0 .. s : n # s => Bit(V, n) = Bit(W, n)
  BY <1>0 DEF Bit
<1>3. Bit(V, s) = bad
  BY <1>0 DEF Bit
<1>4. ASSUME NEW n \in 0 .. (s + 1) - 1
      PROVE  q[(s + 1) - n] = Delivered(m, t, V, n)
  <2>1. CASE n = s
    <3>1. (s + 1) - n = 1
      BY <1>0, <2>1
    <3> QED BY <2>1, <3>1, <1>3 DEF Delivered
  <2>2. CASE n # s
    <3>1. /\ n \in 0 .. s - 1 /\ n \in 0 .. s
          /\ (s + 1) - n \in 2 .. kUWFrameLen /\ ((s + 1) - n) - 1 = s - n
      BY <1>0, <2>2, FrameFacts
    <3>2. q[(s + 1) - n] = r[s - n]
      BY <3>1
    <3>3. r[s - n] = Delivered(m, t, W, n)
      BY <3>1 DEF Holds
    <3>4. Delivered(m, t, W, n) = Delivered(m, t, V, n)
      BY <1>2, <2>2, <3>1 DEF Delivered
    <3> QED BY <3>2, <3>3, <3>4
  <2> QED BY <2>1, <2>2
<1> QED BY <1>1, <1>4 DEF Holds

(* The register holds what was sent of the frame on the air, and a whole    *)
(* frame's length has passed since the last return, unless that one was out *)
(* of place and less than a frame ago.                                      *)
FrameInv ==
  /\ reg \in BitSeqs
  /\ symbolCount \in Nat /\ since \in Nat
  /\ sending \in [msg : Messages, flip : {0, 1}, wrong : SUBSET Positions, sent : 0 .. kUWFrameLen]
  /\ sending.wrong \subseteq 0 .. sending.sent - 1
  /\ Holds(reg, sending.msg, sending.flip, sending.wrong, sending.sent)
  /\ sending.sent < kUWFrameLen => symbolCount >= since \/ symbolCount >= sending.sent
  /\ FrameRecovered

LEMMA BeganRight ==
  ASSUME NEW f \in [msg : Messages, flip : {0, 1}, wrong : {{}}, sent : {0}]
  PROVE  /\ f \in [msg : Messages, flip : {0, 1}, wrong : SUBSET Positions,
                   sent : 0 .. kUWFrameLen]
         /\ f.sent = 0 /\ f.wrong \subseteq 0 .. f.sent - 1
         /\ \A r : Holds(r, f.msg, f.flip, f.wrong, f.sent)
BY FrameFacts DEF Holds

LEMMA FrameInitInv == FrameInit => FrameInv
<1> SUFFICES ASSUME FrameInit PROVE FrameInv
  OBVIOUS
<1>1. reg \in BitSeqs
  BY DEF FrameInit, BitSeqs
<1>2. symbolCount \in Nat /\ since \in Nat /\ symbolCount >= 0
  BY FrameFacts DEF FrameInit
<1>3. sending \in [msg : Messages, flip : {0, 1}, wrong : {{}}, sent : {0}]
  BY DEF FrameInit
<1>4. FrameRecovered
  BY <1>3, BeganRight, FrameFacts DEF FrameRecovered
<1> QED BY <1>1, <1>2, <1>3, <1>4, BeganRight DEF FrameInv

LEMMA SymbolStep ==
  ASSUME FrameInv, NEW bad \in {0, 1}, symbol(bad)
  PROVE  FrameInv'
<1> DEFINE s == sending.sent
           b == (Symbol(sending.msg, s) + sending.flip + bad) % 2
           q == SubSeq(<<b>> \o reg, 1, kUWFrameLen)
           V == IF bad = 1 THEN sending.wrong \cup {s} ELSE sending.wrong
           found == symbolCount + 1 >= kUWFrameLen /\ Detects(q)
           bits == deinterleave(depermute(Upright(q)))
<1>1. /\ s \in Positions /\ s \in Nat /\ s < kUWFrameLen /\ kUWFrameLen \in Nat
      /\ sending.msg \in Messages /\ sending.flip \in {0, 1}
      /\ sending.wrong \in SUBSET Positions /\ sending.wrong \subseteq 0 .. s - 1
  BY FrameFacts DEF FrameInv, symbol, Positions
<1>2. /\ reg' = q
      /\ symbolCount' = IF found THEN 0 ELSE symbolCount + 1
      /\ out' = IF found THEN bits ELSE <<>>
  BY DEF symbol, push
<1>3. /\ sending' \in [msg : Messages, flip : {0, 1}, wrong : SUBSET Positions,
                       sent : 0 .. kUWFrameLen]
      /\ sending'.msg = sending.msg /\ sending'.flip = sending.flip
      /\ sending'.wrong = V /\ sending'.sent = s + 1
  <2>1. sending' = [sending EXCEPT !.sent = s + 1, !.wrong = V]
    BY DEF symbol
  <2>2. V \in SUBSET Positions /\ s + 1 \in 0 .. kUWFrameLen
    BY <1>1
  <2> HIDE DEF V, s
  <2> QED BY <2>1, <2>2 DEF FrameInv
<1>4. q \in BitSeqs /\ q[1] = b /\ \A i \in 2 .. kUWFrameLen : q[i] = reg[i - 1]
  <2>1. b \in {0, 1}
    <3>1. Symbol(sending.msg, s) \in {0, 1}
      BY <1>1, SymbolBit DEF Positions
    <3> HIDE DEF s
    <3> QED BY <1>1, <3>1
  <2> HIDE DEF b
  <2> QED BY <2>1, Shifted DEF FrameInv
<1>5. Holds(q, sending.msg, sending.flip, V, s + 1) /\ V \subseteq 0 .. s
  <2>1. Holds(reg, sending.msg, sending.flip, sending.wrong, s)
    BY DEF FrameInv
  <2>2. V = (IF bad = 1 THEN sending.wrong \cup {s} ELSE sending.wrong) /\ q[1] = (Symbol(sending.msg, s) + sending.flip + bad) % 2
    BY <1>4
  <2>3. reg \in BitSeqs
    BY DEF FrameInv
  <2> HIDE DEF q, V, s, b
  <2> QED BY <1>1, <1>4, <2>1, <2>2, <2>3, HoldsMore
<1>6. since' = IF out' # <<>> /\ s + 1 < kUWFrameLen THEN 0
               ELSE IF since < kUWFrameLen THEN since + 1 ELSE since
  BY <1>3 DEF symbol
<1> HIDE DEF q, V, s, b, bits, found
<1>7. symbolCount' \in Nat /\ since' \in Nat
  BY <1>2, <1>6 DEF FrameInv
<1>8. s + 1 < kUWFrameLen => symbolCount' >= since' \/ symbolCount' >= s + 1
  <2> SUFFICES ASSUME s + 1 < kUWFrameLen PROVE symbolCount' >= since' \/ symbolCount' >= s + 1
    OBVIOUS
  <2>1. symbolCount \in Nat /\ since \in Nat /\ (symbolCount >= since \/ symbolCount >= s)
    BY <1>1 DEF FrameInv, s
  <2>2. CASE found
    <3>1. bits # <<>>
      <4>1. DOMAIN bits = BitIndex /\ 1 \in BitIndex
        BY FrameFacts DEF bits, deinterleave, BitIndex
      <4> SUFFICES ASSUME bits = <<>> PROVE FALSE
        OBVIOUS
      <4>2. DOMAIN bits = {}
        OBVIOUS
      <4> QED BY <4>1, <4>2
    <3>2. since' = 0 /\ symbolCount' = 0
      BY <1>2, <1>6, <2>2, <3>1
    <3> QED BY <3>2
  <2>3. CASE ~found
    <3>1. symbolCount' = symbolCount + 1 /\ since' <= since + 1 /\ since' \in Nat
      BY <1>2, <1>6, <1>7, <2>1, <2>3
    <3> QED BY <1>1, <2>1, <3>1
  <2> QED BY <2>2, <2>3
<1>9. FrameRecovered'
  <2> SUFFICES ASSUME s + 1 = kUWFrameLen, since' >= kUWFrameLen,
                      Cardinality(UWErrors(V)) <= tolerance
               PROVE  out' # <<>> /\ Differ(out', sending.msg) = Cardinality({n \in V : ~IsUW(n)})
    <3>1. {n \in V : IsUW(n)} = UWErrors(V)
      BY DEF UWErrors
    <3>2. sending'.sent = s + 1 /\ sending'.msg = sending.msg /\ sending'.wrong = V
      BY <1>3
    <3> QED BY <3>1, <3>2, Zenon DEF FrameRecovered
  <2>1. symbolCount + 1 >= kUWFrameLen
    <3>1. symbolCount \in Nat /\ since \in Nat /\ (symbolCount >= since \/ symbolCount >= s)
      BY <1>1 DEF FrameInv, s
    <3>2. since' <= since + 1
      BY <1>6, <3>1
    <3> QED BY <1>1, <1>7, <3>1, <3>2
  <2>2. /\ Detects(q) /\ bits # <<>>
        /\ Differ(bits, sending.msg) = Cardinality({n \in V : ~IsUW(n)})
    <3>1. V \in SUBSET Positions /\ Holds(q, sending.msg, sending.flip, V, kUWFrameLen)
      <4>1. Holds(q, sending.msg, sending.flip, V, kUWFrameLen)
        BY <1>5, Zenon
      <4>2. V \in SUBSET Positions
        BY <1>3
      <4> QED BY <4>1, <4>2
    <3> DEFINE m == sending.msg
               t == sending.flip
    <3>2. m \in Messages /\ t \in {0, 1} /\ Holds(q, m, t, V, kUWFrameLen) /\ q \in BitSeqs
      BY <1>1, <1>4, <3>1
    <3> HIDE DEF m, t
    <3>3. /\ Detects(q) /\ bits # <<>>
          /\ Differ(bits, m) = Cardinality({n \in V : ~IsUW(n)})
      <4>1. ASSUME NEW r \in BitSeqs, NEW W \in SUBSET Positions, NEW u \in {0, 1},
                   Holds(r, m, u, W, kUWFrameLen), Cardinality(UWErrors(W)) <= tolerance
            PROVE  LET d == deinterleave(depermute(Upright(r))) IN
                   /\ Detects(r) /\ d # <<>>
                   /\ Differ(d, m) = Cardinality({n \in W : ~IsUW(n)})
        BY <3>2, <4>1, FrameReturned
      <4> QED BY <3>1, <3>2, <4>1, Zenon DEF bits
    <3> QED BY <3>3 DEF m
  <2>3. out' = bits
    BY <1>2, <2>1, <2>2 DEF found
  <2> QED BY <2>2, <2>3, Zenon
<1>10. sending'.wrong \subseteq 0 .. sending'.sent - 1
  <2>1. (s + 1) - 1 = s
    BY <1>1
  <2> QED BY <1>3, <1>5, <2>1, Zenon
<1>11. Holds(reg', sending'.msg, sending'.flip, sending'.wrong, sending'.sent)
  BY <1>2, <1>3, <1>5, Zenon
<1>12. sending'.sent < kUWFrameLen => symbolCount' >= since' \/ symbolCount' >= sending'.sent
  BY <1>3, <1>8, Zenon
<1>13. reg' \in BitSeqs
  BY <1>2, <1>4
<1> QED BY <1>3, <1>7, <1>9, <1>10, <1>11, <1>12, <1>13, Zenon
        DEF FrameInv, Positions, BitSeqs, kUWFrameLen, Row

LEMMA FrameStep == FrameInv /\ [FrameNext]_frameVars => FrameInv'
<1> SUFFICES ASSUME FrameInv, [FrameNext]_frameVars PROVE FrameInv'
  OBVIOUS
<1>1. CASE startFrame
  <2>1. /\ sending' \in [msg : Messages, flip : {0, 1}, wrong : {{}}, sent : {0}]
        /\ UNCHANGED <<reg, symbolCount, since>>
    BY <1>1 DEF startFrame
  <2>2. FrameRecovered'
    BY <2>1, BeganRight, FrameFacts DEF FrameRecovered, kUWFrameLen, Row
  <2>3. /\ sending' \in [msg : Messages, flip : {0, 1}, wrong : SUBSET Positions,
                         sent : 0 .. kUWFrameLen]
        /\ sending'.sent = 0 /\ sending'.wrong \subseteq 0 .. sending'.sent - 1
        /\ Holds(reg', sending'.msg, sending'.flip, sending'.wrong, sending'.sent)
    BY <2>1, BeganRight
  <2>4. symbolCount' >= sending'.sent
    BY <2>1, <2>3 DEF FrameInv
  <2>5. reg' \in BitSeqs /\ symbolCount' \in Nat /\ since' \in Nat
    BY <2>1 DEF FrameInv
  <2> QED BY <2>2, <2>3, <2>4, <2>5, Zenon DEF FrameInv, Positions, BitSeqs, kUWFrameLen, Row
<1>2. CASE \E bad \in {0, 1} : symbol(bad)
  BY <1>2, SymbolStep
<1>3. CASE UNCHANGED frameVars
  BY <1>3, Zenon DEF frameVars, FrameInv, FrameRecovered, Positions, BitSeqs, kUWFrameLen, Row
<1> QED BY <1>1, <1>2, <1>3 DEF FrameNext

(* For any number of rows and columns, any unique word and messages, a step *)
(* prime to the rows and a tolerance below half of the unique word:         *)
(* UWFinder returns every frame whose unique word is good enough with its   *)
(* last symbol, in either polarity, and depermute() and deinterleave() put  *)
(* every bit of it where the station took it from.                          *)
THEOREM FrameAlwaysRecovered == FrameSpec => []FrameRecovered
<1>1. FrameInit => FrameInv
  BY FrameInitInv
<1>2. FrameInv /\ [FrameNext]_frameVars => FrameInv'
  BY FrameStep
<1>3. FrameInv => FrameRecovered
  BY DEF FrameInv
<1> QED BY <1>1, <1>2, <1>3, PTL DEF FrameSpec

-----------------------------------------------------------------------------
(* The code layer.                                                          *)

Groups == NumBytes \div Group

(* Division with remainder, and that it is the only one.                    *)
LEMMA DivFacts ==
  ASSUME NEW n \in Nat, NEW b \in Nat \ {0}
  PROVE  /\ n \div b \in Nat /\ n % b \in 0 .. b - 1
         /\ n = b * (n \div b) + (n % b)
<1>1. n \div b \in Nat /\ n % b \in 0 .. b - 1
  OBVIOUS
<1>2. n = b * (n \div b) + (n % b)
  OBVIOUS
<1> QED BY <1>1, <1>2

LEMMA MulLess ==
  ASSUME NEW p \in Int, NEW q \in Int, NEW b \in Nat \ {0}, p * b < q * b
  PROVE  p < q
<1> SUFFICES ASSUME q <= p PROVE FALSE
  OBVIOUS
<1>1. (p - q) * b >= 0
  OBVIOUS
<1>2. p * b - q * b = (p - q) * b
  OBVIOUS
<1>3. p * b \in Int /\ q * b \in Int
  OBVIOUS
<1> QED BY <1>1, <1>2, <1>3

LEMMA DivOnly ==
  ASSUME NEW n \in Nat, NEW b \in Nat \ {0}, NEW q \in Int, NEW r \in 0 .. b - 1,
         n = b * q + r
  PROVE  n \div b = q /\ n % b = r
<1> DEFINE p == n \div b
           s == n % b
<1>1. p \in Nat /\ s \in 0 .. b - 1 /\ n = b * p + s
  BY DivFacts
<1> HIDE DEF p, s
<1>2. b * p \in Int /\ b * q \in Int
  BY <1>1
<1>3. p < q + 1
  <2>1. p * b < (q + 1) * b
    <3>1. (q + 1) * b = b * q + b /\ p * b = b * p
      BY <1>1
    <3> QED BY <3>1, <1>1, <1>2
  <2> QED BY <2>1, <1>1, MulLess
<1>4. q < p + 1
  <2>1. q * b < (p + 1) * b
    <3>1. (p + 1) * b = b * p + b /\ q * b = b * q
      BY <1>1
    <3> QED BY <3>1, <1>1, <1>2
  <2> QED BY <2>1, <1>1, MulLess
<1>5. p = q
  BY <1>1, <1>3, <1>4
<1> QED BY <1>1, <1>2, <1>5 DEF p, s

LEMMA DivBelow ==
  ASSUME NEW n \in Nat, NEW b \in Nat \ {0}, NEW m \in Int, n < m * b
  PROVE  n \div b < m
<1> DEFINE q == n \div b
           r == n % b
<1>1. q \in Nat /\ r \in 0 .. b - 1 /\ n = b * q + r
  BY DivFacts
<1> HIDE DEF q, r
<1>2. q * b = b * q /\ q * b \in Int /\ m * b \in Int
  BY <1>1
<1>3. q * b < m * b
  BY <1>1, <1>2
<1>4. q < m
  BY <1>1, <1>3, MulLess
<1> QED BY <1>4 DEF q

LEMMA DivMonotonic ==
  ASSUME NEW n \in Nat, NEW m \in Nat, NEW b \in Nat \ {0}, n <= m
  PROVE  n \div b <= m \div b
<1> DEFINE q == m \div b
           r == m % b
<1>1. q \in Nat /\ r \in 0 .. b - 1 /\ m = b * q + r
  BY DivFacts
<1> HIDE DEF q, r
<1>2. (q + 1) * b = b * q + b /\ b * q \in Int
  BY <1>1
<1>3. n < (q + 1) * b
  BY <1>1, <1>2
<1>4. n \div b < q + 1
  BY <1>1, <1>3, DivBelow
<1>5. n \div b \in Nat
  BY DivFacts
<1>6. n \div b <= q
  BY <1>1, <1>4, <1>5
<1> QED BY <1>6 DEF q

(* Dividing twice is dividing by the product: a byte's group is its bits'.  *)
LEMMA DivTwice ==
  ASSUME NEW n \in Nat, NEW b \in Nat \ {0}, NEW c \in Nat \ {0}
  PROVE  n \div (b * c) = (n \div b) \div c
<1> DEFINE p == n \div b
           q == p \div c
           u == n % b
           v == p % c
<1>1. p \in Nat /\ u \in 0 .. b - 1 /\ n = b * p + u
  BY DivFacts
<1> HIDE DEF p, u
<1>2. q \in Nat /\ v \in 0 .. c - 1 /\ p = c * q + v
  BY <1>1, DivFacts
<1> HIDE DEF q, v
<1>3. b * c \in Nat \ {0}
  <2>1. b * c >= 1
    OBVIOUS
  <2> QED BY <2>1
<1>4. n = (b * c) * q + (b * v + u)
  <2>1. b * (c * q + v) = (b * c) * q + b * v
    BY <1>2
  <2>2. b * (c * q + v) = b * p
    BY <1>2
  <2>3. b * p \in Int /\ (b * c) * q \in Int /\ b * v \in Int
    BY <1>1, <1>2
  <2> QED BY <1>1, <2>1, <2>2, <2>3
<1>5. b * v + u \in 0 .. b * c - 1
  <2>1. b * v <= b * c - b
    <3>1. v <= c - 1 /\ v \in Nat
      BY <1>2
    <3>2. b * v <= b * (c - 1)
      BY <3>1
    <3>3. b * (c - 1) = b * c - b
      OBVIOUS
    <3> QED BY <3>2, <3>3
  <2>2. b * v \in Nat
    BY <1>2
  <2> QED BY <1>1, <1>3, <2>1, <2>2
<1>6. n \div (b * c) = q
  BY <1>2, <1>3, <1>4, <1>5, DivOnly
<1> QED BY <1>6 DEF q, p

LEMMA CodeFacts ==
  /\ M \in Nat /\ 2 <= M /\ M <= Byte
  /\ Byte \in Nat \ {0} /\ NumBytes \in Nat /\ Group \in Nat \ {0}
  /\ Width \in Nat /\ Width >= 1 /\ Width >= Byte /\ \E w \in 1 .. NumBytes : Width = w * Byte
  /\ partab \in [[1 .. M - 1 -> {0, 1}] -> 0 .. 3]
  /\ Seed \in [1 .. 8 -> {0, 1}]
  /\ Data \subseteq [1 .. NumBytes -> [1 .. Byte -> {0, 1}]]
  /\ MaxWrong \in Nat /\ Bits \in Nat
  /\ Groups \in Nat
<1>1. PICK w \in 1 .. NumBytes : Width = w * Byte
  BY CodeAssumption
<1>2. w * Byte \in Nat /\ NumBytes * Byte \in Nat
  BY CodeAssumption
<1>3. NumBytes \div Group \in Nat
  BY CodeAssumption, DivFacts
<1>4. Byte \in Nat \ {0}
  BY CodeAssumption
<1>5. Width \in Nat /\ Width >= 1 /\ Width >= Byte /\ \E v \in 1 .. NumBytes : Width = v * Byte
  <2>1. w * Byte = Byte + (w - 1) * Byte
    BY <1>4
  <2>2. (w - 1) * Byte >= 0
    BY <1>4
  <2> QED BY <1>1, <1>2, <1>4, <2>1, <2>2
<1>6. Bits \in Nat /\ Groups \in Nat
  BY <1>2, <1>3 DEF Bits, Groups
<1> QED BY <1>4, <1>5, <1>6, CodeAssumption

(* The scrambler is a function that satisfies its recursion, since there is *)
(* one for every length, and its registers are registers.                   *)
NextScramble(r) == <<(r[8] + r[6] + r[5] + r[4]) % 2>> \o SubSeq(r, 1, 7)

LEMMA NextScrambleType ==
  ASSUME NEW r \in [1 .. 8 -> {0, 1}]
  PROVE  NextScramble(r) \in [1 .. 8 -> {0, 1}]
<1> DEFINE x == (r[8] + r[6] + r[5] + r[4]) % 2
           s == <<x>>
           t == SubSeq(r, 1, 7)
<1>1. x \in {0, 1}
  <2>1. r[8] \in {0, 1} /\ r[6] \in {0, 1} /\ r[5] \in {0, 1} /\ r[4] \in {0, 1}
    OBVIOUS
  <2> QED BY <2>1
<1>2. s \in Seq({0, 1}) /\ Len(s) = 1
  BY <1>1
<1>3. t \in Seq({0, 1}) /\ Len(t) = 7
  <2>1. \A i \in 1 .. 7 : r[i] \in {0, 1}
    OBVIOUS
  <2> QED BY <2>1, SubSeqProperties
<1> HIDE DEF x, s, t
<1>4. s \o t \in Seq({0, 1}) /\ Len(s \o t) = 8
  <2>1. ASSUME NEW B, s \in Seq(B), t \in Seq(B)
        PROVE  s \o t \in Seq(B) /\ Len(s \o t) = Len(s) + Len(t)
    BY <2>1, ConcatProperties
  <2> QED BY <1>2, <1>3, <2>1
<1>5. s \o t \in [1 .. 8 -> {0, 1}]
  BY <1>4, LenProperties
<1> QED BY <1>5 DEF NextScramble, s, t, x

Scrambles(f, n) ==
  f = [i \in 0 .. n |-> IF i = 0 THEN Seed ELSE NextScramble(f[i - 1])]

LEMMA ScrambledFurther ==
  ASSUME NEW n \in Nat, NEW f, Scrambles(f, n)
  PROVE  \E g : Scrambles(g, n + 1)
<1> DEFINE g == [i \in 0 .. n + 1 |-> IF i = n + 1 THEN NextScramble(f[n]) ELSE f[i]]
<1>1. ASSUME NEW i \in 0 .. n + 1
      PROVE  g[i] = IF i = 0 THEN Seed ELSE NextScramble(g[i - 1])
  <2>1. CASE i = n + 1
    <3>1. g[i] = NextScramble(f[n]) /\ g[i - 1] = f[n] /\ i # 0
      BY <2>1
    <3>2. i - 1 = n
      BY <2>1
    <3> QED BY <3>1, <3>2
  <2>2. CASE i # n + 1
    <3>1. i \in 0 .. n /\ g[i] = f[i]
      BY <2>2
    <3>2. f[i] = IF i = 0 THEN Seed ELSE NextScramble(f[i - 1])
      BY <3>1 DEF Scrambles
    <3>3. i # 0 => i - 1 \in 0 .. n + 1 /\ i - 1 # n + 1
      BY <3>1
    <3>4. i # 0 => g[i - 1] = f[i - 1]
      BY <3>3
    <3> HIDE DEF g
    <3> QED BY <3>1, <3>2, <3>4
  <2> QED BY <2>1, <2>2
<1>2. g = [i \in 0 .. n + 1 |-> g[i]]
  OBVIOUS
<1> HIDE DEF g
<1>3. Scrambles(g, n + 1)
  BY <1>1, <1>2 DEF Scrambles
<1> QED BY <1>3

LEMMA ScramblerExists ==
  ASSUME NEW n \in Nat
  PROVE  \E f : Scrambles(f, n)
<1> DEFINE S == {k \in Nat : ~ \E f : Scrambles(f, k)}
<1> SUFFICES ASSUME S # {} PROVE FALSE
  OBVIOUS
<1> HIDE DEF S
<1>1. S \in SUBSET Nat
  BY DEF S
<1>2. PICK k \in S : \A y \in S : k <= y
  BY <1>1, LeastOf
<1>3. k \in Nat /\ ~ \E f : Scrambles(f, k)
  BY DEF S
<1>4. k # 0
  <2> DEFINE f == [i \in 0 .. 0 |-> Seed]
  <2>1. f = [i \in 0 .. 0 |-> IF i = 0 THEN Seed ELSE NextScramble(f[i - 1])]
    OBVIOUS
  <2> HIDE DEF f
  <2>2. Scrambles(f, 0)
    BY <2>1 DEF Scrambles
  <2> QED BY <2>2, <1>3
<1>5. k - 1 \in Nat /\ k - 1 \notin S
  BY <1>1, <1>2, <1>3, <1>4
<1>6. PICK f : Scrambles(f, k - 1)
  BY <1>5 DEF S
<1>7. \E g : Scrambles(g, (k - 1) + 1)
  BY <1>5, <1>6, ScrambledFurther
<1>8. (k - 1) + 1 = k
  BY <1>3
<1> QED BY <1>3, <1>7, <1>8

LEMMA ScramblerDef == Scrambles(scrambler, Groups)
<1> DEFINE Is(f) ==
      f = [i \in 0 .. NumBytes \div Group |->
             IF i = 0 THEN Seed
             ELSE LET r == f[i - 1]
                  IN  <<(r[8] + r[6] + r[5] + r[4]) % 2>> \o SubSeq(r, 1, 7)]
<1>1. \A f : Is(f) <=> Scrambles(f, Groups)
  BY DEF Scrambles, NextScramble, Groups
<1>2. scrambler = CHOOSE f : Is(f)
  BY DEF scrambler
<1>3. \E f : Is(f)
  BY <1>1, CodeFacts, ScramblerExists
<1> HIDE DEF Is
<1>4. Is(scrambler)
  BY <1>2, <1>3
<1> QED BY <1>1, <1>4

LEMMA ScramblerType ==
  ASSUME NEW n \in 0 .. Groups
  PROVE  scrambler[n] \in [1 .. 8 -> {0, 1}] /\ ds(n) \in {0, 1}
<1> DEFINE S == {k \in 0 .. Groups : scrambler[k] \notin [1 .. 8 -> {0, 1}]}
<1>1. S = {}
  <2> SUFFICES ASSUME S # {} PROVE FALSE
    OBVIOUS
  <2>1. S \in SUBSET Nat
    BY CodeFacts
  <2> HIDE DEF S
  <2>2. PICK k \in S : \A y \in S : k <= y
    BY <2>1, LeastOf
  <2>3. k \in 0 .. Groups /\ scrambler[k] \notin [1 .. 8 -> {0, 1}]
    BY DEF S
  <2>4. scrambler[k] = IF k = 0 THEN Seed ELSE NextScramble(scrambler[k - 1])
    BY <2>3, ScramblerDef DEF Scrambles
  <2>5. k # 0
    BY <2>3, <2>4, CodeFacts
  <2>6. k - 1 \in 0 .. Groups /\ k - 1 \notin S
    BY <2>2, <2>3, <2>5, CodeFacts
  <2>7. scrambler[k - 1] \in [1 .. 8 -> {0, 1}]
    BY <2>6 DEF S
  <2> QED BY <2>3, <2>4, <2>5, <2>7, NextScrambleType
<1>2. scrambler[n] \in [1 .. 8 -> {0, 1}]
  BY <1>1
<1> QED BY <1>2 DEF ds

(* What the station sends is bits, of which the last M are zeros.           *)
LEMMA FrameBit ==
  ASSUME NEW f \in [1 .. NumBytes -> [1 .. Byte -> {0, 1}]], NEW n \in 0 .. Bits - 1
  PROVE  /\ n \div Byte + 1 \in 1 .. NumBytes /\ n % Byte \in 0 .. Byte - 1
         /\ n = (n \div Byte) * Byte + (n % Byte)
         /\ BitOf(f, n) \in {0, 1}
<1> DEFINE q == n \div Byte
           r == n % Byte
<1>0. n \in Nat /\ n < NumBytes * Byte
  BY CodeFacts DEF Bits
<1>1. q \in Nat /\ r \in 0 .. Byte - 1 /\ n = Byte * q + r
  BY <1>0, CodeFacts, DivFacts
<1>2. q < NumBytes
  <2>1. NumBytes \in Int /\ Byte \in Nat \ {0}
    BY CodeFacts
  <2> QED BY <1>0, <2>1, DivBelow
<1>3. q + 1 \in 1 .. NumBytes
  BY <1>1, <1>2, CodeFacts
<1>4. Byte - r \in 1 .. Byte
  BY <1>1, CodeFacts
<1>5. f[q + 1][Byte - r] \in {0, 1}
  <2>1. f[q + 1] \in [1 .. Byte -> {0, 1}]
    BY <1>3
  <2> QED BY <2>1, <1>4
<1>6. Byte * q = q * Byte
  BY <1>1, CodeFacts
<1>7. BitOf(f, n) = f[q + 1][Byte - r]
  BY DEF BitOf
<1>8. n = q * Byte + r
  BY <1>1, <1>6
<1> QED BY <1>1, <1>3, <1>5, <1>7, <1>8

LEMMA GroupAt ==
  ASSUME NEW n \in 0 .. Bits - 1
  PROVE  /\ n \div (Byte * Group) = (n \div Byte) \div Group
         /\ (n \div Byte) \div Group \in 0 .. Groups
<1>1. n \in Nat
  BY CodeFacts
<1>2. n \div (Byte * Group) = (n \div Byte) \div Group
  BY <1>1, CodeFacts, DivTwice
<1>3. (n \div Byte) \div Group \in 0 .. Groups
  <2>1. n \div Byte \in Nat /\ n \div Byte < NumBytes
    <3>1. NumBytes \in Int /\ Byte \in Nat \ {0} /\ n < NumBytes * Byte
      BY <1>1, CodeFacts DEF Bits
    <3> QED BY <1>1, <3>1, DivFacts, DivBelow
  <2> DEFINE p == n \div Byte
  <2> HIDE DEF p
  <2>2. p \in Nat /\ p <= NumBytes
    BY <2>1, CodeFacts DEF p
  <2>3. p \div Group \in Nat /\ p \div Group <= Groups
    BY <2>2, CodeFacts, DivFacts, DivMonotonic DEF Groups
  <2> QED BY <2>3, CodeFacts DEF p
<1> QED BY <1>2, <1>3

LEMMA SumBit ==
  ASSUME NEW x \in {0, 1}, NEW y \in {0, 1}
  PROVE  (x + y) % 2 \in {0, 1} /\ (((x + y) % 2) + y) % 2 = x
OBVIOUS

LEMMA EncodedBit ==
  ASSUME data \in Data, NEW n \in Int
  PROVE  /\ Encoded(n) \in {0, 1}
         /\ n < 0 \/ n >= Bits - M => Encoded(n) = 0
<1>1. CASE n < 0 \/ n >= Bits - M
  BY <1>1 DEF Encoded
<1>2. CASE ~(n < 0 \/ n >= Bits - M)
  <2>1. n \in 0 .. Bits - 1
    BY <1>2, CodeFacts
  <2>2. BitOf(data, n) \in {0, 1}
    BY <2>1, CodeFacts, FrameBit
  <2>3. ds(n \div (Byte * Group)) \in {0, 1}
    BY <2>1, GroupAt, ScramblerType
  <2>4. Encoded(n) = (BitOf(data, n) + ds(n \div (Byte * Group))) % 2
    BY <1>2 DEF Encoded
  <2> QED BY <1>2, <2>2, <2>3, <2>4, SumBit
<1> QED BY <1>1, <1>2

-----------------------------------------------------------------------------
(* One step of the Viterbi decoder.                                         *)

PathStates == [States -> [path : [1 .. Width -> {0, 1}], metric : Int]]

(* The bits of the path the station took, for a decoder n steps on.         *)
TruePath(n) == [i \in 1 .. Width |-> Encoded(n - M - Width + i - 1)]

LEMMA RegisterType ==
  ASSUME data \in Data, NEW n \in Int
  PROVE  Register(n) \in States /\ TruePath(n) \in [1 .. Width -> {0, 1}]
<1>1. \A i \in 1 .. M : Encoded(n - M + i - 1) \in {0, 1}
  <2> TAKE i \in 1 .. M
  <2>1. n - M + i - 1 \in Int
    BY CodeFacts
  <2> QED BY <2>1, EncodedBit
<1>2. \A i \in 1 .. Width : Encoded(n - M - Width + i - 1) \in {0, 1}
  <2> TAKE i \in 1 .. Width
  <2>1. n - M - Width + i - 1 \in Int
    BY CodeFacts
  <2> QED BY <2>1, EncodedBit
<1> QED BY <1>1, <1>2 DEF Register, TruePath, States

LEMMA RegisterBit ==
  ASSUME NEW n \in Int, NEW i \in 1 .. M
  PROVE  Register(n)[i] = Encoded(n - M + i - 1)
BY DEF Register

(* The station's next register, and the one it has, are neighbours.         *)
LEMMA RegisterMoves ==
  ASSUME data \in Data, NEW n \in Int
  PROVE  LET r == Register(n + 1)
         IN  /\ r[M] = Encoded(n)
             /\ Before(r, Encoded(n - M)) = Register(n)
             /\ Older(r) = Newer(Register(n))
             /\ Register(n)[1] = Encoded(n - M)
<1> DEFINE r == Register(n + 1)
           s == Register(n)
<1>1. \A i \in 1 .. M : r[i] = Encoded(n - M + i) /\ s[i] = Encoded(n - M + i - 1)
  <2> TAKE i \in 1 .. M
  <2> DEFINE m == n + 1
  <2>1. m \in Int /\ m - M + i - 1 = n - M + i
    BY CodeFacts
  <2> HIDE DEF m
  <2>2. Register(m)[i] = Encoded(m - M + i - 1) /\ s[i] = Encoded(n - M + i - 1)
    BY <2>1, RegisterBit
  <2>3. r = Register(m)
    BY DEF m
  <2> HIDE DEF r, s
  <2> QED BY <2>1, <2>2, <2>3
<1>2. s = [i \in 1 .. M |-> s[i]]
  BY DEF Register
<1> HIDE DEF r, s
<1>3. r[M] = Encoded(n)
  <2>1. M \in 1 .. M /\ n - M + M = n
    BY CodeFacts
  <2> QED BY <1>1, <2>1
<1>4. s[1] = Encoded(n - M)
  <2>1. 1 \in 1 .. M /\ n - M + 1 - 1 = n - M
    BY CodeFacts
  <2> QED BY <1>1, <2>1
<1>5. \A i \in 1 .. M : i # 1 => r[i - 1] = s[i]
  <2> SUFFICES ASSUME NEW i \in 1 .. M, i # 1 PROVE r[i - 1] = s[i]
    OBVIOUS
  <2>1. i - 1 \in 1 .. M /\ n - M + (i - 1) = n - M + i - 1
    BY CodeFacts
  <2> QED BY <1>1, <2>1
<1>6. Before(r, Encoded(n - M)) = s
  <2>1. Before(r, Encoded(n - M)) = [i \in 1 .. M |-> s[i]]
    BY <1>4, <1>5 DEF Before
  <2> QED BY <2>1, <1>2
<1>7. Older(r) = Newer(s)
  <2>1. \A i \in 1 .. M - 1 : r[i] = s[i + 1]
    <3> TAKE i \in 1 .. M - 1
    <3>1. i + 1 \in 1 .. M /\ i + 1 # 1 /\ (i + 1) - 1 = i
      BY CodeFacts
    <3> QED BY <1>5, <3>1
  <2> QED BY <2>1 DEF Older, Newer
<1> QED BY <1>3, <1>4, <1>6, <1>7 DEF r, s

LEMMA BeforeFacts ==
  ASSUME NEW n \in States, NEW left \in {0, 1}
  PROVE  /\ Before(n, left) \in States /\ Before(n, left)[1] = left
         /\ Newer(Before(n, left)) = Older(n)
         /\ Older(n) \in [1 .. M - 1 -> {0, 1}]
         /\ n[M] \in {0, 1}
         /\ \A i \in 1 .. M - 1 : n[i] = Older(n)[i]
<1>1. n \in [1 .. M -> {0, 1}] /\ 1 \in 1 .. M /\ M \in 1 .. M
  BY CodeFacts DEF States
<1>2. \A i \in 1 .. M : i # 1 => i - 1 \in 1 .. M
  BY CodeFacts
<1>3. Before(n, left) \in States /\ Before(n, left)[1] = left
  BY <1>1, <1>2 DEF Before, States
<1>4. \A i \in 1 .. M - 1 : i \in 1 .. M /\ i + 1 \in 1 .. M /\ i + 1 # 1 /\ (i + 1) - 1 = i
  BY CodeFacts
<1>5. \A i \in 1 .. M - 1 : Before(n, left)[i + 1] = n[i]
  BY <1>4 DEF Before
<1>6. Newer(Before(n, left)) = Older(n)
  BY <1>5 DEF Newer, Older
<1>7. Older(n) \in [1 .. M - 1 -> {0, 1}]
  BY <1>1, <1>4 DEF Older
<1>8. \A i \in 1 .. M - 1 : n[i] = Older(n)[i]
  BY DEF Older
<1> QED BY <1>1, <1>3, <1>6, <1>7, <1>8

(* What was sent, received with x and y wrong symbols, misses the branch    *)
(* the station took by as many, and a branch that differs from it in one    *)
(* end by the others.                                                       *)
LEMMA PairMets ==
  ASSUME NEW p \in 0 .. 3, NEW x \in {0, 1}, NEW y \in {0, 1}
  PROVE  LET a == (p \div 2 + x) % 2
             b == (p + y) % 2
         IN  /\ a \in {0, 1} /\ b \in {0, 1}
             /\ mets(p, a, b) = -(x + y)
             /\ mets(3 - p, a, b) = -2 + (x + y)
<1>1. p = 0 \/ p = 1 \/ p = 2 \/ p = 3
  OBVIOUS
<1> QED BY <1>1 DEF mets, Miss

LEMMA MetsType ==
  ASSUME NEW p, NEW a, NEW b
  PROVE  mets(p, a, b) \in -2 .. 0
BY DEF mets, Miss

LEMMA PairType ==
  ASSUME NEW in \in {0, 1}, NEW left \in {0, 1}, NEW mid \in [1 .. M - 1 -> {0, 1}]
  PROVE  /\ Pair(in, left, mid) \in 0 .. 3
         /\ \A u \in {0, 1} : u # in => Pair(u, left, mid) = 3 - Pair(in, left, mid)
         /\ \A u \in {0, 1} : u # left => Pair(in, u, mid) = 3 - Pair(in, left, mid)
<1>1. partab[mid] \in 0 .. 3
  BY CodeFacts
<1> QED BY <1>1 DEF Pair

LEMMA NextPath ==
  ASSUME NEW p \in [1 .. Width -> {0, 1}], NEW left \in {0, 1}
  PROVE  /\ Append(Tail(p), left) \in [1 .. Width -> {0, 1}]
         /\ Append(Tail(p), left) = [i \in 1 .. Width |-> IF i = Width THEN left ELSE p[i + 1]]
<1>1. Width \in Nat /\ Width >= 1
  BY CodeFacts
<1>2. p \in Seq({0, 1}) /\ Len(p) = Width /\ p # <<>>
  BY <1>1
<1>3. Tail(p) \in Seq({0, 1}) /\ Len(Tail(p)) = Width - 1
      /\ \A i \in 1 .. Width - 1 : Tail(p)[i] = p[i + 1]
  BY <1>1, <1>2
<1> DEFINE t == Tail(p)
           q == Append(t, left)
<1> HIDE DEF t
<1>4. t \in Seq({0, 1}) /\ Len(t) = Width - 1
  BY <1>3 DEF t
<1>5. q \in Seq({0, 1}) /\ Len(q) = Width
      /\ \A i \in 1 .. Width : q[i] = IF i = Width THEN left ELSE t[i]
  BY <1>1, <1>4
<1> HIDE DEF q
<1>6. q \in [1 .. Width -> {0, 1}] /\ q = [i \in 1 .. Width |-> q[i]]
  BY <1>5
<1>7. \A i \in 1 .. Width : q[i] = IF i = Width THEN left ELSE p[i + 1]
  BY <1>1, <1>3, <1>5 DEF t
<1> QED BY <1>6, <1>7 DEF q, t

LEMMA TruePathMoves ==
  ASSUME data \in Data, NEW n \in Int
  PROVE  TruePath(n + 1) = Append(Tail(TruePath(n)), Encoded(n - M))
<1> DEFINE m == n + 1
           p == TruePath(n)
           q == TruePath(m)
<1>1. \A i \in 1 .. Width : p[i] = Encoded(n - M - Width + i - 1)
  BY DEF TruePath
<1>2. q = [i \in 1 .. Width |-> Encoded(m - M - Width + i - 1)]
  BY DEF TruePath
<1>3. p \in [1 .. Width -> {0, 1}] /\ Encoded(n - M) \in {0, 1}
  <2>1. n - M \in Int
    BY CodeFacts
  <2> QED BY <2>1, RegisterType, EncodedBit
<1> HIDE DEF p, q, m
<1>4. Append(Tail(p), Encoded(n - M))
        = [i \in 1 .. Width |-> IF i = Width THEN Encoded(n - M) ELSE p[i + 1]]
  BY <1>3, NextPath
<1>5. ASSUME NEW i \in 1 .. Width
      PROVE  Encoded(m - M - Width + i - 1) = IF i = Width THEN Encoded(n - M) ELSE p[i + 1]
  <2>1. CASE i = Width
    <3>1. m - M - Width + i - 1 = n - M
      BY <2>1, CodeFacts DEF m
    <3> QED BY <2>1, <3>1
  <2>2. CASE i # Width
    <3> DEFINE j == i + 1
    <3>1. j \in 1 .. Width /\ m - M - Width + i - 1 = n - M - Width + j - 1
      BY <2>2, CodeFacts DEF m
    <3> HIDE DEF j
    <3>2. p[j] = Encoded(n - M - Width + j - 1)
      BY <1>1, <3>1
    <3>3. p[i + 1] = p[j]
      BY DEF j
    <3> QED BY <2>2, <3>1, <3>2, <3>3
  <2> QED BY <2>1, <2>2
<1>6. q = Append(Tail(p), Encoded(n - M))
  BY <1>2, <1>4, <1>5
<1> QED BY <1>6 DEF p, q, m

(* The invariant: the true state's metric is bounded from below, all others *)
(* from above, since a path that leaves the station's misses two symbols    *)
(* where it leaves, and two where it comes back.                            *)
CodeInv ==
  /\ state \in PathStates
  /\ bitcnt \in 0 .. Bits /\ data \in Data /\ wrong \in 0 .. MaxWrong
  /\ \A n \in States : state[n].metric <= 0
  /\ \A n \in States : n # Register(bitcnt) => state[n].metric <= wrong - 2
  /\ state[Register(bitcnt)].metric >= -wrong
  /\ wrong <= 1 => state[Register(bitcnt)].path = TruePath(bitcnt)

Into(n, left, a, b) == state[Before(n, left)].metric + mets(Pair(n[M], left, Older(n)), a, b)

LEMMA SurvivorFacts ==
  ASSUME state \in PathStates, NEW n \in States, NEW a, NEW b
  PROVE  LET s == Survivor(n, a, b)
         IN  /\ s \in [path : [1 .. Width -> {0, 1}], metric : Int]
             /\ \A left \in {0, 1} : Into(n, left, a, b) \in Int /\ s.metric >= Into(n, left, a, b)
             /\ \E left \in {0, 1} :
                  /\ s.metric = Into(n, left, a, b)
                  /\ s.path = Append(Tail(state[Before(n, left)].path), left)
             /\ \A left \in {0, 1} :
                  (\A u \in {0, 1} : u # left => Into(n, u, a, b) < Into(n, left, a, b))
                    => s.path = Append(Tail(state[Before(n, left)].path), left)
<1> DEFINE I(left) == Into(n, left, a, b)
           P(left) == Append(Tail(state[Before(n, left)].path), left)
           s == Survivor(n, a, b)
<1>1. \A left \in {0, 1} : I(left) \in Int /\ P(left) \in [1 .. Width -> {0, 1}]
  <2> TAKE left \in {0, 1}
  <2>1. Before(n, left) \in States
    BY BeforeFacts
  <2>2. state[Before(n, left)] \in [path : [1 .. Width -> {0, 1}], metric : Int]
    BY <2>1 DEF PathStates
  <2>3. mets(Pair(n[M], left, Older(n)), a, b) \in Int
    BY MetsType
  <2>4. I(left) \in Int
    BY <2>2, <2>3 DEF Into
  <2>5. state[Before(n, left)].path \in [1 .. Width -> {0, 1}]
    BY <2>2
  <2>6. P(left) \in [1 .. Width -> {0, 1}]
    BY <2>5, NextPath
  <2> QED BY <2>4, <2>6
<1>2. s = IF I(0) > I(1) THEN [metric |-> I(0), path |-> P(0)]
          ELSE [metric |-> I(1), path |-> P(1)]
  BY DEF Survivor, Better, Into
<1> HIDE DEF I, P, s
<1>3. s \in [path : [1 .. Width -> {0, 1}], metric : Int]
  BY <1>1, <1>2
<1>4. \A left \in {0, 1} : I(left) \in Int /\ s.metric >= I(left)
  BY <1>1, <1>2
<1>5. \E left \in {0, 1} : s.metric = I(left) /\ s.path = P(left)
  BY <1>1, <1>2
<1>6. \A left \in {0, 1} : (\A u \in {0, 1} : u # left => I(u) < I(left)) => s.path = P(left)
  BY <1>1, <1>2
<1> QED BY <1>3, <1>4, <1>5, <1>6 DEF I, P, s

LEMMA SymbolsKeep ==
  ASSUME CodeInv, NEW x \in {0, 1}, NEW y \in {0, 1}
  PROVE  LET a == (SentPair(bitcnt) \div 2 + x) % 2
             b == (SentPair(bitcnt) + y) % 2
             next == [n \in States |-> Survivor(n, a, b)]
             r == Register(bitcnt + 1)
         IN  /\ next \in PathStates /\ r \in States
             /\ \A n \in States : next[n].metric <= 0
             /\ \A n \in States : n # r => next[n].metric <= wrong + x + y - 2
             /\ next[r].metric >= -(wrong + x + y)
             /\ wrong + x + y <= 1 => next[r].path = TruePath(bitcnt + 1)
<1> DEFINE p == SentPair(bitcnt)
           a == (p \div 2 + x) % 2
           b == (p + y) % 2
           next == [n \in States |-> Survivor(n, a, b)]
           q == Register(bitcnt)
           r == Register(bitcnt + 1)
           e == Encoded(bitcnt)
           o == Encoded(bitcnt - M)
<1>1. /\ state \in PathStates /\ data \in Data /\ wrong \in Nat
      /\ bitcnt \in Int /\ bitcnt + 1 \in Int /\ bitcnt - M \in Int
  BY CodeFacts DEF CodeInv
<1>2. e \in {0, 1} /\ o \in {0, 1} /\ q \in States /\ r \in States
  BY <1>1, EncodedBit, RegisterType
<1>3. r[M] = e /\ Before(r, o) = q /\ Older(r) = Newer(q) /\ q[1] = o
  BY <1>1, RegisterMoves
<1>4. Older(r) \in [1 .. M - 1 -> {0, 1}]
  BY <1>2, BeforeFacts
<1>5. p = Pair(e, o, Older(r)) /\ p \in 0 .. 3
  <2>1. p = Pair(e, o, Older(r))
    BY <1>3 DEF SentPair
  <2>2. Pair(e, o, Older(r)) \in 0 .. 3
    BY <1>2, <1>4, PairType
  <2> QED BY <2>1, <2>2
<1> HIDE DEF p, q, r, e, o
<1>6. mets(p, a, b) = -(x + y) /\ mets(3 - p, a, b) = -2 + (x + y)
  BY <1>5, PairMets
<1> HIDE DEF a, b
<1>7. \A n \in States : state[n].metric \in Int /\ state[n].metric <= 0
  BY DEF CodeInv, PathStates
<1>8. /\ \A n \in States : n # q => state[n].metric <= wrong - 2
      /\ state[q].metric >= -wrong
      /\ wrong <= 1 => state[q].path = TruePath(bitcnt)
  BY DEF CodeInv, q
<1>9. ASSUME NEW n \in States, NEW left \in {0, 1}, Before(n, left) = q
      PROVE  left = o /\ Older(n) = Older(r)
  <2>1. Before(n, left)[1] = left /\ Newer(Before(n, left)) = Older(n)
    BY BeforeFacts
  <2> QED BY <1>3, <1>9, <2>1
<1>10. ASSUME NEW n \in States, NEW left \in {0, 1}
       PROVE  Into(n, left, a, b) \in Int /\ Into(n, left, a, b) <= 0
  <2>1. Before(n, left) \in States
    BY BeforeFacts
  <2>2. mets(Pair(n[M], left, Older(n)), a, b) \in -2 .. 0
    BY MetsType
  <2> QED BY <2>1, <2>2, <1>7 DEF Into
<1>11. ASSUME NEW n \in States, n # r, NEW left \in {0, 1}
       PROVE  Into(n, left, a, b) <= wrong + x + y - 2
  <2>1. Before(n, left) \in States
    BY BeforeFacts
  <2>2. mets(Pair(n[M], left, Older(n)), a, b) \in -2 .. 0
    BY MetsType
  <2>3. CASE Before(n, left) # q
    <3>1. state[Before(n, left)].metric <= wrong - 2 /\ state[Before(n, left)].metric \in Int
      BY <2>1, <2>3, <1>7, <1>8
    <3> QED BY <2>2, <3>1, <1>1 DEF Into
  <2>4. CASE Before(n, left) = q
    <3>1. left = o /\ Older(n) = Older(r)
      BY <2>4, <1>9
    <3>2. n[M] # e
      <4> SUFFICES ASSUME n[M] = e PROVE FALSE
        OBVIOUS
      <4>1. \A i \in 1 .. M - 1 : n[i] = Older(n)[i] /\ r[i] = Older(r)[i]
        BY <1>2, BeforeFacts
      <4>2. \A i \in 1 .. M : i = M \/ i \in 1 .. M - 1
        BY CodeFacts
      <4>3. \A i \in 1 .. M : n[i] = r[i]
        BY <4>1, <4>2, <3>1, <1>3
      <4>4. n = [i \in 1 .. M |-> n[i]] /\ r = [i \in 1 .. M |-> r[i]]
        BY <1>2 DEF States
      <4>5. n = r
        BY <4>3, <4>4, Zenon
      <4> QED BY <4>5, <1>11
    <3>3. n[M] \in {0, 1}
      BY BeforeFacts
    <3>4. Pair(n[M], left, Older(n)) = 3 - p
      BY <3>1, <3>2, <3>3, <1>2, <1>4, <1>5, PairType
    <3>5. Into(n, left, a, b) = state[q].metric + (-2 + (x + y))
      BY <3>4, <2>4, <1>6 DEF Into
    <3> QED BY <3>5, <1>1, <1>2, <1>7
  <2> QED BY <2>3, <2>4
<1>12. Into(r, o, a, b) = state[q].metric - (x + y)
  <2>1. Into(r, o, a, b) = state[q].metric + mets(p, a, b)
    BY <1>3, <1>5 DEF Into
  <2> QED BY <2>1, <1>6, <1>2, <1>7
<1>13. ASSUME NEW u \in {0, 1}, u # o
       PROVE  Into(r, u, a, b) <= wrong + x + y - 4
  <2>1. Before(r, u) \in States /\ Before(r, u) # q
    BY <1>2, <1>9, <1>13, BeforeFacts
  <2>2. state[Before(r, u)].metric <= wrong - 2 /\ state[Before(r, u)].metric \in Int
    BY <2>1, <1>7, <1>8
  <2>3. Pair(r[M], u, Older(r)) = 3 - p
    BY <1>2, <1>3, <1>4, <1>5, <1>13, PairType
  <2>4. Into(r, u, a, b) = state[Before(r, u)].metric + (-2 + (x + y))
    BY <2>3, <1>6 DEF Into
  <2> QED BY <2>2, <2>4, <1>1
<1>14. next \in PathStates
  <2>1. \A n \in States : Survivor(n, a, b) \in [path : [1 .. Width -> {0, 1}], metric : Int]
    BY <1>1, SurvivorFacts
  <2> QED BY <2>1 DEF PathStates
<1>15. ASSUME NEW n \in States
       PROVE  next[n].metric <= 0 /\ (n # r => next[n].metric <= wrong + x + y - 2)
  <2>1. next[n] = Survivor(n, a, b)
    OBVIOUS
  <2>2. PICK left \in {0, 1} : next[n].metric = Into(n, left, a, b)
    BY <2>1, <1>1, SurvivorFacts
  <2> HIDE DEF next
  <2> QED BY <2>2, <1>10, <1>11
<1>16. next[r].metric >= -(wrong + x + y)
  <2>1. next[r] = Survivor(r, a, b)
    BY <1>2
  <2>2. next[r].metric >= Into(r, o, a, b)
    BY <2>1, <1>1, <1>2, SurvivorFacts
  <2>3. next[r].metric \in Int
    BY <1>2, <1>14 DEF PathStates
  <2> HIDE DEF next
  <2> QED BY <2>2, <2>3, <1>1, <1>2, <1>7, <1>8, <1>12
<1>17. ASSUME wrong + x + y <= 1 PROVE next[r].path = TruePath(bitcnt + 1)
  <2>1. next[r] = Survivor(r, a, b)
    BY <1>2
  <2>2. \A u \in {0, 1} : u # o => Into(r, u, a, b) < Into(r, o, a, b)
    <3> SUFFICES ASSUME NEW u \in {0, 1}, u # o PROVE Into(r, u, a, b) < Into(r, o, a, b)
      OBVIOUS
    <3>1. Into(r, u, a, b) <= wrong + x + y - 4
      BY <1>13
    <3>2. Into(r, u, a, b) \in Int
      BY <1>2, <1>10
    <3> QED BY <3>1, <3>2, <1>1, <1>2, <1>7, <1>8, <1>12, <1>17
  <2>3. next[r].path = Append(Tail(state[Before(r, o)].path), o)
    BY <2>1, <2>2, <1>1, <1>2, SurvivorFacts
  <2>4. state[q].path = TruePath(bitcnt)
    BY <1>1, <1>8, <1>17
  <2>5. TruePath(bitcnt + 1) = Append(Tail(TruePath(bitcnt)), Encoded(bitcnt - M))
    BY <1>1, TruePathMoves
  <2> QED BY <2>3, <2>4, <2>5, <1>3 DEF o
<1> QED BY <1>2, <1>14, <1>15, <1>16, <1>17 DEF p, a, b, r

LEMMA CodeInvInit == CodeInit => CodeInv
<1> SUFFICES ASSUME CodeInit PROVE CodeInv
  OBVIOUS
<1>1. data \in Data /\ bitcnt = 0 /\ wrong = 0 /\ bitcnt \in 0 .. Bits
      /\ wrong \in 0 .. MaxWrong
  BY CodeFacts DEF CodeInit
<1>2. Zeros \in States
  BY DEF Zeros, States
<1>3. Register(0) = Zeros
  <2>1. \A i \in 1 .. M : Encoded(0 - M + i - 1) = 0
    <3> TAKE i \in 1 .. M
    <3>1. 0 - M + i - 1 \in Int /\ 0 - M + i - 1 < 0
      BY CodeFacts
    <3> QED BY <1>1, <3>1, EncodedBit
  <2> QED BY <2>1 DEF Register, Zeros
<1>4. TruePath(0) = [i \in 1 .. Width |-> 0]
  <2>1. \A i \in 1 .. Width : Encoded(0 - M - Width + i - 1) = 0
    <3> TAKE i \in 1 .. Width
    <3>1. 0 - M - Width + i - 1 \in Int /\ 0 - M - Width + i - 1 < 0
      BY CodeFacts
    <3> QED BY <1>1, <3>1, EncodedBit
  <2> QED BY <2>1 DEF TruePath
<1>5. \A n \in States : state[n] = [metric |-> IF n = Zeros THEN 0 ELSE Unreached,
                                    path |-> [i \in 1 .. Width |-> 0]]
  BY DEF CodeInit
<1>6. state \in PathStates
  <2>1. [i \in 1 .. Width |-> 0] \in [1 .. Width -> {0, 1}] /\ Unreached \in Int
    BY DEF Unreached
  <2> QED BY <2>1 DEF CodeInit, PathStates
<1>7. ASSUME NEW n \in States
      PROVE  /\ state[n].metric = IF n = Zeros THEN 0 ELSE Unreached
             /\ state[n].path = [i \in 1 .. Width |-> 0]
  <2> DEFINE z == [i \in 1 .. Width |-> 0]
             m == IF n = Zeros THEN 0 ELSE Unreached
  <2>1. state[n] = [metric |-> m, path |-> z]
    BY <1>5
  <2> HIDE DEF m, z
  <2>2. state[n].metric = m /\ state[n].path = z
    BY <2>1
  <2> QED BY <2>2 DEF m, z
<1>8. state[Zeros].path = TruePath(0)
  BY <1>2, <1>4, <1>7
<1>9. /\ \A n \in States : state[n].metric <= 0
      /\ \A n \in States : n # Zeros => state[n].metric <= -2
      /\ state[Zeros].metric = 0
  BY <1>2, <1>7, SMT DEF Unreached
<1> QED BY <1>1, <1>2, <1>3, <1>6, <1>8, <1>9 DEF CodeInv

LEMMA CodeInvStep == CodeInv /\ [CodeNext]_codeVars => CodeInv'
<1> SUFFICES ASSUME CodeInv, [CodeNext]_codeVars PROVE CodeInv'
  OBVIOUS
<1>1. CASE finish
  BY <1>1 DEF finish, CodeInv, Register, TruePath, Encoded
<1>2. CASE UNCHANGED codeVars
  BY <1>2 DEF codeVars, CodeInv, Register, TruePath, Encoded
<1>3. CASE symbols
  <2>1. PICK x \in {0, 1}, y \in {0, 1} :
          /\ wrong + x + y <= MaxWrong /\ wrong' = wrong + x + y
          /\ step((SentPair(bitcnt) \div 2 + x) % 2, (SentPair(bitcnt) + y) % 2)
          /\ UNCHANGED <<decoded, data>>
    BY <1>3 DEF symbols
  <2> DEFINE a == (SentPair(bitcnt) \div 2 + x) % 2
             b == (SentPair(bitcnt) + y) % 2
             next == [n \in States |-> Survivor(n, a, b)]
             r == Register(bitcnt + 1)
  <2>2. bitcnt < Bits /\ bitcnt' = bitcnt + 1 /\ state' = next
    BY <2>1 DEF step
  <2>3. /\ next \in PathStates /\ r \in States
        /\ \A n \in States : next[n].metric <= 0
        /\ \A n \in States : n # r => next[n].metric <= wrong + x + y - 2
        /\ next[r].metric >= -(wrong + x + y)
        /\ wrong + x + y <= 1 => next[r].path = TruePath(bitcnt + 1)
    BY SymbolsKeep
  <2> HIDE DEF a, b, next
  <2>4. (Register(bitcnt))' = r /\ (TruePath(bitcnt))' = TruePath(bitcnt + 1)
    BY <2>1, <2>2 DEF Register, TruePath, Encoded
  <2> HIDE DEF r
  <2>5. data' \in Data /\ wrong' \in 0 .. MaxWrong /\ bitcnt' \in 0 .. Bits
    <3>1. data \in Data /\ wrong \in 0 .. MaxWrong /\ bitcnt \in 0 .. Bits
      BY DEF CodeInv
    <3>2. MaxWrong \in Nat /\ Bits \in Nat
      BY CodeFacts
    <3>3. wrong + x + y \in 0 .. MaxWrong
      BY <2>1, <3>1, <3>2
    <3>4. bitcnt + 1 \in 0 .. Bits
      BY <2>2, <3>1, <3>2
    <3> QED BY <2>1, <2>2, <3>1, <3>3, <3>4
  <2> QED BY <2>1, <2>2, <2>3, <2>4, <2>5 DEF CodeInv
<1> QED BY <1>1, <1>2, <1>3 DEF CodeNext

LEMMA CodeInvariant == CodeSpec => []CodeInv
BY CodeInvInit, CodeInvStep, PTL DEF CodeSpec

(* For every code of this form, every frame and any number of wrong         *)
(* symbols: the metric of the station's state is what those cost, and one   *)
(* wrong symbol cannot displace its path.                                   *)
THEOREM TruePathIsKept == CodeSpec => []TruePathKept
<1>1. CodeInv => TruePathKept
  <2> SUFFICES ASSUME CodeInv PROVE TruePathKept
    OBVIOUS
  <2>1. bitcnt \in Int
    BY CodeFacts DEF CodeInv
  <2>2. Register(bitcnt) \in States
    BY <2>1, RegisterType DEF CodeInv
  <2>3. state[Register(bitcnt)].metric \in Int
    BY <2>2 DEF CodeInv, PathStates
  <2>4. state[Register(bitcnt)].metric \in -wrong .. 0
    BY <2>2, <2>3 DEF CodeInv
  <2> QED BY <2>4 DEF CodeInv, TruePathKept, TruePath
<1> QED BY <1>1, CodeInvariant, PTL

-----------------------------------------------------------------------------
(* The decoder's output when no symbol is wrong.                            *)

TrueByte(k) == [j \in 1 .. Byte |-> Encoded((k - 1) * Byte + j - 1)]

(* Of e bytes, what the station encoded; the last came out at the step that *)
(* filled it, and the next will come with the step that fills it.           *)
Emitted(e) ==
  /\ output = [k \in 1 .. e |-> TrueByte(k)]
  /\ bitcnt <= Width + M - 1 + e * Byte
  /\ e = 0 \/ Width + M - 1 + (e - 1) * Byte < bitcnt

OutputInv ==
  /\ decoded = <<>> => \E e \in Nat : Emitted(e)
  /\ decoded # <<>> => bitcnt = Bits
  /\ FrameDecoded

(* What it takes: the oldest byte of the best path is the station's, and so *)
(* is all of the path to the state the station is in.                       *)
OldestRight ==
  SubSeq(state[Best(state)].path, 1, Byte) = SubSeq(TruePath(bitcnt), 1, Byte)
RestRight == state[Register(bitcnt)].path = TruePath(bitcnt)

(* When a byte comes out.                                                   *)
LEMMA WhenEmitted ==
  ASSUME NEW e \in Nat, NEW t \in Nat,
         t <= Width + M - 1 + e * Byte,
         e = 0 \/ Width + M - 1 + (e - 1) * Byte < t
  PROVE  ((t - M + 1) % Byte = 0 /\ t > Width) <=> t = Width + M - 1 + e * Byte
<1> PICK w \in 1 .. NumBytes : Width = w * Byte
  BY CodeFacts
<1>1. /\ Byte \in Nat \ {0} /\ w \in Nat /\ w >= 1 /\ M \in Nat /\ 2 <= M /\ M <= Byte
      /\ w * Byte \in Nat /\ e * Byte \in Nat
  <2>1. Byte \in Nat \ {0} /\ w \in Nat /\ w >= 1 /\ M \in Nat /\ 2 <= M /\ M <= Byte
    BY CodeFacts
  <2> QED BY <2>1
<1>2. ASSUME t = Width + M - 1 + e * Byte
      PROVE  (t - M + 1) % Byte = 0 /\ t > Width
  <2>1. t - M + 1 = Byte * (w + e) + 0
    <3>1. Byte * (w + e) = w * Byte + e * Byte
      BY <1>1
    <3> QED BY <3>1, <1>1, <1>2
  <2>2. t - M + 1 \in Nat /\ t > Width
    BY <1>1, <1>2
  <2>3. w + e \in Int /\ 0 \in 0 .. Byte - 1
    BY <1>1
  <2> DEFINE n == t - M + 1
             q == w + e
  <2> HIDE DEF n, q
  <2>4. n \in Nat /\ q \in Int /\ n = Byte * q + 0
    BY <2>1, <2>2, <2>3 DEF n, q
  <2>5. n % Byte = 0
    BY <2>3, <2>4, <1>1, DivOnly
  <2> QED BY <2>2, <2>5 DEF n
<1>3. ASSUME (t - M + 1) % Byte = 0, t > Width
      PROVE  t = Width + M - 1 + e * Byte
  <2> DEFINE n == t - M + 1
             q == n \div Byte
  <2>1. n \in Nat
    BY <1>1, <1>3
  <2>2. q \in Nat /\ n = Byte * q + (n % Byte)
    BY <2>1, <1>1, DivFacts
  <2>3. n = q * Byte
    BY <2>2, <1>1, <1>3
  <2> HIDE DEF q
  <2>4. q < w + e + 1
    <3>1. (w + e + 1) * Byte = w * Byte + e * Byte + Byte
      BY <1>1
    <3>2. q * Byte < (w + e + 1) * Byte
      BY <3>1, <2>3, <1>1
    <3>3. w + e + 1 \in Int
      BY <1>1
    <3> QED BY <3>2, <3>3, <2>2, <1>1, MulLess
  <2>5. w + e - 1 < q
    <3>1. (w + e - 1) * Byte = w * Byte + e * Byte - Byte
      BY <1>1
    <3>2. (w + e - 1) * Byte < q * Byte
      <4>1. CASE e = 0
        <5>1. n > w * Byte - Byte /\ e * Byte = 0
          BY <4>1, <1>1, <1>3
        <5> QED BY <5>1, <3>1, <2>3, <1>1
      <4>2. CASE Width + M - 1 + (e - 1) * Byte < t
        <5>1. (e - 1) * Byte = e * Byte - Byte
          BY <1>1
        <5> QED BY <5>1, <4>2, <3>1, <2>3, <1>1
      <4> QED BY <4>1, <4>2
    <3>3. w + e - 1 \in Int
      BY <1>1
    <3> QED BY <3>2, <3>3, <2>2, <1>1, MulLess
  <2>6. q = w + e
    BY <2>2, <2>4, <2>5, <1>1
  <2>7. (w + e) * Byte = w * Byte + e * Byte
    BY <1>1
  <2> QED BY <2>3, <2>6, <2>7, <1>1
<1> QED BY <1>2, <1>3

(* At the end only the last bytes of the path have not come out.            *)
LEMMA WhenFlushed ==
  ASSUME NEW e \in Nat, Bits <= Width + M - 1 + e * Byte,
         e = 0 \/ Width + M - 1 + (e - 1) * Byte < Bits
  PROVE  Width \div Byte \in Nat /\ Width = (Width \div Byte) * Byte
         /\ NumBytes = e + Width \div Byte
<1> PICK w \in 1 .. NumBytes : Width = w * Byte
  BY CodeFacts
<1>1. /\ Byte \in Nat \ {0} /\ w \in Nat /\ w >= 1 /\ M \in Nat /\ 2 <= M /\ M <= Byte
      /\ w * Byte \in Nat /\ e * Byte \in Nat /\ NumBytes \in Nat /\ NumBytes * Byte \in Nat
      /\ w <= NumBytes
  <2>1. Byte \in Nat \ {0} /\ w \in Nat /\ w >= 1 /\ M \in Nat /\ 2 <= M /\ M <= Byte
        /\ NumBytes \in Nat /\ w <= NumBytes
    BY CodeFacts
  <2> QED BY <2>1
<1>2. Width \div Byte = w
  <2>1. Width \in Nat /\ Width = Byte * w + 0 /\ w \in Int /\ 0 \in 0 .. Byte - 1
    BY <1>1
  <2> QED BY <2>1, <1>1, DivOnly
<1>3. NumBytes < w + e + 1
  <2>1. (w + e + 1) * Byte = w * Byte + e * Byte + Byte
    BY <1>1
  <2>2. NumBytes * Byte < (w + e + 1) * Byte
    BY <2>1, <1>1 DEF Bits
  <2>3. w + e + 1 \in Int
    BY <1>1
  <2> QED BY <2>2, <2>3, <1>1, MulLess
<1>4. w + e - 1 < NumBytes
  <2>1. CASE e = 0
    BY <2>1, <1>1
  <2>2. CASE Width + M - 1 + (e - 1) * Byte < Bits
    <3>1. (w + e - 1) * Byte = w * Byte + e * Byte - Byte /\ (e - 1) * Byte = e * Byte - Byte
      BY <1>1
    <3>2. (w + e - 1) * Byte < NumBytes * Byte
      BY <3>1, <2>2, <1>1 DEF Bits
    <3>3. w + e - 1 \in Int
      BY <1>1
    <3> QED BY <3>2, <3>3, <1>1, MulLess
  <2> QED BY <2>1, <2>2
<1> QED BY <1>1, <1>2, <1>3, <1>4

LEMMA ByteOut ==
  ASSUME data \in Data, NEW e \in Nat, NEW n \in Int, n = Width + M + e * Byte
  PROVE  SubSeq(TruePath(n), 1, Byte) = TrueByte(e + 1)
<1> DEFINE p == TruePath(n)
           s == SubSeq(p, 1, Byte)
<1>1. Byte \in Nat /\ Width \in Nat /\ Byte <= Width /\ M \in Nat /\ e * Byte \in Int
  BY CodeFacts
<1>2. p \in [1 .. Width -> {0, 1}]
  BY RegisterType
<1>3. \A i \in 1 .. Width : p[i] = Encoded(n - M - Width + i - 1)
  BY DEF TruePath
<1> HIDE DEF p
<1>4. s = [i \in 1 .. Byte |-> p[i]]
  BY <1>1, <1>2
<1>5. ASSUME NEW i \in 1 .. Byte
      PROVE  p[i] = Encoded((e + 1 - 1) * Byte + i - 1)
  <2>1. n - M - Width + i - 1 = (e + 1 - 1) * Byte + i - 1
    <3>1. e + 1 - 1 = e
      OBVIOUS
    <3> QED BY <3>1, <1>1
  <2>2. i \in 1 .. Width
    BY <1>1
  <2> QED BY <1>3, <2>1, <2>2
<1> HIDE DEF s
<1>6. s = [i \in 1 .. Byte |-> Encoded((e + 1 - 1) * Byte + i - 1)]
  BY <1>4, <1>5
<1> QED BY <1>6 DEF s, p, TrueByte

LEMMA OneMore ==
  ASSUME NEW e \in Nat
  PROVE  Append([k \in 1 .. e |-> TrueByte(k)], TrueByte(e + 1)) = [k \in 1 .. e + 1 |-> TrueByte(k)]
<1> DEFINE s == [k \in 1 .. e |-> TrueByte(k)]
           t == [k \in 1 .. e + 1 |-> TrueByte(k)]
           B == {TrueByte(k) : k \in 1 .. e + 1}
<1>1. \A k \in 1 .. e + 1 : TrueByte(k) \in B
  OBVIOUS
<1>2. /\ s \in Seq(B) /\ Len(s) = e /\ \A k \in 1 .. e : s[k] = TrueByte(k)
      /\ t \in Seq(B) /\ Len(t) = e + 1 /\ \A k \in 1 .. e + 1 : t[k] = TrueByte(k)
  <2> HIDE DEF B
  <2> QED BY <1>1
<1>3. TrueByte(e + 1) \in B
  BY <1>1
<1> DEFINE u == Append(s, TrueByte(e + 1))
<1> HIDE DEF s, t, B
<1>4. u \in Seq(B) /\ Len(u) = e + 1 /\ u[e + 1] = TrueByte(e + 1)
      /\ \A k \in 1 .. e : u[k] = s[k]
  BY <1>2, <1>3, AppendProperties
<1>5. \A k \in 1 .. e + 1 : u[k] = t[k]
  <2> TAKE k \in 1 .. e + 1
  <2>1. k = e + 1 \/ k \in 1 .. e
    OBVIOUS
  <2> QED BY <2>1, <1>2, <1>4
<1> HIDE DEF u
<1>6. u = t
  BY <1>2, <1>4, <1>5, SeqEqual
<1> QED BY <1>6 DEF u, s, t

(* A step of the decoder.                                                   *)
LEMMA SymbolsEmit ==
  ASSUME CodeInv, OutputInv, symbols, OldestRight', decoded = <<>>
  PROVE  \E e \in Nat : Emitted(e)'
<1>1. PICK x \in {0, 1}, y \in {0, 1} :
        /\ step((SentPair(bitcnt) \div 2 + x) % 2, (SentPair(bitcnt) + y) % 2)
        /\ UNCHANGED <<decoded, data>>
  BY DEF symbols
<1> DEFINE left == SubSeq(state'[Best(state')].path, 1, Byte)
<1>2. bitcnt \in Nat /\ data \in Data
  BY CodeFacts DEF CodeInv
<1>3. PICK e \in Nat : Emitted(e)
  BY DEF OutputInv
<1>4. /\ output = [k \in 1 .. e |-> TrueByte(k)]
      /\ bitcnt <= Width + M - 1 + e * Byte
      /\ e = 0 \/ Width + M - 1 + (e - 1) * Byte < bitcnt
  BY <1>3 DEF Emitted
<1>5. /\ bitcnt' = bitcnt + 1
      /\ output' = IF (bitcnt - M + 1) % Byte = 0 /\ bitcnt > Width
                   THEN Append(output, left) ELSE output
  BY <1>1 DEF step
<1>6. ((bitcnt - M + 1) % Byte = 0 /\ bitcnt > Width) <=> bitcnt = Width + M - 1 + e * Byte
  BY <1>2, <1>4, WhenEmitted
<1>9. left = SubSeq(TruePath(bitcnt + 1), 1, Byte)
  <2>1. left = SubSeq(TruePath(bitcnt)', 1, Byte)
    BY DEF OldestRight
  <2>2. TruePath(bitcnt)' = TruePath(bitcnt + 1)
    BY <1>1, <1>5 DEF TruePath, Encoded
  <2> QED BY <2>1, <2>2
<1> HIDE DEF left
<1>10. /\ (\A k : TrueByte(k)' = TrueByte(k))
  BY <1>1 DEF TrueByte, Encoded
<1>11. e * Byte \in Nat /\ (e + 1) * Byte = e * Byte + Byte /\ (e + 1 - 1) * Byte = e * Byte
       /\ (e - 1) * Byte = e * Byte - Byte
       /\ Byte \in Nat \ {0} /\ Width \in Nat /\ M \in Nat
  <2>1. Byte \in Nat \ {0} /\ Width \in Nat /\ M \in Nat /\ e + 1 - 1 = e
    BY CodeFacts
  <2> QED BY <2>1
<1>12. CASE bitcnt = Width + M - 1 + e * Byte
  <2> DEFINE n == bitcnt + 1
  <2>1. n \in Int /\ n = Width + M + e * Byte
    BY <1>2, <1>11, <1>12
  <2> HIDE DEF n
  <2>2. SubSeq(TruePath(n), 1, Byte) = TrueByte(e + 1)
    BY <1>2, <2>1, ByteOut
  <2>3. left = TrueByte(e + 1)
    BY <1>9, <2>2 DEF n
  <2>4. output' = [k \in 1 .. e + 1 |-> TrueByte(k)]
    BY <2>3, <1>4, <1>5, <1>6, <1>12, OneMore
  <2>5. Emitted(e + 1)'
    <3>1. output' = [k \in 1 .. e + 1 |-> TrueByte(k)']
      BY <2>4, <1>10
    <3>2. bitcnt' <= Width + M - 1 + (e + 1) * Byte
      BY <1>2, <1>5, <1>11, <1>12
    <3>3. Width + M - 1 + (e + 1 - 1) * Byte < bitcnt'
      BY <1>2, <1>5, <1>11, <1>12
    <3> QED BY <3>1, <3>2, <3>3 DEF Emitted
  <2>6. e + 1 \in Nat
    OBVIOUS
  <2> QED BY <2>5, <2>6
<1>13. CASE bitcnt # Width + M - 1 + e * Byte
  <2>1. output' = [k \in 1 .. e |-> TrueByte(k)']
    BY <1>4, <1>5, <1>6, <1>10, <1>13
  <2>2. bitcnt' <= Width + M - 1 + e * Byte
    BY <1>2, <1>4, <1>5, <1>11, <1>13
  <2>3. e = 0 \/ Width + M - 1 + (e - 1) * Byte < bitcnt'
    BY <1>2, <1>4, <1>5, <1>11
  <2>4. Emitted(e)'
    BY <2>1, <2>2, <2>3 DEF Emitted
  <2> QED BY <2>4
<1> QED BY <1>12, <1>13

(* The last bytes, out of the path of state 0 and the zeros behind it.      *)
LEMMA LastPath ==
  ASSUME CodeInv, RestRight, bitcnt = Bits
  PROVE  LET path == SubSeq(state[Zeros].path \o Zeros, M + 1, Width + M)
         IN  /\ path \in Seq({0, 1}) /\ Len(path) = Width
             /\ \A i \in 1 .. Width : path[i] = Encoded(Bits - Width + i - 1)
<1> DEFINE p == state[Zeros].path
           c == p \o Zeros
           path == SubSeq(c, M + 1, Width + M)
<1>1. Bits \in Nat /\ M \in Nat /\ Width \in Nat /\ data \in Data
  BY CodeFacts DEF CodeInv
<1>2. Register(Bits) = Zeros
  <2>1. \A i \in 1 .. M : Encoded(Bits - M + i - 1) = 0
    <3> TAKE i \in 1 .. M
    <3>1. Bits - M + i - 1 \in Int /\ Bits - M + i - 1 >= Bits - M
      BY <1>1
    <3> QED BY <1>1, <3>1, EncodedBit
  <2> QED BY <2>1 DEF Register, Zeros
<1>3. p = TruePath(Bits)
  BY <1>2 DEF RestRight
<1>4. p \in [1 .. Width -> {0, 1}] /\ \A i \in 1 .. Width : p[i] = Encoded(Bits - M - Width + i - 1)
  <2>1. Bits \in Int
    BY <1>1
  <2> QED BY <1>1, <1>3, <2>1, RegisterType DEF TruePath
<1>5. Zeros \in Seq({0, 1}) /\ Len(Zeros) = M /\ \A i \in 1 .. M : Zeros[i] = 0
  BY <1>1 DEF Zeros
<1> HIDE DEF p
<1>6. p \in Seq({0, 1}) /\ Len(p) = Width
  <2>1. p \in [1 .. Width -> {0, 1}]
    BY <1>4
  <2> QED BY <1>1, <2>1
<1>7. /\ c \in Seq({0, 1}) /\ Len(c) = Width + M
      /\ \A i \in 1 .. Width + M : c[i] = IF i <= Width THEN p[i] ELSE Zeros[i - Width]
  BY <1>1, <1>5, <1>6
<1> HIDE DEF c
<1>8. path \in Seq({0, 1}) /\ Len(path) = Width /\ \A i \in 1 .. Width : path[i] = c[M + i]
  BY <1>1, <1>7
<1>9. ASSUME NEW i \in 1 .. Width PROVE c[M + i] = Encoded(Bits - Width + i - 1)
  <2> DEFINE j == M + i
  <2>1. j \in 1 .. Width + M /\ j = M + i
    BY <1>1
  <2> HIDE DEF j
  <2>2. CASE j <= Width
    <3>1. j \in 1 .. Width /\ Bits - M - Width + j - 1 = Bits - Width + i - 1
      BY <1>1, <2>1, <2>2
    <3>2. c[j] = Encoded(Bits - M - Width + j - 1)
      BY <1>4, <1>7, <2>1, <2>2, <3>1
    <3> QED BY <2>1, <3>1, <3>2
  <2>3. CASE ~(j <= Width)
    <3>1. j - Width \in 1 .. M
      BY <1>1, <2>1, <2>3
    <3>2. c[j] = 0
      BY <1>5, <1>7, <2>1, <2>3, <3>1
    <3>3. Bits - Width + i - 1 \in Int /\ Bits - Width + i - 1 >= Bits - M
      BY <1>1, <2>1, <2>3
    <3>4. Encoded(Bits - Width + i - 1) = 0
      BY <1>1, <3>3, EncodedBit
    <3> QED BY <2>1, <3>2, <3>4
  <2> QED BY <2>2, <2>3
<1> HIDE DEF path
<1>10. \A i \in 1 .. Width : path[i] = Encoded(Bits - Width + i - 1)
  BY <1>8, <1>9
<1> QED BY <1>8, <1>10 DEF path, c, p

LEMMA FlushedIs ==
  ASSUME CodeInv, RestRight, bitcnt = Bits, NEW e \in Nat, NEW w \in Nat,
         Width \div Byte = w, Width = w * Byte, NumBytes = e + w
  PROVE  Flushed = [k \in 1 .. w |-> TrueByte(e + k)]
<1> DEFINE path == SubSeq(state[Zeros].path \o Zeros, M + 1, Width + M)
<1>1. /\ path \in Seq({0, 1}) /\ Len(path) = Width
      /\ \A i \in 1 .. Width : path[i] = Encoded(Bits - Width + i - 1)
  BY LastPath
<1>2. Flushed = [k \in 1 .. w |-> SubSeq(path, (k - 1) * Byte + 1, k * Byte)]
  BY DEF Flushed
<1> HIDE DEF path
<1>3. Byte \in Nat \ {0} /\ Width \in Nat /\ Bits \in Nat
  BY CodeFacts
<1>4. Bits - Width = e * Byte
  <2>1. (e + w) * Byte = e * Byte + w * Byte
    BY <1>3
  <2>2. e * Byte \in Int /\ w * Byte \in Int
    BY <1>3
  <2> QED BY <2>1, <2>2 DEF Bits
<1>5. ASSUME NEW k \in 1 .. w
      PROVE  SubSeq(path, (k - 1) * Byte + 1, k * Byte) = TrueByte(e + k)
  <2> DEFINE lo == (k - 1) * Byte
             hi == k * Byte
             s == SubSeq(path, lo + 1, hi)
  <2>1. lo \in Nat /\ hi = lo + Byte /\ hi <= Width
    <3>1. hi = lo + Byte
      BY <1>3
    <3>2. k - 1 \in Nat /\ (k - 1) * Byte \in Nat
      BY <1>3
    <3>3. (w - k) * Byte >= 0 /\ (w - k) * Byte = w * Byte - k * Byte
      BY <1>3
    <3>4. w * Byte \in Int /\ k * Byte \in Int
      BY <1>3
    <3> QED BY <3>1, <3>2, <3>3, <3>4
  <2>2. (e + k - 1) * Byte = e * Byte + lo
    <3>1. (e + (k - 1)) * Byte = e * Byte + (k - 1) * Byte
      BY <1>3
    <3>2. e + (k - 1) = e + k - 1
      OBVIOUS
    <3> QED BY <3>1, <3>2
  <2>3. e * Byte \in Int
    BY <1>3
  <2> HIDE DEF lo, hi
  <2>4. s = [j \in 1 .. Byte |-> path[lo + j]]
    <3>1. /\ s \in Seq({0, 1}) /\ Len(s) = Byte
          /\ \A j \in 1 .. Byte : s[j] = path[lo + j]
      BY <1>1, <1>3, <2>1
    <3> HIDE DEF s
    <3>2. s = [j \in 1 .. Byte |-> s[j]]
      BY <1>3, <3>1
    <3> QED BY <3>1, <3>2
  <2>5. ASSUME NEW j \in 1 .. Byte
        PROVE  path[lo + j] = Encoded((e + k - 1) * Byte + j - 1)
    <3> DEFINE i == lo + j
               d == (e + k - 1) * Byte
    <3>1. i \in 1 .. Width /\ i = lo + j
      BY <1>3, <2>1
    <3>2. d = e * Byte + lo
      BY <2>2
    <3> HIDE DEF i, d
    <3>3. Bits - Width + i - 1 = d + j - 1
      BY <1>3, <1>4, <2>1, <2>3, <3>1, <3>2
    <3>4. path[i] = Encoded(Bits - Width + i - 1)
      BY <1>1, <3>1
    <3>5. path[i] = Encoded(d + j - 1)
      BY <3>3, <3>4
    <3> QED BY <3>5 DEF i, d
  <2> HIDE DEF s
  <2>6. s = [j \in 1 .. Byte |-> Encoded((e + k - 1) * Byte + j - 1)]
    BY <2>4, <2>5
  <2> QED BY <2>6 DEF s, lo, hi, TrueByte
<1> QED BY <1>2, <1>5

LEMMA BytesJoined ==
  ASSUME NEW e \in Nat, NEW w \in Nat
  PROVE  [k \in 1 .. e |-> TrueByte(k)] \o [k \in 1 .. w |-> TrueByte(e + k)]
           = [k \in 1 .. e + w |-> TrueByte(k)]
<1> DEFINE s == [k \in 1 .. e |-> TrueByte(k)]
           t == [k \in 1 .. w |-> TrueByte(e + k)]
           u == [k \in 1 .. e + w |-> TrueByte(k)]
           B == {TrueByte(k) : k \in 1 .. e + w}
<1>1. \A k \in 1 .. e + w : TrueByte(k) \in B
  OBVIOUS
<1> HIDE DEF B
<1>2. s \in Seq(B) /\ Len(s) = e /\ \A k \in 1 .. e : s[k] = TrueByte(k)
  BY <1>1
<1>3. t \in Seq(B) /\ Len(t) = w /\ \A k \in 1 .. w : t[k] = TrueByte(e + k)
  <2>1. \A k \in 1 .. w : e + k \in 1 .. e + w
    OBVIOUS
  <2> QED BY <1>1, <2>1
<1>4. u \in Seq(B) /\ Len(u) = e + w /\ \A k \in 1 .. e + w : u[k] = TrueByte(k)
  BY <1>1
<1> DEFINE v == s \o t
<1> HIDE DEF s, t, u
<1>5. /\ v \in Seq(B) /\ Len(v) = e + w
      /\ \A i \in 1 .. e + w : v[i] = IF i <= e THEN s[i] ELSE t[i - e]
  BY <1>2, <1>3, ConcatProperties
<1>6. \A i \in 1 .. e + w : v[i] = u[i]
  <2> TAKE i \in 1 .. e + w
  <2>1. CASE i <= e
    <3>1. i \in 1 .. e
      BY <2>1
    <3> QED BY <2>1, <3>1, <1>2, <1>4, <1>5
  <2>2. CASE ~(i <= e)
    <3>1. i - e \in 1 .. w /\ e + (i - e) = i
      BY <2>2
    <3> QED BY <2>2, <3>1, <1>3, <1>4, <1>5
  <2> QED BY <2>1, <2>2
<1> HIDE DEF v
<1>7. v = u
  BY <1>4, <1>5, <1>6, SeqEqual
<1> QED BY <1>7 DEF v, s, t, u

LEMMA TrueByteBit ==
  ASSUME NEW k, NEW j \in 1 .. Byte
  PROVE  TrueByte(k)[j] = Encoded((k - 1) * Byte + j - 1)
BY Zenon DEF TrueByte

LEMMA DescrambledBit ==
  ASSUME NEW bytes, NEW k \in DOMAIN bytes, NEW b \in 1 .. Byte
  PROVE  descramble(bytes)[k][b] = (bytes[k][Byte + 1 - b] + ds((k - 1) \div Group)) % 2
BY Zenon DEF descramble

(* descramble() undoes what the station did, bit by bit.                    *)
LEMMA Descrambled ==
  ASSUME data \in Data, NEW n \in 0 .. Bits - M - 1
  PROVE  BitOf(descramble([k \in 1 .. NumBytes |-> TrueByte(k)]), n) = BitOf(data, n)
<1> DEFINE bytes == [k \in 1 .. NumBytes |-> TrueByte(k)]
           q == n \div Byte
           r == n % Byte
<1>1. n \in 0 .. Bits - 1 /\ ~(n < 0 \/ n >= Bits - M) /\ n \in Int
  BY CodeFacts
<1>2. q + 1 \in 1 .. NumBytes /\ r \in 0 .. Byte - 1 /\ n = q * Byte + r
      /\ BitOf(data, n) \in {0, 1}
  BY <1>1, CodeFacts, FrameBit
<1>3. n \div (Byte * Group) = q \div Group /\ q \div Group \in 0 .. Groups
  BY <1>1, GroupAt
<1>4. Byte \in Nat \ {0} /\ q \in Nat /\ q * Byte \in Int
  <2>1. Byte \in Nat \ {0} /\ n \in Nat
    BY <1>1, CodeFacts
  <2>2. q \in Nat
    BY <2>1, DivFacts
  <2> QED BY <2>1, <2>2
<1>5. Encoded(n) = (BitOf(data, n) + ds(q \div Group)) % 2
  BY <1>1, <1>3 DEF Encoded
<1>6. ds(q \div Group) \in {0, 1}
  BY <1>3, ScramblerType
<1>7. BitOf(descramble(bytes), n) = descramble(bytes)[q + 1][Byte - r]
  BY DEF BitOf
<1>8. BitOf(data, n) = (((BitOf(data, n) + ds(q \div Group)) % 2) + ds(q \div Group)) % 2
  BY <1>2, <1>6, SumBit
<1> HIDE DEF q, r
<1>9. DOMAIN bytes = 1 .. NumBytes /\ bytes[q + 1] = TrueByte(q + 1)
  BY <1>2
<1> DEFINE k == q + 1
           i == r + 1
           b == Byte - r
<1>10. /\ k \in 1 .. NumBytes /\ i \in 1 .. Byte /\ b \in 1 .. Byte
       /\ k - 1 = q /\ Byte + 1 - b = i /\ (k - 1) * Byte + i - 1 = n
  <2>1. k - 1 = q
    BY <1>4
  <2>2. (k - 1) * Byte + i - 1 = n
    BY <2>1, <1>2, <1>4
  <2> QED BY <2>1, <2>2, <1>2, <1>4
<1>11. /\ bytes[k] = TrueByte(k) /\ k \in DOMAIN bytes
       /\ BitOf(descramble(bytes), n) = descramble(bytes)[k][b]
  BY <1>7, <1>9, <1>10
<1> HIDE DEF k, i, b
<1>12. TrueByte(k)[i] = Encoded(n)
  BY <1>10, TrueByteBit
<1>13. descramble(bytes)[k][b] = (bytes[k][i] + ds(q \div Group)) % 2
  <2>1. descramble(bytes)[k][b] = (bytes[k][Byte + 1 - b] + ds((k - 1) \div Group)) % 2
    BY <1>10, <1>11, DescrambledBit
  <2> QED BY <2>1, <1>10
<1> QED BY <1>5, <1>8, <1>11, <1>12, <1>13 DEF bytes

LEMMA FinishOutput ==
  ASSUME CodeInv, OutputInv, RestRight, finish
  PROVE  decoded' = descramble([k \in 1 .. NumBytes |-> TrueByte(k)])
<1>1. bitcnt = Bits /\ decoded = <<>> /\ output' = output \o Flushed
      /\ decoded' = descramble(output')
  BY DEF finish
<1>2. PICK e \in Nat : Emitted(e)
  BY <1>1 DEF OutputInv
<1>3. /\ output = [k \in 1 .. e |-> TrueByte(k)]
      /\ Bits <= Width + M - 1 + e * Byte
      /\ e = 0 \/ Width + M - 1 + (e - 1) * Byte < Bits
  BY <1>1, <1>2 DEF Emitted
<1> DEFINE w == Width \div Byte
<1>4. w \in Nat /\ Width = w * Byte /\ NumBytes = e + w
  BY <1>3, WhenFlushed
<1>5. Flushed = [k \in 1 .. w |-> TrueByte(e + k)]
  BY <1>1, <1>4, FlushedIs
<1> HIDE DEF w
<1>6. output' = [k \in 1 .. e + w |-> TrueByte(k)]
  BY <1>1, <1>3, <1>4, <1>5, BytesJoined
<1> QED BY <1>1, <1>4, <1>6

LEMMA OutputNext ==
  ASSUME CodeInv, OutputInv, RestRight, OldestRight', [CodeNext]_codeVars
  PROVE  OutputInv'
<1> SUFFICES /\ decoded' = <<>> => \E e \in Nat : Emitted(e)'
             /\ decoded' # <<>> => bitcnt' = Bits
             /\ FrameDecoded'
  BY DEF OutputInv
<1>1. CASE UNCHANGED codeVars
  <2>1. \A e : Emitted(e)' <=> Emitted(e)
    BY <1>1 DEF codeVars, Emitted, TrueByte, Encoded
  <2>2. FrameDecoded' <=> FrameDecoded
    BY <1>1 DEF codeVars, FrameDecoded
  <2> QED BY <2>1, <2>2, <1>1 DEF codeVars, OutputInv
<1>2. CASE symbols
  <2>1. bitcnt < Bits /\ decoded' = decoded /\ data' = data
    BY <1>2 DEF symbols, step
  <2>2. decoded = <<>>
    BY <2>1, CodeFacts DEF OutputInv
  <2>3. \E e \in Nat : Emitted(e)'
    BY <1>2, <2>2, SymbolsEmit
  <2> QED BY <2>1, <2>2, <2>3 DEF FrameDecoded
<1>3. CASE finish
  <2>1. data' = data /\ bitcnt' = bitcnt /\ bitcnt = Bits
    BY <1>3 DEF finish
  <2> DEFINE f == descramble([k \in 1 .. NumBytes |-> TrueByte(k)])
  <2>2. decoded' = f
    BY <1>3, FinishOutput
  <2>3. Len(f) = NumBytes /\ f # <<>>
    <3>1. NumBytes \in Nat /\ NumBytes >= 1
      BY CodeFacts
    <3> DEFINE bytes == [k \in 1 .. NumBytes |-> TrueByte(k)]
               g(k) == [b \in 1 .. Byte |-> (bytes[k][Byte + 1 - b] + ds((k - 1) \div Group)) % 2]
    <3>2. DOMAIN bytes = 1 .. NumBytes
      OBVIOUS
    <3>3. f = [k \in 1 .. NumBytes |-> g(k)]
      BY <3>2 DEF descramble
    <3> HIDE DEF f, g
    <3>4. Len(f) = NumBytes
      BY <3>1, <3>3
    <3>5. Len(<<>>) = 0
      OBVIOUS
    <3> QED BY <3>1, <3>4, <3>5
  <2>4. \A n \in 0 .. Bits - M - 1 : BitOf(f, n) = BitOf(data, n)
    BY Descrambled DEF CodeInv
  <2> HIDE DEF f
  <2>5. FrameDecoded'
    BY <2>1, <2>2, <2>3, <2>4 DEF FrameDecoded, BitOf
  <2> QED BY <2>1, <2>2, <2>3, <2>5
<1> QED BY <1>1, <1>2, <1>3 DEF CodeNext

LEMMA OutputInit == CodeInit => OutputInv
<1> SUFFICES ASSUME CodeInit PROVE OutputInv
  OBVIOUS
<1>1. bitcnt = 0 /\ output = <<>> /\ decoded = <<>>
  BY DEF CodeInit
<1>2. Emitted(0)
  <2>1. output = [k \in 1 .. 0 |-> TrueByte(k)]
    BY <1>1
  <2>2. 0 <= Width + M - 1 + 0 * Byte
    <3>1. Width \in Nat /\ M \in Nat /\ M >= 2 /\ Byte \in Nat
      BY CodeFacts
    <3>2. 0 * Byte = 0
      BY <3>1
    <3> QED BY <3>1, <3>2
  <2> QED BY <1>1, <2>1, <2>2 DEF Emitted
<1> QED BY <1>1, <1>2 DEF OutputInv, FrameDecoded

LEMMA BestIs ==
  ASSUME NEW st \in PathStates, NEW r \in States, st[r].metric >= 0,
         \A n \in States : n # r => st[n].metric <= -2
  PROVE  Best(st) = r
<1> DEFINE P(i) == \A j \in States \ {i} :
              st[j].metric < st[i].metric \/ (st[j].metric = st[i].metric /\ Lower(i, j))
<1>1. \A n \in States : st[n].metric \in Int
  BY DEF PathStates
<1>2. P(r)
  BY <1>1
<1>3. ASSUME NEW i \in States, P(i) PROVE i = r
  <2> SUFFICES ASSUME i # r PROVE FALSE
    OBVIOUS
  <2>1. r \in States \ {i}
    OBVIOUS
  <2>2. st[r].metric <= st[i].metric
    BY <1>1, <1>3, <2>1
  <2> QED BY <1>1, <2>2
<1>4. Best(st) = CHOOSE i \in States : P(i)
  BY DEF Best
<1> HIDE DEF P
<1> QED BY <1>2, <1>3, <1>4

LEMMA CleanRight == CodeInv => (wrong = 0 => OldestRight /\ RestRight)
<1> SUFFICES ASSUME CodeInv, wrong = 0 PROVE OldestRight /\ RestRight
  OBVIOUS
<1> DEFINE r == Register(bitcnt)
<1>1. state \in PathStates /\ data \in Data /\ bitcnt \in Int
  BY CodeFacts DEF CodeInv
<1>2. r \in States
  BY <1>1, RegisterType
<1>3. state[r].metric >= 0 /\ \A n \in States : n # r => state[n].metric <= -2
  BY DEF CodeInv
<1>4. state[r].path = TruePath(bitcnt)
  BY DEF CodeInv
<1> HIDE DEF r
<1>5. Best(state) = r
  BY <1>1, <1>2, <1>3, BestIs
<1> QED BY <1>4, <1>5 DEF OldestRight, RestRight, r

(* For every code of this form, every frame and every length: a frame that  *)
(* is received without an error is decoded, each byte put out once, at its  *)
(* step, and unscrambled with its own bit of the scrambler.                 *)
THEOREM CleanFrameDecoded == CodeSpec => [](wrong = 0 => FrameDecoded)
<1> DEFINE Right == wrong = 0 => OldestRight /\ RestRight
           CleanInv == wrong = 0 => OutputInv
<1>1. CodeInit => CleanInv
  BY OutputInit
<1>2. CodeInv /\ Right /\ Right' /\ CleanInv /\ [CodeNext]_codeVars => CleanInv'
  <2> SUFFICES ASSUME CodeInv, Right, Right', CleanInv, [CodeNext]_codeVars, wrong' = 0
               PROVE  OutputInv'
    OBVIOUS
  <2>1. wrong = 0
    <3>1. wrong \in Nat
      BY CodeFacts DEF CodeInv
    <3>2. CASE symbols
      BY <3>1, <3>2 DEF symbols
    <3>3. CASE finish \/ UNCHANGED codeVars
      BY <3>3 DEF finish, codeVars
    <3> QED BY <3>2, <3>3 DEF CodeNext
  <2>2. OutputInv /\ RestRight /\ OldestRight'
    BY <2>1
  <2> QED BY <2>2, OutputNext
<1>3. CleanInv => (wrong = 0 => FrameDecoded)
  BY DEF OutputInv
<1>4. CodeInv => Right
  BY CleanRight
<1> HIDE DEF Right, CleanInv
<1> QED BY <1>1, <1>2, <1>3, <1>4, CodeInvariant, PTL DEF CodeSpec

-----------------------------------------------------------------------------
(* Wrong symbols: what the code must be like for MaxWrong of them.          *)

LEMMA ApartFacts ==
  ASSUME NEW p \in 0 .. 3, NEW q \in 0 .. 3, NEW x \in {0, 1}, NEW y \in {0, 1}
  PROVE  /\ Apart(p, q) \in 0 .. 2
         /\ mets(q, (p \div 2 + x) % 2, (p + y) % 2) <= x + y - Apart(p, q)
<1>1. p = 0 \/ p = 1 \/ p = 2 \/ p = 3
  OBVIOUS
<1>2. q = 0 \/ q = 1 \/ q = 2 \/ q = 3
  OBVIOUS
<1>3. x = 0 \/ x = 1
  OBVIOUS
<1>4. y = 0 \/ y = 1
  OBVIOUS
<1>5. CASE p = 0
  BY <1>2, <1>3, <1>4, <1>5 DEF Apart, mets, Miss
<1>6. CASE p = 1
  BY <1>2, <1>3, <1>4, <1>6 DEF Apart, mets, Miss
<1>7. CASE p = 2
  BY <1>2, <1>3, <1>4, <1>7 DEF Apart, mets, Miss
<1>8. CASE p = 3
  BY <1>2, <1>3, <1>4, <1>8 DEF Apart, mets, Miss
<1> QED BY <1>1, <1>5, <1>6, <1>7, <1>8

(* A best state exists: of the finitely many metrics one is the highest,    *)
(* and of the states that have it one has the lowest number.                *)
LowerWithin(i, j, k) ==
  \/ \A l \in 1 .. k : i[l] = j[l]
  \/ \E m \in 1 .. k : i[m] < j[m] /\ \A l \in 1 .. m - 1 : i[l] = j[l]

LEMMA LowestFurther ==
  ASSUME NEW T \in SUBSET States, NEW k \in 0 .. M - 1,
         \E i \in T : \A j \in T : LowerWithin(i, j, k)
  PROVE  \E i \in T : \A j \in T : LowerWithin(i, j, k + 1)
<1> PICK i \in T : \A j \in T : LowerWithin(i, j, k)
  OBVIOUS
<1>1. k \in Nat /\ k + 1 \in 1 .. M /\ \A l \in 1 .. k + 1 : l \in 1 .. k \/ l = k + 1
  BY CodeFacts
<1>2. \A j \in T : j[k + 1] \in {0, 1}
  BY <1>1 DEF States
<1>3. CASE \E s \in T : (\A l \in 1 .. k : i[l] = s[l]) /\ s[k + 1] = 0
  <2>1. PICK s \in T : (\A l \in 1 .. k : i[l] = s[l]) /\ s[k + 1] = 0
    BY <1>3
  <2>2. ASSUME NEW j \in T PROVE LowerWithin(s, j, k + 1)
    <3>1. CASE \A l \in 1 .. k : i[l] = j[l]
      <4>1. \A l \in 1 .. k : s[l] = j[l]
        BY <2>1, <3>1
      <4>2. CASE j[k + 1] = 0
        <5>1. \A l \in 1 .. k + 1 : s[l] = j[l]
          BY <1>1, <2>1, <4>1, <4>2
        <5> QED BY <5>1 DEF LowerWithin
      <4>3. CASE j[k + 1] = 1
        <5> DEFINE m == k + 1
        <5>1. m \in 1 .. k + 1 /\ s[m] < j[m]
          BY <1>1, <2>1, <4>3
        <5>2. \A l \in 1 .. m - 1 : s[l] = j[l]
          BY <1>1, <4>1
        <5> HIDE DEF m
        <5> QED BY <5>1, <5>2 DEF LowerWithin
      <4> QED BY <1>2, <4>2, <4>3
    <3>2. CASE \E m \in 1 .. k : i[m] < j[m] /\ \A l \in 1 .. m - 1 : i[l] = j[l]
      <4>1. PICK m \in 1 .. k : i[m] < j[m] /\ \A l \in 1 .. m - 1 : i[l] = j[l]
        BY <3>2
      <4>2. s[m] < j[m] /\ m \in 1 .. k + 1
        BY <1>1, <2>1, <4>1
      <4>3. \A l \in 1 .. m - 1 : l \in 1 .. k
        BY <1>1
      <4>4. \A l \in 1 .. m - 1 : s[l] = j[l]
        BY <2>1, <4>1, <4>3
      <4> QED BY <4>2, <4>4 DEF LowerWithin
    <3> QED BY <3>1, <3>2 DEF LowerWithin
  <2> QED BY <2>2
<1>4. CASE ~ \E s \in T : (\A l \in 1 .. k : i[l] = s[l]) /\ s[k + 1] = 0
  <2>1. ASSUME NEW j \in T PROVE LowerWithin(i, j, k + 1)
    <3>1. CASE \A l \in 1 .. k : i[l] = j[l]
      <4>1. j[k + 1] = 1 /\ i[k + 1] = 1
        BY <1>2, <1>4, <3>1
      <4>2. \A l \in 1 .. k + 1 : i[l] = j[l]
        BY <1>1, <3>1, <4>1
      <4> QED BY <4>2 DEF LowerWithin
    <3>2. CASE \E m \in 1 .. k : i[m] < j[m] /\ \A l \in 1 .. m - 1 : i[l] = j[l]
      <4>1. PICK m \in 1 .. k : i[m] < j[m] /\ \A l \in 1 .. m - 1 : i[l] = j[l]
        BY <3>2
      <4>2. m \in 1 .. k + 1
        BY <1>1
      <4> QED BY <4>1, <4>2 DEF LowerWithin
    <3> QED BY <3>1, <3>2 DEF LowerWithin
  <2> QED BY <2>1
<1> QED BY <1>3, <1>4

LEMMA LowestExists ==
  ASSUME NEW T \in SUBSET States, T # {}
  PROVE  \E i \in T : \A j \in T \ {i} : Lower(i, j)
<1> DEFINE S == {k \in 0 .. M : ~ \E i \in T : \A j \in T : LowerWithin(i, j, k)}
<1>1. S = {}
  <2> SUFFICES ASSUME S # {} PROVE FALSE
    OBVIOUS
  <2>1. S \in SUBSET Nat
    BY CodeFacts
  <2> HIDE DEF S
  <2>2. PICK k \in S : \A y \in S : k <= y
    BY <2>1, LeastOf
  <2>3. k \in 0 .. M /\ ~ \E i \in T : \A j \in T : LowerWithin(i, j, k)
    BY DEF S
  <2>4. k # 0
    <3>1. \A i, j : LowerWithin(i, j, 0)
      BY DEF LowerWithin
    <3> QED BY <2>3, <3>1
  <2>5. k - 1 \in 0 .. M - 1 /\ k - 1 \in 0 .. M /\ k - 1 \notin S /\ (k - 1) + 1 = k
    BY <2>1, <2>2, <2>3, <2>4, CodeFacts
  <2>6. \E i \in T : \A j \in T : LowerWithin(i, j, k - 1)
    BY <2>5 DEF S
  <2>7. \E i \in T : \A j \in T : LowerWithin(i, j, (k - 1) + 1)
    BY <2>5, <2>6, LowestFurther
  <2> QED BY <2>3, <2>5, <2>7
<1>2. M \in 0 .. M
  BY CodeFacts
<1>3. PICK i \in T : \A j \in T : LowerWithin(i, j, M)
  BY <1>1, <1>2
<1>4. ASSUME NEW j \in T \ {i} PROVE Lower(i, j)
  <2>1. CASE \A l \in 1 .. M : i[l] = j[l]
    <3>1. i = [l \in 1 .. M |-> i[l]] /\ j = [l \in 1 .. M |-> j[l]]
      BY DEF States
    <3>2. i = j
      BY <2>1, <3>1, Zenon
    <3> QED BY <3>2
  <2>2. CASE \E m \in 1 .. M : i[m] < j[m] /\ \A l \in 1 .. m - 1 : i[l] = j[l]
    BY <2>2 DEF Lower
  <2> QED BY <1>3, <2>1, <2>2 DEF LowerWithin
<1> QED BY <1>4

LEMMA BestFacts ==
  ASSUME NEW st \in PathStates, \A n \in States : st[n].metric <= 0
  PROVE  Best(st) \in States /\ \A n \in States : st[n].metric <= st[Best(st)].metric
<1> DEFINE P(i) == \A j \in States \ {i} :
              st[j].metric < st[i].metric \/ (st[j].metric = st[i].metric /\ Lower(i, j))
           V == {-st[n].metric : n \in States}
<1>1. \A n \in States : st[n].metric \in Int
  BY DEF PathStates
<1>2. V \in SUBSET Nat
  BY <1>1
<1>3. V # {}
  <2>1. Zeros \in States
    BY DEF Zeros, States
  <2> QED BY <2>1
<1>4. PICK v \in V : \A y \in V : v <= y
  BY <1>2, <1>3, LeastOf
<1> DEFINE T == {n \in States : -st[n].metric = v}
<1>5. T # {} /\ T \in SUBSET States
  BY <1>4
<1>6. PICK i \in T : \A j \in T \ {i} : Lower(i, j)
  BY <1>5, LowestExists
<1>7. i \in States /\ -st[i].metric = v /\ \A n \in States : v <= -st[n].metric
  BY <1>4
<1>8. P(i)
  <2> SUFFICES ASSUME NEW j \in States \ {i}, ~(st[j].metric < st[i].metric)
               PROVE  st[j].metric = st[i].metric /\ Lower(i, j)
    OBVIOUS
  <2>1. st[j].metric \in Int /\ st[i].metric \in Int /\ -st[i].metric <= -st[j].metric
    BY <1>1, <1>7
  <2>2. st[j].metric = st[i].metric
    BY <2>1
  <2> QED BY <2>2, <1>6, <1>7
<1>9. Best(st) = CHOOSE n \in States : P(n)
  BY DEF Best
<1> HIDE DEF V, T
<1>10. Best(st) \in States /\ P(Best(st))
  <2> HIDE DEF P
  <2> QED BY <1>7, <1>8, <1>9
<1>11. ASSUME NEW n \in States PROVE st[n].metric <= st[Best(st)].metric
  <2> DEFINE b == Best(st)
  <2>1. n = b \/ st[n].metric < st[b].metric \/ st[n].metric = st[b].metric
    BY <1>10
  <2>2. st[n].metric \in Int /\ st[b].metric \in Int
    BY <1>1, <1>10
  <2> HIDE DEF b
  <2>3. st[n].metric <= st[b].metric
    BY <2>1, <2>2
  <2> QED BY <2>3 DEF b
<1> QED BY <1>10, <1>11

(* The bits of the path to a state: those the path remembers, then those    *)
(* still in the register.  They follow the station's but for the last a.    *)
HeldBit(n, i) == IF i <= Width THEN state[n].path[i] ELSE n[i - Width]
Follows(n, a) ==
  \A i \in 1 .. Width + M - a : HeldBit(n, i) = Encoded(bitcnt - M - Width + i - 1)

(* Every path has not left the station's, or left it at most Span steps ago *)
(* and misses what the gap says, or misses too much.                        *)
GapInv(Gap) ==
  \A n \in States :
    \/ Follows(n, 0)
    \/ \E a \in 1 .. Span : Follows(n, a) /\ state[n].metric <= wrong - Gap[a][Register(bitcnt)][n]
    \/ state[n].metric <= wrong - Enough

LEMMA SpanFacts ==
  /\ Span \in Nat /\ 1 <= Span /\ Enough \in Nat
  /\ Enough = 2 * MaxWrong + 1 /\ Span = Width + M - Byte
<1>1. /\ M \in Nat /\ 2 <= M /\ Byte \in Nat /\ Width \in Nat /\ Byte <= Width
      /\ MaxWrong \in Nat
  BY CodeFacts
<1> QED BY <1>1 DEF Span, Enough

LEMMA AfterBefore ==
  ASSUME NEW n \in States, NEW left \in {0, 1}
  PROVE  After(Before(n, left), n[M]) = n
<1>1. n = [i \in 1 .. M |-> n[i]]
  BY DEF States
<1>2. ASSUME NEW i \in 1 .. M
      PROVE  (IF i = M THEN n[M] ELSE Before(n, left)[i + 1]) = n[i]
  <2>1. CASE i = M
    BY <2>1
  <2>2. CASE i # M
    <3>1. i + 1 \in 1 .. M /\ i + 1 # 1 /\ (i + 1) - 1 = i
      BY <2>2, CodeFacts
    <3>2. Before(n, left)[i + 1] = n[i]
      BY <3>1 DEF Before
    <3> QED BY <2>2, <3>2
  <2> QED BY <2>1, <2>2
<1>3. After(Before(n, left), n[M]) = [i \in 1 .. M |-> n[i]]
  BY <1>2 DEF After
<1> QED BY <1>1, <1>3

(* A survivor holds the bits of the path it continues, and the new one.     *)
LEMMA HeldMoves ==
  ASSUME state \in PathStates, NEW n \in States, NEW left \in {0, 1}, NEW p,
         p = Append(Tail(state[Before(n, left)].path), left),
         NEW i \in 1 .. Width + M - 1
  PROVE  (IF i <= Width THEN p[i] ELSE n[i - Width]) = HeldBit(Before(n, left), i + 1)
<1> DEFINE q == Before(n, left)
           s == state[q].path
<1>1. Width \in Nat /\ Width >= 1 /\ M \in Nat /\ 2 <= M
  BY CodeFacts
<1>2. q \in States /\ q[1] = left
  BY BeforeFacts
<1>3. s \in [1 .. Width -> {0, 1}]
  BY <1>2 DEF PathStates
<1>4. \A j \in 1 .. M : j # 1 => q[j] = n[j - 1]
  BY DEF Before
<1> DEFINE k == i + 1
<1>5. HeldBit(q, k) = IF k <= Width THEN s[k] ELSE q[k - Width]
  BY Zenon DEF HeldBit
<1>6. p = [j \in 1 .. Width |-> IF j = Width THEN left ELSE s[j + 1]]
  BY <1>3, NextPath
<1> HIDE DEF q, s, k
<1>7. k = i + 1 /\ k \in Int
  BY DEF k
<1>8. CASE i < Width
  <2>1. i \in 1 .. Width /\ i # Width /\ k <= Width /\ i <= Width
    BY <1>1, <1>7, <1>8
  <2>2. p[i] = s[k]
    BY <1>6, <1>7, <2>1
  <2>3. HeldBit(q, k) = s[k]
    BY <1>5, <2>1
  <2>4. (IF i <= Width THEN p[i] ELSE n[i - Width]) = HeldBit(q, k)
    BY <2>1, <2>2, <2>3
  <2> QED BY <2>4 DEF q, k
<1>9. CASE i = Width
  <2>1. i \in 1 .. Width /\ ~(k <= Width) /\ i <= Width /\ k - Width = 1
    BY <1>1, <1>7, <1>9
  <2>2. p[i] = left
    BY <1>6, <1>9, <2>1
  <2>3. HeldBit(q, k) = q[1]
    BY <1>5, <2>1
  <2>4. (IF i <= Width THEN p[i] ELSE n[i - Width]) = HeldBit(q, k)
    BY <1>2, <2>1, <2>2, <2>3
  <2> QED BY <2>4 DEF q, k
<1>10. CASE i > Width
  <2> DEFINE j == k - Width
  <2>1. j \in 1 .. M /\ j # 1 /\ j - 1 = i - Width /\ ~(i <= Width) /\ ~(k <= Width)
    BY <1>1, <1>7, <1>10
  <2>2. HeldBit(q, k) = q[j]
    BY <1>5, <2>1
  <2> HIDE DEF j
  <2>3. q[j] = n[j - 1]
    BY <1>4, <2>1
  <2>4. (IF i <= Width THEN p[i] ELSE n[i - Width]) = HeldBit(q, k)
    BY <2>1, <2>2, <2>3
  <2> QED BY <2>4 DEF q, k
<1>11. i < Width \/ i = Width \/ i > Width
  BY <1>1
<1> QED BY <1>8, <1>9, <1>10, <1>11, Zenon

(* A path that follows the station's wholly is the station's.               *)
LEMMA FollowsWholly ==
  ASSUME CodeInv, NEW n \in States, Follows(n, 0)
  PROVE  n = Register(bitcnt) /\ state[n].path = TruePath(bitcnt)
<1>1. Width \in Nat /\ M \in Nat /\ bitcnt \in Int
  BY CodeFacts DEF CodeInv
<1>2. \A i \in 1 .. Width + M : HeldBit(n, i) = Encoded(bitcnt - M - Width + i - 1)
  <2>1. Width + M - 0 = Width + M
    BY <1>1
  <2> QED BY <2>1 DEF Follows
<1>3. n = [i \in 1 .. M |-> n[i]]
  BY DEF States
<1>4. \A i \in 1 .. M : n[i] = Encoded(bitcnt - M + i - 1)
  <2> TAKE i \in 1 .. M
  <2> DEFINE j == i + Width
  <2>1. j \in 1 .. Width + M /\ ~(j <= Width) /\ j - Width = i
        /\ bitcnt - M - Width + j - 1 = bitcnt - M + i - 1
    BY <1>1
  <2> HIDE DEF j
  <2>2. HeldBit(n, j) = n[j - Width]
    BY <2>1 DEF HeldBit
  <2>3. HeldBit(n, j) = Encoded(bitcnt - M - Width + j - 1)
    BY <1>2, <2>1
  <2> QED BY <2>1, <2>2, <2>3
<1>5. n = Register(bitcnt)
  BY <1>3, <1>4, Zenon DEF Register
<1> DEFINE p == state[n].path
<1>6. p \in [1 .. Width -> {0, 1}]
  BY DEF CodeInv, PathStates
<1>7. \A i \in 1 .. Width : p[i] = Encoded(bitcnt - M - Width + i - 1)
  <2> TAKE i \in 1 .. Width
  <2>1. i \in 1 .. Width + M /\ i <= Width
    BY <1>1
  <2>2. HeldBit(n, i) = p[i]
    BY <2>1 DEF HeldBit
  <2> QED BY <1>2, <2>1, <2>2
<1> HIDE DEF p
<1>8. p = [i \in 1 .. Width |-> p[i]]
  BY <1>6
<1>9. p = TruePath(bitcnt)
  BY <1>7, <1>8, Zenon DEF TruePath
<1> QED BY <1>5, <1>9 DEF p

LEMMA GapInit ==
  ASSUME NEW Gap, Separates(Gap)
  PROVE  CodeInit => GapInv(Gap)
<1> SUFFICES ASSUME CodeInit, NEW n \in States
             PROVE  Follows(n, 0) \/ state[n].metric <= wrong - Enough
  BY DEF GapInv
<1>1. data \in Data /\ bitcnt = 0 /\ wrong = 0 /\ Width \in Nat /\ M \in Nat
  BY CodeFacts DEF CodeInit
<1>2. state[n] = [metric |-> IF n = Zeros THEN 0 ELSE Unreached,
                  path |-> [i \in 1 .. Width |-> 0]]
  BY DEF CodeInit
<1>3. CASE n = Zeros
  <2>1. state[n].path = [i \in 1 .. Width |-> 0]
    BY <1>2
  <2>2. ASSUME NEW i \in 1 .. Width + M
        PROVE  HeldBit(n, i) = Encoded(bitcnt - M - Width + i - 1)
    <3>1. bitcnt - M - Width + i - 1 \in Int /\ bitcnt - M - Width + i - 1 < 0
      BY <1>1
    <3>2. Encoded(bitcnt - M - Width + i - 1) = 0
      BY <1>1, <3>1, EncodedBit
    <3>3. CASE i <= Width
      <4>1. i \in 1 .. Width
        BY <1>1, <3>3
      <4> QED BY <2>1, <3>2, <3>3, <4>1 DEF HeldBit
    <3>4. CASE ~(i <= Width)
      <4>1. i - Width \in 1 .. M
        BY <1>1, <3>4
      <4> QED BY <1>3, <3>2, <3>4, <4>1 DEF HeldBit, Zeros
    <3> QED BY <3>3, <3>4
  <2>3. Width + M - 0 = Width + M
    BY <1>1
  <2> QED BY <2>2, <2>3 DEF Follows
<1>4. CASE n # Zeros
  <2>1. state[n].metric = Unreached
    BY <1>2, <1>4
  <2>2. Enough <= -Unreached
    BY DEF Separates
  <2>3. Unreached \in Int
    BY DEF Unreached
  <2> QED BY <2>1, <2>2, <2>3, <1>1, SpanFacts
<1> QED BY <1>3, <1>4

LEMMA GapSymbols ==
  ASSUME NEW Gap, Separates(Gap), CodeInv, GapInv(Gap), symbols
  PROVE  GapInv(Gap)'
<1>1. PICK x \in {0, 1}, y \in {0, 1} :
        /\ wrong' = wrong + x + y
        /\ step((SentPair(bitcnt) \div 2 + x) % 2, (SentPair(bitcnt) + y) % 2)
        /\ UNCHANGED <<decoded, data>>
  BY DEF symbols
<1> DEFINE sp == SentPair(bitcnt)
           a == (sp \div 2 + x) % 2
           b == (sp + y) % 2
           r == Register(bitcnt)
           s == Register(bitcnt + 1)
           e == Encoded(bitcnt)
<1>2. /\ state \in PathStates /\ data \in Data /\ wrong \in Nat /\ wrong' = wrong + x + y
      /\ bitcnt \in Int /\ bitcnt' = bitcnt + 1 /\ bitcnt + 1 \in Int
      /\ Width \in Nat /\ M \in Nat /\ 2 <= M
  BY <1>1, CodeFacts DEF CodeInv, step
<1>3. state' = [n \in States |-> Survivor(n, a, b)]
  BY <1>1 DEF step
<1>4. r \in States /\ s \in States /\ e \in {0, 1}
  BY <1>2, RegisterType, EncodedBit
<1>5. /\ s[M] = e /\ Before(s, r[1]) = r /\ r[1] \in {0, 1}
      /\ sp = Pair(e, r[1], Newer(r)) /\ Newer(r) = Older(s)
  <2>1. r[1] = Encoded(bitcnt - M) /\ s[M] = e /\ Before(s, Encoded(bitcnt - M)) = r
        /\ Older(s) = Newer(r)
    BY <1>2, RegisterMoves
  <2>2. bitcnt - M \in Int
    BY <1>2
  <2>3. Encoded(bitcnt - M) \in {0, 1}
    BY <1>2, <2>2, EncodedBit
  <2> QED BY <2>1, <2>3 DEF SentPair
<1>6. sp \in 0 .. 3
  <2>1. Newer(r) \in [1 .. M - 1 -> {0, 1}]
    BY <1>4, <1>5, BeforeFacts
  <2> QED BY <2>1, <1>4, <1>5, PairType
<1>7. After(r, e) = s
  BY <1>4, <1>5, AfterBefore
<1>8. Register(bitcnt)' = s /\ \A i : Encoded(i)' = Encoded(i)
  BY <1>1, <1>2 DEF Register, Encoded
<1> SUFFICES ASSUME NEW n \in States
             PROVE  \/ Follows(n, 0)'
                    \/ \E k \in 1 .. Span : Follows(n, k)' /\ state'[n].metric <= wrong' - Gap[k][s][n]
                    \/ state'[n].metric <= wrong' - Enough
  BY <1>8 DEF GapInv
<1>9. PICK left \in {0, 1} :
        /\ state'[n].metric = Into(n, left, a, b)
        /\ state'[n].path = Append(Tail(state[Before(n, left)].path), left)
  <2>1. state'[n] = Survivor(n, a, b)
    BY <1>3
  <2> HIDE DEF a, b
  <2>2. \E left \in {0, 1} :
          /\ Survivor(n, a, b).metric = Into(n, left, a, b)
          /\ Survivor(n, a, b).path = Append(Tail(state[Before(n, left)].path), left)
    BY <1>2, SurvivorFacts
  <2> QED BY <2>1, <2>2
<1> DEFINE q == Before(n, left)
           c == n[M]
           br == Pair(c, left, Older(n))
           d == Apart(sp, br)
           p == state'[n].path
<1>10. /\ q \in States /\ q[1] = left /\ Newer(q) = Older(n) /\ c \in {0, 1}
       /\ Older(n) \in [1 .. M - 1 -> {0, 1}]
  BY BeforeFacts
<1>11. br \in 0 .. 3 /\ br = Pair(c, q[1], Newer(q)) /\ After(q, c) = n
  BY <1>10, PairType, AfterBefore
<1>12. d \in 0 .. 2 /\ mets(br, a, b) <= x + y - d
  BY <1>6, <1>11, ApartFacts
<1>13. state'[n].metric = state[q].metric + mets(br, a, b)
  BY <1>9 DEF Into
<1>14. d = Apart(Pair(e, r[1], Newer(r)), Pair(c, q[1], Newer(q)))
  BY <1>5, <1>11
<1>15. \A i \in 1 .. Width + M - 1 :
         (IF i <= Width THEN p[i] ELSE n[i - Width]) = HeldBit(q, i + 1)
  BY <1>2, <1>9, HeldMoves
<1>16. \A i : HeldBit(n, i)' = IF i <= Width THEN p[i] ELSE n[i - Width]
  BY DEF HeldBit
<1>17. ASSUME NEW i \in 1 .. Width + M - 1 PROVE HeldBit(n, i)' = HeldBit(q, i + 1)
  BY <1>15, <1>16, Zenon
<1> HIDE DEF p, d, br, q, c, a, b, sp, r, s, e
<1>18. state[q].metric \in Int /\ state[q].metric <= 0 /\ mets(br, a, b) \in Int
  BY <1>10, MetsType DEF CodeInv, PathStates
<1>19. state'[n].metric \in Int /\ state'[n].metric <= state[q].metric + x + y - d
  BY <1>12, <1>13, <1>18
<1>20. ASSUME NEW k \in 0 .. Span, Follows(q, k), NEW i \in 1 .. Width + M - (k + 1)
       PROVE  HeldBit(n, i)' = Encoded(bitcnt' - M - Width + i - 1)
  <2> DEFINE j == i + 1
  <2>1. /\ i \in 1 .. Width + M - 1 /\ j \in 1 .. Width + M - k
        /\ bitcnt' - M - Width + i - 1 = bitcnt - M - Width + j - 1
    BY <1>2, SpanFacts
  <2>2. HeldBit(n, i)' = HeldBit(q, j)
    BY <1>17, <2>1
  <2> HIDE DEF j
  <2>3. HeldBit(q, j) = Encoded(bitcnt - M - Width + j - 1)
    BY <1>20, <2>1 DEF Follows
  <2> QED BY <2>1, <2>2, <2>3
<1>21. ASSUME NEW k \in 0 .. Span, Follows(q, k)
       PROVE  Follows(n, k + 1)'
  BY <1>8, <1>21, <1>20 DEF Follows
<1>22. ASSUME Follows(q, 0), c = e PROVE Follows(n, 0)'
  <2> SUFFICES ASSUME NEW i \in 1 .. Width + M - 0
               PROVE  HeldBit(n, i)' = Encoded(bitcnt' - M - Width + i - 1)
    BY <1>8 DEF Follows
  <2>1. CASE i # Width + M
    <3>1. i \in 1 .. Width + M - (0 + 1) /\ 0 \in 0 .. Span
      BY <1>2, <2>1, SpanFacts
    <3> QED BY <3>1, <1>22, <1>20
  <2>2. CASE i = Width + M
    <3>1. ~(i <= Width) /\ i - Width = M /\ bitcnt' - M - Width + i - 1 = bitcnt
      BY <1>2, <2>2
    <3>2. HeldBit(n, i)' = n[M]
      BY <1>16, <3>1
    <3> QED BY <3>1, <3>2, <1>22 DEF c, e
  <2> QED BY <2>1, <2>2
<1>23. /\ \A k \in 1 .. Span : \A u, v \in States : Gap[k][u][v] \in Int
       /\ r = q /\ e # c => Gap[1][s][n] <= d
       /\ \A k \in 1 .. Span - 1 : Gap[k + 1][s][n] <= Gap[k][r][q] + d
       /\ Enough <= Gap[Span][r][q] + d
  <2>1. Gap \in [1 .. Span -> [States -> [States -> Int]]]
    BY DEF Separates
  <2>2. \A k \in 1 .. Span : \A u, v \in States : Gap[k][u][v] \in Int
    BY <2>1
  <2>3. \A u, v \in States : \A f, g \in {0, 1} :
         LET z == Apart(Pair(f, u[1], Newer(u)), Pair(g, v[1], Newer(v)))
         IN  /\ u = v /\ f # g => Gap[1][After(u, f)][After(v, g)] <= z
             /\ \A k \in 1 .. Span - 1 :
                  Gap[k + 1][After(u, f)][After(v, g)] <= Gap[k][u][v] + z
             /\ Enough <= Gap[Span][u][v] + z
    BY DEF Separates
  <2>4. /\ r = q /\ e # c => Gap[1][After(r, e)][After(q, c)] <= d
        /\ \A k \in 1 .. Span - 1 :
             Gap[k + 1][After(r, e)][After(q, c)] <= Gap[k][r][q] + d
        /\ Enough <= Gap[Span][r][q] + d
    BY <2>3, <1>4, <1>10, <1>14, Zenon
  <2>5. After(q, c) = n
    BY <1>11
  <2> QED BY <2>2, <2>4, <2>5, <1>7
<1>24. CASE Follows(q, 0)
  <2>1. q = r
    BY <1>10, <1>24, FollowsWholly DEF r
  <2>2. CASE c = e
    BY <2>2, <1>22, <1>24
  <2>3. CASE c # e
    <3>1. Gap[1][s][n] <= d /\ 1 \in 1 .. Span /\ 0 \in 0 .. Span /\ 0 + 1 = 1
      BY <2>1, <2>3, <1>23, SpanFacts
    <3>2. Follows(n, 1)'
      BY <3>1, <1>21, <1>24
    <3>3. Gap[1][s][n] \in Int
      BY <3>1, <1>4, <1>23
    <3>4. state'[n].metric <= wrong' - Gap[1][s][n]
      BY <3>1, <3>3, <1>2, <1>12, <1>18, <1>19
    <3> QED BY <3>1, <3>2, <3>4
  <2> QED BY <2>2, <2>3
<1>25. CASE state[q].metric <= wrong - Enough
  <2>1. state'[n].metric <= wrong' - Enough
    BY <1>2, <1>12, <1>18, <1>19, <1>25, SpanFacts
  <2> QED BY <2>1
<1>26. ASSUME NEW k \in 1 .. Span, Follows(q, k), state[q].metric <= wrong - Gap[k][r][q]
       PROVE  \/ \E l \in 1 .. Span : Follows(n, l)' /\ state'[n].metric <= wrong' - Gap[l][s][n]
              \/ state'[n].metric <= wrong' - Enough
  <2>1. Gap[k][r][q] \in Int
    BY <1>4, <1>10, <1>23
  <2>2. CASE k = Span
    <3>1. Enough <= Gap[k][r][q] + d
      BY <2>2, <1>23
    <3>2. state'[n].metric <= wrong' - Enough
      BY <2>1, <3>1, <1>2, <1>12, <1>18, <1>19, <1>26, SpanFacts
    <3> QED BY <3>2
  <2>3. CASE k # Span
    <3> DEFINE l == k + 1
    <3>1. k \in 1 .. Span - 1 /\ l \in 1 .. Span /\ k \in 0 .. Span
      BY <2>3, SpanFacts
    <3>2. Follows(n, l)'
      BY <3>1, <1>21, <1>26
    <3>3. Gap[l][s][n] <= Gap[k][r][q] + d
      BY <3>1, <1>23
    <3> HIDE DEF l
    <3>4. Gap[l][s][n] \in Int
      BY <3>1, <1>4, <1>23
    <3>5. state'[n].metric <= wrong' - Gap[l][s][n]
      BY <2>1, <3>3, <3>4, <1>2, <1>12, <1>18, <1>19, <1>26
    <3> QED BY <3>1, <3>2, <3>5
  <2> QED BY <2>2, <2>3
<1>27. \/ Follows(q, 0)
       \/ \E k \in 1 .. Span : Follows(q, k) /\ state[q].metric <= wrong - Gap[k][r][q]
       \/ state[q].metric <= wrong - Enough
  BY <1>10 DEF GapInv, r
<1> QED BY <1>24, <1>25, <1>26, <1>27

LEMMA GapNext ==
  ASSUME NEW Gap, Separates(Gap)
  PROVE  CodeInv /\ GapInv(Gap) /\ [CodeNext]_codeVars => GapInv(Gap)'
<1> SUFFICES ASSUME CodeInv, GapInv(Gap), [CodeNext]_codeVars PROVE GapInv(Gap)'
  OBVIOUS
<1>1. CASE symbols
  BY <1>1, GapSymbols
<1>2. CASE finish \/ UNCHANGED codeVars
  <2>1. state' = state /\ bitcnt' = bitcnt /\ data' = data /\ wrong' = wrong
    BY <1>2 DEF finish, codeVars
  <2> QED BY <2>1 DEF GapInv, Follows, HeldBit, Register, Encoded
<1> QED BY <1>1, <1>2 DEF CodeNext

LEMMA GapRight ==
  ASSUME NEW Gap, Separates(Gap)
  PROVE  CodeInv /\ GapInv(Gap) => OldestRight /\ RestRight
<1> SUFFICES ASSUME CodeInv, GapInv(Gap) PROVE OldestRight /\ RestRight
  OBVIOUS
<1> DEFINE r == Register(bitcnt)
           b == Best(state)
<1>1. /\ state \in PathStates /\ data \in Data /\ bitcnt \in Int
      /\ wrong \in Nat /\ wrong <= MaxWrong /\ MaxWrong \in Nat
      /\ state[r].metric >= -wrong
      /\ Byte \in Nat /\ Width \in Nat /\ M \in Nat /\ Byte <= Width
  BY CodeFacts DEF CodeInv
<1>2. r \in States
  BY <1>1, RegisterType
<1>3. b \in States /\ \A n \in States : state[n].metric <= state[b].metric
  BY <1>1, BestFacts DEF CodeInv
<1>4. \A n \in States : state[n].metric \in Int
  BY <1>1 DEF PathStates
<1>5. Gap \in [1 .. Span -> [States -> [States -> Int]]]
      /\ \A k \in 1 .. Span : \A u \in States : Enough <= Gap[k][u][u]
  BY DEF Separates
<1>6. \A n \in States :
        \/ Follows(n, 0)
        \/ \E k \in 1 .. Span : Follows(n, k) /\ state[n].metric <= wrong - Gap[k][r][n]
        \/ state[n].metric <= wrong - Enough
  BY DEF GapInv
<1> HIDE DEF r, b
<1>7. Follows(r, 0)
  <2>1. ASSUME NEW k \in 1 .. Span, state[r].metric <= wrong - Gap[k][r][r]
        PROVE  FALSE
    <3>1. Gap[k][r][r] \in Int /\ Enough <= Gap[k][r][r]
      BY <1>2, <1>5
    <3> QED BY <3>1, <2>1, <1>1, <1>2, <1>4, SpanFacts
  <2>2. ~(state[r].metric <= wrong - Enough)
    BY <1>1, <1>2, <1>4, SpanFacts
  <2> QED BY <2>1, <2>2, <1>2, <1>6
<1>8. RestRight
  BY <1>2, <1>7, FollowsWholly DEF RestRight, r
<1>9. PICK k \in 0 .. Span : Follows(b, k)
  <2>1. ~(state[b].metric <= wrong - Enough)
    BY <1>1, <1>2, <1>3, <1>4, SpanFacts
  <2>2. 0 \in 0 .. Span /\ \A k \in 1 .. Span : k \in 0 .. Span
    BY SpanFacts
  <2> QED BY <2>1, <2>2, <1>3, <1>6
<1> DEFINE p == state[b].path
           t == TruePath(bitcnt)
<1>10. p \in [1 .. Width -> {0, 1}] /\ t \in [1 .. Width -> {0, 1}]
  BY <1>1, <1>3, RegisterType DEF PathStates
<1>11. \A i \in 1 .. Byte : p[i] = t[i]
  <2> TAKE i \in 1 .. Byte
  <2>1. i \in 1 .. Width /\ i \in 1 .. Width + M - k /\ i <= Width
    BY <1>1, SpanFacts
  <2>2. HeldBit(b, i) = p[i]
    BY <2>1 DEF HeldBit
  <2>3. HeldBit(b, i) = Encoded(bitcnt - M - Width + i - 1)
    BY <1>9, <2>1 DEF Follows
  <2>4. t[i] = Encoded(bitcnt - M - Width + i - 1)
    BY <2>1 DEF TruePath
  <2> QED BY <2>2, <2>3, <2>4
<1> HIDE DEF p, t
<1>12. /\ SubSeq(p, 1, Byte) = [i \in 1 .. Byte |-> p[i]]
       /\ SubSeq(t, 1, Byte) = [i \in 1 .. Byte |-> t[i]]
  BY <1>1, <1>10
<1>13. SubSeq(p, 1, Byte) = SubSeq(t, 1, Byte)
  BY <1>11, <1>12
<1>14. OldestRight
  BY <1>13 DEF OldestRight, p, t, b
<1> QED BY <1>8, <1>14

(* For every code whose paths are apart as Separates says, every frame and  *)
(* every length: MaxWrong wrong symbols, wherever they are in the frame, do *)
(* not change a bit of it.                                                  *)
THEOREM FrameIsDecoded ==
  ASSUME NEW CONSTANT Gap, Separates(Gap)
  PROVE  CodeSpec => []FrameDecoded
<1> DEFINE G == GapInv(Gap)
           Right == OldestRight /\ RestRight
<1>1. CodeInit => G /\ OutputInv
  BY GapInit, OutputInit
<1>2. CodeInv /\ G /\ [CodeNext]_codeVars => G'
  BY GapNext
<1>3. CodeInv /\ G => Right
  BY GapRight
<1>4. CodeInv /\ Right /\ Right' /\ OutputInv /\ [CodeNext]_codeVars => OutputInv'
  BY OutputNext
<1>5. OutputInv => FrameDecoded
  BY DEF OutputInv
<1> HIDE DEF G, Right
<1> QED BY <1>1, <1>2, <1>3, <1>4, <1>5, CodeInvariant, PTL DEF CodeSpec
=============================================================================
