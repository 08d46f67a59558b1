----------------------------- MODULE MC_EgcCode ------------------------------
(* A small code: a register of three bits, as in the code with its first,   *)
(* last and one or all taps.  It, too, survives two wrong symbols and not   *)
(* three.  And the code's own, with the tables that show what each corrects. *)
EXTENDS EgcCode
LOCAL INSTANCE FiniteSetsExt
LOCAL INSTANCE SequencesExt

(* Values of constants that a .cfg cannot write.                            *)
SmallPartab ==
  [r \in [1 .. 2 -> {0, 1}] |-> IF r[1] = 0 THEN (IF r[2] = 0 THEN 0 ELSE 3)
                                ELSE (IF r[2] = 0 THEN 2 ELSE 1)]
SmallSeed == <<1, 0, 0, 1, 0, 1, 1, 0>>
TwoFrames ==
  {<<<<1, 0, 0, 1>>, <<0, 1, 1, 1>>, <<0, 0, 1, 0>>, <<1, 1, 0, 0>>, <<0, 0, 0, 1>>>>,
   <<<<0, 0, 0, 0>>, <<1, 1, 1, 1>>, <<1, 0, 1, 1>>, <<0, 1, 0, 1>>, <<1, 1, 1, 1>>>>}

(* The code's own constants.  What follows does not depend on the frames.   *)
partabIdx_ == <<0, 1, 3, 2, 3, 2, 0, 1, 0, 1, 3, 2, 3, 2, 0, 1,
                2, 3, 1, 0, 1, 0, 2, 3, 2, 3, 1, 0, 1, 0, 2, 3>>
Number(r) == FoldLeft(LAMBDA n, b : 2 * n + b, 0, [i \in 1 .. Len(r) |-> r[i]])
OwnPartab == [r \in [1 .. 5 -> {0, 1}] |-> partabIdx_[Number(r) + 1]]

Own == INSTANCE EgcCode WITH
  M <- 6, partab <- OwnPartab, Byte <- 8, Width <- 32, NumBytes <- 640, Group <- 4,
  Seed <- <<1, 0, 0, 0, 0, 0, 0, 0>>, Data <- {}, MaxWrong <- 4

(* Both codes are linear, so the gap is a function of the difference of two *)
(* registers: what a path differs by that brings this difference about.     *)
Difference(r, n) == [i \in DOMAIN r |-> (r[i] + n[i]) % 2]
Table(m, span, enough, cost(_, _)) ==
  LET diffs == [1 .. m -> {0, 1}]
      least(S) == Min(S \cup {enough})
      first == [d \in diffs |-> IF d = [i \in 1 .. m |-> IF i = m THEN 1 ELSE 0]
                                THEN least({cost(d, 0)}) ELSE enough]
      next(t) == [d \in diffs |-> least({t[[i \in 1 .. m |-> IF i = 1 THEN out ELSE d[i - 1]]]
                                         + cost(d, out) : out \in {0, 1}})] @@ <<>>
  IN  FoldLeft(LAMBDA ts, k : Append(ts, next(ts[k])), <<first>>, [k \in 1 .. span - 1 |-> k])

SmallGap ==
  LET table == Table(M, Span, Enough, LAMBDA d, out : Apart(0, Pair(d[M], out, Older(d))))
  IN  [a \in 1 .. Span |->
         [r \in States |-> [n \in States |-> table[a][Difference(r, n)]]]]

OwnGap ==
  LET table == Table(6, Own!Span, Own!Enough,
                     LAMBDA d, out : Own!Apart(0, Own!Pair(d[6], out, Own!Older(d))))
  IN  [a \in 1 .. Own!Span |->
         [r \in Own!States |-> [n \in Own!States |-> table[a][Difference(r, n)]]]]

(* The small code corrects two symbols, the code's own four.                *)
ASSUME SmallCorrects == Separates(SmallGap)
ASSUME OwnCorrects == Own!CodeAssumption /\ Own!Separates(OwnGap)
====
