-------------------------- MODULE LteTrackingProofs --------------------------
(* What the LTE engine keeps right while it follows a cell and a UE, for    *)
(* every range, threshold, cycle of numbers and length of the windows.      *)
(*   Correction: two threads that load, add and store it leave it within    *)
(*   reach of the true offset, as long as each estimate is added to the     *)
(*   correction it was measured on.                                         *)
(*   Calls: the frame number counted from the last MIB is the true one, the *)
(*   window of grants is as long as on the air though the decode threads    *)
(*   finish in any order, and two counters tell what the verdicts tell.     *)
EXTENDS LteCentering, LteCalls, FiniteSetTheorems, SequenceTheorems, TLAPS

-----------------------------------------------------------------------------
(* The carrier correction.                                                  *)

(* An estimate: a residual c measured on a base correction, whose sum is an *)
(* offset the oscillator can have, give or take the error of a search.      *)
Estimate == [cfo : Int, base : Int, live : BOOLEAN, have : BOOLEAN]

Plausible(x) == -(MaxOff + Err) <= x /\ x <= MaxOff + Err

(* Every estimate under way would put the correction in place if added to   *)
(* its base, and what the GUI loaded is a correction as good as any.        *)
CenteringInv ==
  /\ off \in Offsets /\ corr \in Int /\ loaded \in Int /\ cur \in Int
  /\ local \in Estimate /\ info \in Estimate /\ ci \in Estimate
  /\ stale \in BOOLEAN
  /\ Plausible(local.cfo + local.base)
  /\ Plausible(info.cfo + info.base)
  /\ Plausible(ci.cfo + ci.base)
  /\ Plausible(corr) \/ stale
  /\ Plausible(cur) \/ stale

LEMMA Bounds ==
  /\ MaxOff \in Nat /\ Err \in Nat /\ Limit \in Nat /\ MaxOff + Err <= Limit
BY CenteringAssumption

LEMMA NoEstimatePlausible ==
  /\ NoEstimate \in Estimate /\ Plausible(NoEstimate.cfo + NoEstimate.base)
  /\ Untracked \in Estimate /\ Plausible(Untracked.cfo + Untracked.base)
  /\ Plausible(0)
<1>1. Plausible(0)
  BY Bounds DEF Plausible
<1>2. /\ NoEstimate \in Estimate /\ NoEstimate.cfo = 0 /\ NoEstimate.base = 0
      /\ Untracked \in Estimate /\ Untracked.cfo = 0 /\ Untracked.base = 0
  BY DEF NoEstimate, Untracked, Estimate
<1> QED BY <1>1, <1>2

(* Measuring the present stream gives an estimate that is plausible.        *)
LEMMA MeasuredPlausible ==
  ASSUME off \in Offsets, corr \in Int, NEW e \in -Err .. Err, NEW b \in BOOLEAN
  PROVE  /\ Measured(off - corr + e, b) \in Estimate
         /\ Plausible(Measured(off - corr + e, b).cfo + Measured(off - corr + e, b).base)
<1>1. off \in Int /\ -MaxOff <= off /\ off <= MaxOff
  BY Bounds DEF Offsets
<1>2. e \in Int /\ -Err <= e /\ e <= Err
  BY Bounds
<1>3. off - corr + e \in Int /\ (off - corr + e) + corr = off + e
  BY <1>1, <1>2
<1>4. Plausible(off + e)
  BY <1>1, <1>2, Bounds DEF Plausible
<1> QED BY <1>3, <1>4 DEF Measured, Estimate

(* Adding a plausible estimate to its base: the clamp does nothing.         *)
LEMMA AppliedPlausible ==
  ASSUME NEW x \in Int, NEW y \in Int, Plausible(x + y)
  PROVE  Clamped(Plus(y, x)) \in Int /\ Plausible(Clamped(Plus(y, x)))
BY Bounds DEF Plausible, Clamped, Plus

LEMMA ClampedInt ==
  ASSUME NEW x \in Int, NEW y \in Int
  PROVE  Clamped(Plus(y, x)) \in Int
BY Bounds DEF Clamped, Plus

LEMMA CenteringInit == Init => CenteringInv
<1> SUFFICES ASSUME Init PROVE CenteringInv
  OBVIOUS
<1>1. Plausible(corr)
  BY NoEstimatePlausible DEF Init
<1>2. /\ local = NoEstimate /\ info = NoEstimate /\ ci = NoEstimate
      /\ corr = 0 /\ loaded = 0 /\ cur = 0 /\ off \in Offsets
  BY DEF Init
<1>3. corr \in Int /\ loaded \in Int /\ cur \in Int
  BY <1>2
<1>5. stale \in BOOLEAN
  BY DEF Init
<1>4. /\ Plausible(local.cfo + local.base) /\ Plausible(info.cfo + info.base)
      /\ Plausible(ci.cfo + ci.base) /\ Plausible(cur)
  BY <1>2, NoEstimatePlausible DEF Plausible
<1> QED BY <1>1, <1>2, <1>3, <1>4, <1>5, NoEstimatePlausible DEF CenteringInv

LEMMA CenteringStep == CenteringInv /\ [Next]_vars => CenteringInv'
<1> SUFFICES ASSUME CenteringInv, [Next]_vars PROVE CenteringInv'
  OBVIOUS
<1> USE DEF CenteringInv, workerVars, guiVars
<1>1. CASE drift
  BY <1>1 DEF drift, Plausible
<1>2. CASE searchCell
  <2>1. PICK e \in -Err .. Err : local' = Measured(off - corr + e, FALSE)
    BY <1>2 DEF searchCell
  <2>2. local' \in Estimate /\ Plausible(local'.cfo + local'.base)
    BY <2>1, MeasuredPlausible
  <2> QED BY <1>2, <2>2 DEF searchCell, Plausible
<1>3. CASE decodeMib
  BY <1>3 DEF decodeMib, Plausible
<1>4. CASE bootstrapLoad
  BY <1>4, NoEstimatePlausible DEF bootstrapLoad, Plausible
<1>5. CASE bootstrapStore
  <2>1. local.cfo \in Int /\ local.base \in Int
    BY DEF Estimate
  <2>2. corr' \in Int
    BY <1>5, <2>1, ClampedInt DEF bootstrapStore
  <2>3. Plausible(corr') \/ stale'
    BY <1>5, <2>1, AppliedPlausible DEF bootstrapStore
  <2> QED BY <1>5, <2>2, <2>3, NoEstimatePlausible DEF bootstrapStore, Plausible
<1>6. CASE publish
  <2>1. 0 \in -Err .. Err /\ off - corr + 0 = off - corr
    BY Bounds DEF Offsets
  <2>2. /\ local' \in Estimate /\ Plausible(local'.cfo + local'.base)
        /\ info' = local'
    BY <1>6, <2>1, MeasuredPlausible DEF publish
  <2> QED BY <1>6, <2>2 DEF publish, Plausible
<1>7. CASE loseSync \/ secondOfSearch
  BY <1>7, NoEstimatePlausible DEF loseSync, secondOfSearch, Plausible
<1>8. CASE drawLte
  BY <1>8 DEF drawLte, Plausible
<1>9. CASE applyLoad
  BY <1>9 DEF applyLoad, Plausible
<1>10. CASE applyStore
  <2>1. ci.cfo \in Int /\ ci.base \in Int
    BY DEF Estimate
  <2>2. corr' \in Int
    BY <1>10, <2>1, ClampedInt DEF applyStore
  <2>3. Plausible(corr') \/ stale'
    <3>1. corr' = Clamped(Plus(cur, ci.cfo)) /\ stale' = (stale \/ (ci.cfo # 0 /\ cur # ci.base))
      BY <1>10 DEF applyStore
    <3>2. CASE cur = ci.base
      BY <2>1, <3>1, <3>2, AppliedPlausible
    <3>3. CASE ci.cfo = 0 /\ Plausible(cur)
      <4>1. Plausible(ci.cfo + cur)
        BY <3>3
      <4> QED BY <2>1, <3>1, <4>1, AppliedPlausible
    <3>4. CASE stale \/ (ci.cfo # 0 /\ cur # ci.base)
      BY <3>1, <3>4
    <3> QED BY <3>2, <3>3, <3>4
  <2>4. cur' = 0 /\ Plausible(cur')
    BY <1>10, NoEstimatePlausible DEF applyStore
  <2> QED BY <1>10, <2>2, <2>3, <2>4, NoEstimatePlausible DEF applyStore, Plausible
<1>11. CASE UNCHANGED vars
  BY <1>11 DEF vars, Plausible
<1> QED
  BY <1>1, <1>2, <1>3, <1>4, <1>5, <1>6, <1>7, <1>8, <1>9, <1>10, <1>11 DEF Next

(* Two threads that load, add and store the correction without a lock never *)
(* move it away from where the oscillator can be, unless one of them adds   *)
(* an estimate that the other has made stale.                               *)
THEOREM CorrectionAlwaysSane == Spec => []CorrectionSane
<1>1. CenteringInv => CorrectionSane
  BY Bounds DEF CenteringInv, CorrectionSane, Plausible, Abs
<1> QED BY <1>1, CenteringInit, CenteringStep, PTL DEF Spec

-----------------------------------------------------------------------------
(* Arithmetic of frame numbers and times.                                   *)

LEMMA Division ==
  ASSUME NEW a \in Int, NEW c \in Nat \ {0}
  PROVE  /\ a % c \in 0 .. c - 1 /\ a \div c \in Int
         /\ a = c * (a \div c) + (a % c)
OBVIOUS

LEMMA MultiplesApart ==
  ASSUME NEW c \in Nat \ {0}, NEW p \in Int, NEW q \in Int, p < q
  PROVE  c * q - c * p >= c
<1>1. c * q - c * p = c * (q - p)
  BY Z3
<1>2. q - p >= 1
  OBVIOUS
<1>3. c * (q - p) >= c
  BY <1>2, Z3
<1> QED BY <1>1, <1>3

LEMMA DivisionUnique ==
  ASSUME NEW a \in Int, NEW c \in Nat \ {0}, NEW q \in Int, NEW r \in 0 .. c - 1,
         a = c * q + r
  PROVE  a % c = r /\ a \div c = q
<1> DEFINE p == a \div c
<1>1. a % c \in 0 .. c - 1 /\ p \in Int /\ a = c * p + (a % c)
  BY Division
<1> HIDE DEF p
<1>2. CASE p = q
  <2>1. c * p = c * q /\ c * q \in Int
    BY <1>2
  <2>2. a % c = r
    BY <1>1, <2>1
  <2> QED BY <2>2, <1>2 DEF p
<1>3. CASE p < q
  <2>1. c * q - c * p >= c /\ c * q \in Int /\ c * p \in Int
    BY <1>1, <1>3, MultiplesApart
  <2> QED BY <1>1, <2>1
<1>4. CASE q < p
  <2>1. c * p - c * q >= c /\ c * q \in Int /\ c * p \in Int
    BY <1>1, <1>4, MultiplesApart
  <2> QED BY <1>1, <2>1
<1> QED BY <1>1, <1>2, <1>3, <1>4

(* A difference modulo c, of the remainders.                                *)
LEMMA RemainderOfDifference ==
  ASSUME NEW c \in Nat \ {0}, NEW s \in Int, NEW t \in Int
  PROVE  (t - s) % c = IF t % c >= s % c THEN (t % c) - (s % c) ELSE (t % c) - (s % c) + c
<1> DEFINE r == s % c
           u == t % c
           p == s \div c
           q == t \div c
           x == t - s
           d == q - p
           e == q - p - 1
           v == u - r
           w == u - r + c
<1>1. /\ r \in 0 .. c - 1 /\ u \in 0 .. c - 1 /\ p \in Int /\ q \in Int
      /\ s = c * p + r /\ t = c * q + u
  BY Division
<1> HIDE DEF r, u, p, q
<1>2. /\ x \in Int /\ d \in Int /\ e \in Int /\ v \in Int /\ w \in Int
      /\ x = c * d + v /\ x = c * e + w
  BY <1>1
<1>3. CASE u >= r
  <2>1. v \in 0 .. c - 1
    BY <1>1, <1>3
  <2> HIDE DEF x, d, e, v, w
  <2>2. x % c = v
    BY <1>2, <2>1, DivisionUnique, Zenon
  <2> QED BY <1>3, <2>2, Zenon DEF x, v, r, u
<1>4. CASE ~(u >= r)
  <2>1. w \in 0 .. c - 1
    BY <1>1, <1>4
  <2> HIDE DEF x, d, e, v, w
  <2>2. x % c = w
    BY <1>2, <2>1, DivisionUnique, Zenon
  <2> QED BY <1>4, <2>2, Zenon DEF x, w, r, u
<1> QED BY <1>3, <1>4

LEMMA CallFacts ==
  /\ Sf \in Nat \ {0} /\ Frames \in Nat \ {0} /\ Wrap \in Nat \ {0}
  /\ Gap \in Nat /\ Window \in Nat /\ MaxGrants \in Nat \ {0} /\ Sustain \in Nat \ {0}
  /\ MaxSkip \in Nat
<1>1. /\ Sf \in Nat \ {0} /\ Frames \in Nat \ {0}
      /\ Gap \in Nat /\ Window \in Nat /\ MaxGrants \in Nat \ {0} /\ Sustain \in Nat \ {0}
      /\ MaxSkip \in Nat
  BY CallAssumption
<1>2. Sf * Frames \in Nat /\ Sf * Frames # 0
  BY <1>1
<1> QED BY <1>1, <1>2 DEF Wrap

-----------------------------------------------------------------------------
(* Verdicts and calls.                                                      *)

Trues(v) == {i \in DOMAIN v : v[i]}

(* The counters of VoiceTrack: voice counts the matching seconds, and the   *)
(* last of these was idle seconds ago.                                      *)
VerdictInv ==
  /\ call \in [voice : Nat, idle : Nat, active : BOOLEAN]
  /\ verdicts \in Seq(BOOLEAN)
  /\ call.voice = Cardinality(Trues(verdicts))
  /\ call.active <=> call.voice >= Sustain
  /\ call.active => /\ call.idle < Sustain /\ call.idle < Len(verdicts)
                    /\ verdicts[Len(verdicts) - call.idle]

(* What counting a second makes of the counters.                            *)
LEMMA CountersChanged ==
  ASSUME NEW r \in [voice : Nat, idle : Nat, active : BOOLEAN], NEW v \in Nat, NEW i \in Nat,
         NEW q, q = [r EXCEPT !.voice = v, !.idle = i] \/ (v = r.voice /\ q = [r EXCEPT !.idle = i])
  PROVE  /\ q \in [voice : Nat, idle : Nat, active : BOOLEAN]
         /\ q.voice = v /\ q.idle = i /\ q.active = r.active
<1>1. CASE q = [r EXCEPT !.voice = v, !.idle = i]
  BY <1>1
<1>2. CASE v = r.voice /\ q = [r EXCEPT !.idle = i]
  BY <1>2
<1> QED BY <1>1, <1>2

LEMMA TruesAppended ==
  ASSUME NEW v \in Seq(BOOLEAN)
  PROVE  /\ Cardinality(Trues(v)) \in Nat
         /\ Cardinality(Trues(Append(v, TRUE))) = Cardinality(Trues(v)) + 1
         /\ Cardinality(Trues(Append(v, FALSE))) = Cardinality(Trues(v))
<1> DEFINE n == Len(v)
<1>1. n \in Nat /\ DOMAIN v = 1 .. n
  OBVIOUS
<1>2. IsFiniteSet(Trues(v)) /\ Cardinality(Trues(v)) \in Nat
  <2>1. IsFiniteSet(1 .. n)
    BY <1>1, FS_Interval
  <2>2. Trues(v) \in SUBSET (1 .. n)
    BY <1>1 DEF Trues
  <2>3. IsFiniteSet(Trues(v))
    BY <2>1, <2>2, FS_Subset
  <2> QED BY <2>3, FS_CardinalityType
<1>3. n + 1 \notin Trues(v)
  BY <1>1 DEF Trues
<1>4. Trues(Append(v, TRUE)) = Trues(v) \cup {n + 1}
  BY <1>1 DEF Trues
<1>5. Trues(Append(v, FALSE)) = Trues(v)
  BY <1>1 DEF Trues
<1>6. Cardinality(Trues(v) \cup {n + 1}) = Cardinality(Trues(v)) + 1
  BY <1>2, <1>3, FS_AddElement
<1> QED BY <1>2, <1>4, <1>5, <1>6, Zenon

LEMMA VerdictInit == CallInit => VerdictInv
<1> SUFFICES ASSUME CallInit PROVE VerdictInv
  OBVIOUS
<1>1. verdicts = <<>> /\ call = [voice |-> 0, idle |-> 0, active |-> FALSE]
  BY DEF CallInit, NoCall
<1>2. Trues(verdicts) = {} /\ verdicts \in Seq(BOOLEAN)
  BY <1>1 DEF Trues
<1>3. Cardinality(Trues(verdicts)) = 0
  BY <1>2, FS_EmptySet
<1>4. /\ call \in [voice : Nat, idle : Nat, active : BOOLEAN]
      /\ call.voice = 0 /\ call.active = FALSE
  BY <1>1
<1> QED BY <1>2, <1>3, <1>4, CallFacts DEF VerdictInv

LEMMA VerdictStep == VerdictInv /\ [CallNext]_callVars => VerdictInv'
<1> SUFFICES ASSUME VerdictInv, [CallNext]_callVars PROVE VerdictInv'
  OBVIOUS
<1>1. CASE UNCHANGED <<call, verdicts>>
  BY <1>1 DEF VerdictInv
<1>2. CASE analyze_voice_locked
  <2> DEFINE n == Len(verdicts)
  <2>1. /\ verdicts \in Seq(BOOLEAN) /\ n \in Nat
        /\ call \in [voice : Nat, idle : Nat, active : BOOLEAN]
        /\ call.voice \in Nat /\ call.idle \in Nat /\ call.active \in BOOLEAN
        /\ call.voice = Cardinality(Trues(verdicts))
        /\ call.active <=> call.voice >= Sustain
    BY DEF VerdictInv
  <2>2. VoiceNow \in BOOLEAN
    BY DEF VoiceNow
  <2>3. \/ /\ ~call.active /\ Counted.voice >= Sustain
           /\ call' = [Counted EXCEPT !.active = TRUE]
           /\ verdicts' = Append(verdicts, VoiceNow)
        \/ /\ call.active /\ Counted.idle >= Sustain
           /\ call' = Ended(Counted) /\ verdicts' = <<>>
        \/ /\ IF call.active THEN Counted.idle < Sustain ELSE Counted.voice < Sustain
           /\ call' = Counted /\ verdicts' = Append(verdicts, VoiceNow)
    BY <1>2 DEF analyze_voice_locked
  <2>4. ASSUME Counted \in [voice : Nat, idle : Nat, active : BOOLEAN],
               call' = Ended(Counted), verdicts' = <<>>
        PROVE  VerdictInv'
    <3>1. /\ call' \in [voice : Nat, idle : Nat, active : BOOLEAN]
          /\ call'.voice = 0 /\ call'.active = FALSE
      BY <2>4 DEF Ended
    <3>2. Trues(verdicts') = {} /\ verdicts' \in Seq(BOOLEAN)
      BY <2>4 DEF Trues
    <3>3. Cardinality(Trues(verdicts')) = 0
      BY <3>2, FS_EmptySet
    <3> QED BY <3>1, <3>2, <3>3, CallFacts DEF VerdictInv
  <2>5. CASE VoiceNow
    <3>1. VoiceNow = TRUE
      BY <2>2, <2>5
    <3>2. Counted = [call EXCEPT !.voice = call.voice + 1, !.idle = 0]
      BY <2>5 DEF Counted
    <3>3. /\ Counted \in [voice : Nat, idle : Nat, active : BOOLEAN]
          /\ Counted.voice = call.voice + 1 /\ Counted.idle = 0 /\ Counted.active = call.active
      <4>1. call.voice + 1 \in Nat /\ 0 \in Nat
        BY <2>1
      <4> QED BY <2>1, <3>2, <4>1, CountersChanged, Zenon
    <3>4. ASSUME verdicts' = Append(verdicts, TRUE),
                 call' \in [voice : Nat, idle : Nat, active : BOOLEAN],
                 call'.voice = Counted.voice, call'.idle = 0,
                 call'.active <=> Counted.voice >= Sustain
          PROVE  VerdictInv'
      <4>1. /\ verdicts' \in Seq(BOOLEAN) /\ Len(verdicts') = n + 1 /\ verdicts'[n + 1] = TRUE
        BY <2>1, <3>4
      <4>2. call'.voice = Cardinality(Trues(verdicts'))
        <5>1. Cardinality(Trues(Append(verdicts, TRUE))) = Cardinality(Trues(verdicts)) + 1
          BY <2>1, TruesAppended
        <5> QED BY <2>1, <3>3, <3>4, <5>1
      <4>3. /\ call'.idle < Sustain /\ call'.idle < Len(verdicts')
            /\ verdicts'[Len(verdicts') - call'.idle]
        BY <2>1, <3>4, <4>1, CallFacts
      <4> QED BY <3>4, <4>1, <4>2, <4>3 DEF VerdictInv
    <3>5. CASE call' = Ended(Counted) /\ verdicts' = <<>>
      BY <3>3, <3>5, <2>4
    <3>6. CASE /\ ~call.active /\ Counted.voice >= Sustain
               /\ call' = [Counted EXCEPT !.active = TRUE]
               /\ verdicts' = Append(verdicts, VoiceNow)
      BY <3>1, <3>3, <3>4, <3>6
    <3>7. CASE /\ IF call.active THEN Counted.idle < Sustain ELSE Counted.voice < Sustain
               /\ call' = Counted /\ verdicts' = Append(verdicts, VoiceNow)
      <4>1. call'.active <=> Counted.voice >= Sustain
        BY <2>1, <3>3, <3>7, CallFacts
      <4> QED BY <3>1, <3>3, <3>4, <3>7, <4>1
    <3> QED BY <2>3, <3>5, <3>6, <3>7
  <2>6. CASE ~VoiceNow
    <3>1. VoiceNow = FALSE
      BY <2>2, <2>6
    <3>2. Counted = [call EXCEPT !.idle = call.idle + 1]
      BY <2>6 DEF Counted
    <3>3. /\ Counted \in [voice : Nat, idle : Nat, active : BOOLEAN]
          /\ Counted.voice = call.voice /\ Counted.idle = call.idle + 1
          /\ Counted.active = call.active
      <4>1. call.idle + 1 \in Nat
        BY <2>1
      <4> QED BY <2>1, <3>2, <4>1, CountersChanged, Zenon
    <3>4. CASE call' = Ended(Counted) /\ verdicts' = <<>>
      BY <3>3, <3>4, <2>4
    <3>5. ~(~call.active /\ Counted.voice >= Sustain)
      BY <2>1, <3>3
    <3>6. CASE /\ IF call.active THEN Counted.idle < Sustain ELSE Counted.voice < Sustain
               /\ call' = Counted /\ verdicts' = Append(verdicts, VoiceNow)
      <4>1. /\ verdicts' = Append(verdicts, FALSE) /\ verdicts' \in Seq(BOOLEAN)
            /\ Len(verdicts') = n + 1 /\ \A i \in 1 .. n : verdicts'[i] = verdicts[i]
        <5>1. verdicts' = Append(verdicts, FALSE)
          BY <3>1, <3>6, Zenon
        <5> QED BY <2>1, <5>1
      <4>2. call'.voice = Cardinality(Trues(verdicts'))
        <5>1. Cardinality(Trues(Append(verdicts, FALSE))) = Cardinality(Trues(verdicts))
          BY <2>1, TruesAppended
        <5> QED BY <2>1, <3>3, <3>6, <4>1, <5>1
      <4>3. ASSUME call'.active
            PROVE  /\ call'.idle < Sustain /\ call'.idle < Len(verdicts')
                   /\ verdicts'[Len(verdicts') - call'.idle]
        <5>1. call.active
          BY <3>3, <3>6, <4>3
        <5>2. call'.idle < Sustain /\ call'.idle = call.idle + 1
          BY <3>3, <3>6, <5>1
        <5>3. call.idle < n /\ verdicts[n - call.idle]
          BY <5>1 DEF VerdictInv
        <5>4. Len(verdicts') - call'.idle = n - call.idle /\ n - call.idle \in 1 .. n
          BY <2>1, <4>1, <5>2, <5>3
        <5>5. verdicts'[Len(verdicts') - call'.idle] = verdicts[n - call.idle]
          BY <4>1, <5>4
        <5>6. call'.idle < Len(verdicts')
          BY <2>1, <4>1, <5>2, <5>3
        <5> QED BY <5>2, <5>3, <5>5, <5>6
      <4>4. call' \in [voice : Nat, idle : Nat, active : BOOLEAN]
        BY <3>3, <3>6
      <4>5. call'.active <=> call'.voice >= Sustain
        BY <2>1, <3>3, <3>6
      <4> QED BY <4>1, <4>2, <4>3, <4>4, <4>5 DEF VerdictInv
    <3> QED BY <2>3, <3>4, <3>5, <3>6
  <2> QED BY <2>5, <2>6
<1>3. ASSUME NEW skip \in 0 .. MaxSkip, NEW dropped \in BOOLEAN, zerocopy(skip, dropped)
      PROVE  VerdictInv'
  BY <1>3, <1>1 DEF zerocopy
<1>4. ASSUME NEW j \in jobs, on_dl_dci(j) PROVE VerdictInv'
  BY <1>4, <1>1 DEF on_dl_dci
<1>5. CASE UNCHANGED callVars
  BY <1>5, <1>1 DEF callVars
<1> QED BY <1>2, <1>3, <1>4, <1>5 DEF CallNext

(* A call is on exactly while Sustain matching seconds were seen since the  *)
(* last one, and while one of the last Sustain seconds matched: the two     *)
(* counters that analyze_voice_locked keeps tell no less than the verdicts. *)
THEOREM CallAlwaysFollowsVerdicts == CallSpec => []CallFollowsVerdicts
<1>1. VerdictInv => CallFollowsVerdicts
  <2> SUFFICES ASSUME VerdictInv PROVE CallFollowsVerdicts
    OBVIOUS
  <2>1. call.active <=> Cardinality({i \in DOMAIN verdicts : verdicts[i]}) >= Sustain
    BY DEF VerdictInv, Trues
  <2>2. ASSUME call.active
        PROVE  \E i \in DOMAIN verdicts : i > Len(verdicts) - Sustain /\ verdicts[i]
    <3>1. /\ call.idle \in Nat /\ call.idle < Sustain /\ call.idle < Len(verdicts)
          /\ verdicts[Len(verdicts) - call.idle] /\ verdicts \in Seq(BOOLEAN)
      BY <2>2 DEF VerdictInv
    <3>2. /\ Len(verdicts) - call.idle \in DOMAIN verdicts
          /\ Len(verdicts) - call.idle > Len(verdicts) - Sustain
      BY <3>1, CallFacts
    <3> QED BY <3>1, <3>2
  <2> QED BY <2>1, <2>2 DEF CallFollowsVerdicts
<1> QED BY <1>1, VerdictInit, VerdictStep, PTL DEF CallSpec
-----------------------------------------------------------------------------
(* Frame numbers.                                                           *)

(* Counting on from a remainder.                                            *)
LEMMA SuccessorAgrees ==
  ASSUME NEW c \in Nat \ {0}, NEW x \in Int
  PROVE  ((x % c) + 1) % c = (x + 1) % c
<1> DEFINE u == x % c
           p == x \div c
           v == u + 1
           y == x + 1
           o == p + 1
<1>1. u \in 0 .. c - 1 /\ p \in Int /\ x = c * p + u
  BY Division
<1> HIDE DEF u, p
<1>2. v \in Int /\ y \in Int /\ o \in Int /\ 0 \in Int /\ 1 \in Int
  BY <1>1
<1>3. CASE v < c
  <2>1. v \in 0 .. c - 1 /\ v = c * 0 + v /\ y = c * p + v
    <3>1. c * p \in Int
      BY <1>1
    <3> QED BY <1>1, <1>3, <3>1
  <2> HIDE DEF v, y
  <2>2. v % c = v
    BY <1>2, <2>1, DivisionUnique, Zenon
  <2>3. y % c = v
    BY <1>1, <1>2, <2>1, DivisionUnique, Zenon
  <2> QED BY <2>2, <2>3, Zenon DEF v, y, u
<1>4. CASE ~(v < c)
  <2>1. 0 \in 0 .. c - 1 /\ v = c * 1 + 0 /\ y = c * o + 0
    <3>1. c * p \in Int /\ c * o = c * p + c /\ v = c
      BY <1>1, <1>4, Z3
    <3> QED BY <1>1, <1>4, <3>1
  <2> HIDE DEF v, y, o
  <2>2. v % c = 0
    BY <1>2, <2>1, DivisionUnique, Zenon
  <2>3. y % c = 0
    BY <1>1, <1>2, <2>1, DivisionUnique, Zenon
  <2> QED BY <2>2, <2>3, Zenon DEF v, y, u
<1> QED BY <1>3, <1>4

LEMMA FrameStep ==
  ASSUME NEW a \in Nat
  PROVE  AfterSubframe(FrameOf(a), a % Sf) = FrameOf(a + 1)
<1> DEFINE q == a \div Sf
           r == a % Sf
           s == r + 1
           b == a + 1
           p == q + 1
           f == q % Frames
<1>1. q \in Int /\ r \in 0 .. Sf - 1 /\ a = Sf * q + r /\ Sf \in Nat \ {0} /\ Frames \in Nat \ {0}
  BY CallFacts, Division
<1> HIDE DEF q, r
<1>2. b \in Int /\ p \in Int /\ s \in Int
  BY <1>1
<1>3. CASE r = Sf - 1
  <2>1. 0 \in 0 .. Sf - 1 /\ b = Sf * p + 0
    <3>1. Sf * p = Sf * q + Sf
      BY <1>1, Z3
    <3>2. Sf * p \in Int /\ Sf * q \in Int
      BY <1>1
    <3> QED BY <1>1, <1>3, <3>1, <3>2
  <2>2. b \div Sf = p
    <3> HIDE DEF b, p
    <3> QED BY <1>1, <1>2, <2>1, DivisionUnique, Zenon
  <2>3. (f + 1) % Frames = p % Frames
    BY <1>1, SuccessorAgrees
  <2> QED BY <1>3, <2>2, <2>3, Zenon DEF AfterSubframe, FrameOf, b, r, q
<1>4. CASE r # Sf - 1
  <2>1. s \in 0 .. Sf - 1 /\ b = Sf * q + s
    <3>1. Sf * q \in Int
      BY <1>1
    <3> QED BY <1>1, <1>4, <3>1
  <2>2. b \div Sf = q
    <3> HIDE DEF b, s
    <3> QED BY <1>1, <1>2, <2>1, DivisionUnique, Zenon
  <2> QED BY <1>4, <2>2, Zenon DEF AfterSubframe, FrameOf, b, r, q
<1> QED BY <1>3, <1>4

(* Subframes missed within a frame do not change the frame number.          *)
LEMMA WithinFrame ==
  ASSUME NEW a \in Nat, NEW skip \in Nat, ~\E x \in a .. a + skip - 1 : x % Sf = Sf - 1
  PROVE  FrameOf(a + skip) = FrameOf(a)
<1> DEFINE q == a \div Sf
           r == a % Sf
           b == a + skip
           s == r + skip
           l == Sf - 1
           x == Sf * q + l
<1>1. q \in Int /\ r \in 0 .. Sf - 1 /\ a = Sf * q + r /\ Sf \in Nat \ {0} /\ Sf * q \in Int
  BY CallFacts, Division
<1> HIDE DEF q, r
<1>2. l \in 0 .. Sf - 1 /\ x \in Int /\ x >= a
  BY <1>1
<1>3. x % Sf = Sf - 1
  <2>1. x = Sf * q + l
    OBVIOUS
  <2> HIDE DEF x, l
  <2>2. x % Sf = l
    BY <1>1, <1>2, <2>1, DivisionUnique, Zenon
  <2> QED BY <2>2 DEF l
<1>4. x \notin a .. a + skip - 1
  <2> HIDE DEF x
  <2> QED BY <1>3
<1>5. b \in Int /\ s \in 0 .. Sf - 1 /\ b = Sf * q + s
  BY <1>1, <1>2, <1>4
<1>6. b \div Sf = q
  <2> HIDE DEF b, s
  <2> QED BY <1>1, <1>5, DivisionUnique, Zenon
<1> QED BY <1>6, Zenon DEF FrameOf, b, q

(* The number of a subframe is its time, up to the wrap.                    *)
LEMMA RawOfTime ==
  ASSUME NEW a \in Nat
  PROVE  FrameOf(a) * Sf + (a % Sf) = a % Wrap
<1> DEFINE q == a \div Sf
           r == a % Sf
           f == q % Frames
           p == q \div Frames
           v == f * Sf + r
<1>1. /\ q \in Int /\ r \in 0 .. Sf - 1 /\ a = Sf * q + r
      /\ f \in 0 .. Frames - 1 /\ p \in Int /\ q = Frames * p + f
      /\ Sf \in Nat \ {0} /\ Frames \in Nat \ {0} /\ Wrap \in Nat \ {0} /\ Wrap = Sf * Frames
  BY CallFacts, Division DEF Wrap
<1> HIDE DEF q, r, f, p
<1>2. Sf * Frames - Sf * f >= Sf
  BY <1>1, MultiplesApart
<1>3. Sf * f \in Int /\ Sf * f >= 0 /\ f * Sf = Sf * f
  BY <1>1, Z3
<1>4. v \in 0 .. Wrap - 1
  BY <1>1, <1>2, <1>3
<1>5. a \in Int /\ a = Wrap * p + v
  BY <1>1, Z3
<1> HIDE DEF v
<1>6. a \in Int /\ Wrap \in Nat \ {0} /\ p \in Int /\ v \in 0 .. Wrap - 1 /\ a = Wrap * p + v
  BY <1>1, <1>4, <1>5
<1>7. a % Wrap = v
  BY <1>6, DivisionUnique, Zenon
<1> QED BY <1>7, Zenon DEF v, f, q, r, FrameOf

Job == [raw : 0 .. Wrap - 1, air : Nat, good : BOOLEAN]

(* A subframe handed to the decode threads as truly numbered has the number *)
(* of its time.                                                             *)
JobsTrue(js) == js \subseteq Job /\ \A j \in js : j.good => j.raw = j.air % Wrap

NumberInv ==
  /\ air \in Nat /\ sfn \in 0 .. Frames - 1 /\ decode_state \in {0, 1} /\ slipped \in BOOLEAN
  /\ decode_state = 1 /\ ~slipped => sfn = FrameOf(air)
  /\ JobsTrue(jobs)

LEMMA NumberInit == CallInit => NumberInv
<1> SUFFICES ASSUME CallInit PROVE NumberInv
  OBVIOUS
<1>1. /\ air = 0 /\ sfn = 0 /\ decode_state = 0 /\ slipped = FALSE /\ jobs = {}
  BY DEF CallInit
<1>2. JobsTrue(jobs)
  BY <1>1 DEF JobsTrue
<1>3. slipped \in BOOLEAN
  BY <1>1, Zenon
<1>4. air \in Nat /\ sfn \in 0 .. Frames - 1 /\ decode_state \in {0, 1} /\ decode_state # 1
  BY <1>1, CallFacts
<1> QED BY <1>2, <1>3, <1>4, Zenon DEF NumberInv

LEMMA AfterType ==
  ASSUME NEW n \in 0 .. Frames - 1, NEW sf
  PROVE  AfterSubframe(n, sf) \in 0 .. Frames - 1
<1>1. n + 1 \in Int
  OBVIOUS
<1>2. (n + 1) % Frames \in 0 .. Frames - 1
  BY <1>1, CallFacts, Division
<1> QED BY <1>2 DEF AfterSubframe

LEMMA FrameType == ASSUME NEW a \in Nat PROVE FrameOf(a) \in 0 .. Frames - 1
<1>1. a \div Sf \in Int
  BY CallFacts, Division
<1> QED BY <1>1, CallFacts, Division DEF FrameOf

(* Where a subframe with true numbers ends up.                              *)
LEMMA RawBounds ==
  ASSUME NEW n \in 0 .. Frames - 1, NEW sf \in 0 .. Sf - 1
  PROVE  n * Sf + sf \in 0 .. Wrap - 1
<1>1. Sf \in Nat \ {0} /\ Frames \in Nat \ {0} /\ Wrap = Sf * Frames /\ n \in Int
  BY CallFacts DEF Wrap
<1>2. Sf * Frames - Sf * n >= Sf
  BY <1>1, MultiplesApart
<1>3. Sf * n \in Int /\ Sf * n >= 0 /\ n * Sf = Sf * n
  BY <1>1, Z3
<1> QED BY <1>1, <1>2, <1>3

LEMMA NumberStep == NumberInv /\ [CallNext]_callVars => NumberInv'
<1> SUFFICES ASSUME NumberInv, [CallNext]_callVars PROVE NumberInv'
  OBVIOUS
<1>1. ASSUME NEW skip \in 0 .. MaxSkip, NEW dropped \in BOOLEAN, zerocopy(skip, dropped)
      PROVE  NumberInv'
  <2> DEFINE a == air + skip
             sf == a % Sf
             gap == IF dropped THEN 1 ELSE skip + 1
             slip == slipped \/ (FramesMissed(skip) /\ gap <= Gap)
             job == [raw |-> sfn * Sf + sf, air |-> a, good |-> ~slip]
  <2>1. /\ air \in Nat /\ sfn \in 0 .. Frames - 1 /\ decode_state \in {0, 1} /\ slipped \in BOOLEAN
        /\ JobsTrue(jobs) /\ skip \in Nat /\ a \in Nat /\ gap \in Nat /\ air' = a + 1
        /\ sf \in 0 .. Sf - 1
    <3>1. air \in Nat /\ skip \in Nat /\ a \in Nat /\ a \in Int
      BY CallFacts DEF NumberInv
    <3>2. sf \in 0 .. Sf - 1
      <4> HIDE DEF a
      <4> QED BY <3>1, CallFacts, Division
    <3> QED BY <1>1, <3>1, <3>2 DEF NumberInv, zerocopy
  <2>2. AfterSubframe(FrameOf(a), sf) = FrameOf(air')
    <3> HIDE DEF a
    <3> QED BY <2>1, FrameStep
  <2>3. /\ AfterSubframe(FrameOf(a), sf) \in 0 .. Frames - 1
        /\ AfterSubframe(sfn, sf) \in 0 .. Frames - 1
    <3> HIDE DEF a, sf
    <3> QED BY <2>1, AfterType, FrameType
  <2>4. \/ /\ decode_state' = 1 /\ sfn' = AfterSubframe(FrameOf(a), sf)
           /\ slipped' = FALSE /\ UNCHANGED jobs
        \/ /\ decode_state' = 0 /\ sfn' = AfterSubframe(sfn, sf)
           /\ slipped' = FALSE /\ UNCHANGED jobs
        \/ /\ ~ReSync(gap) /\ decode_state = 1 /\ UNCHANGED decode_state /\ slipped' = slip
           /\ sfn' = AfterSubframe(sfn, sf)
           /\ jobs' \in {jobs, jobs \cup {job}}
    BY <1>1, <2>1 DEF zerocopy
  <2>5. CASE /\ decode_state' = 1 /\ sfn' = AfterSubframe(FrameOf(a), sf)
             /\ slipped' = FALSE /\ UNCHANGED jobs
    <3>1. sfn' = FrameOf(air') /\ sfn' \in 0 .. Frames - 1
      <4> HIDE DEF a, sf
      <4> QED BY <2>2, <2>3, <2>5
    <3>2. JobsTrue(jobs')
      BY <2>1, <2>5
    <3>3. slipped' \in BOOLEAN
      BY <2>5, Zenon
    <3>4. air' \in Nat /\ decode_state' \in {0, 1}
      <4> HIDE DEF a
      <4> QED BY <2>1, <2>5
    <3> QED BY <3>1, <3>2, <3>3, <3>4, Zenon DEF NumberInv
  <2>6. CASE /\ decode_state' = 0 /\ sfn' = AfterSubframe(sfn, sf)
             /\ slipped' = FALSE /\ UNCHANGED jobs
    <3>1. sfn' \in 0 .. Frames - 1
      <4> HIDE DEF a, sf
      <4> QED BY <2>3, <2>6
    <3>2. JobsTrue(jobs')
      BY <2>1, <2>6
    <3>3. slipped' \in BOOLEAN
      BY <2>6, Zenon
    <3>4. air' \in Nat /\ decode_state' \in {0, 1} /\ decode_state' # 1
      <4> HIDE DEF a
      <4> QED BY <2>1, <2>6
    <3> QED BY <3>1, <3>2, <3>3, <3>4, Zenon DEF NumberInv
  <2>7. CASE /\ ~ReSync(gap) /\ decode_state = 1 /\ UNCHANGED decode_state /\ slipped' = slip
             /\ sfn' = AfterSubframe(sfn, sf)
             /\ jobs' \in {jobs, jobs \cup {job}}
    <3>1. ASSUME ~slip PROVE sfn = FrameOf(a)
      <4>1. ~slipped /\ ~FramesMissed(skip)
        BY <2>1, <2>7, <3>1, CallFacts DEF ReSync
      <4>2. sfn = FrameOf(air)
        BY <2>7, <4>1 DEF NumberInv
      <4>3. ~\E x \in air .. air + skip - 1 : x % Sf = Sf - 1
        BY <4>1 DEF FramesMissed
      <4>4. FrameOf(air + skip) = FrameOf(air)
        BY <2>1, <4>3, WithinFrame
      <4> QED BY <4>2, <4>4
    <3>2. slip \in BOOLEAN
      BY <2>1 DEF FramesMissed
    <3>3. decode_state' = 1 /\ ~slipped' => sfn' = FrameOf(air')
      <4> SUFFICES ASSUME decode_state' = 1, ~slipped' PROVE sfn' = FrameOf(air')
        OBVIOUS
      <4>1. ~slip
        BY <2>7
      <4> HIDE DEF a, sf, slip
      <4> QED BY <2>2, <2>7, <3>1, <4>1, Zenon
    <3>4. job \in Job
      <4>1. sfn * Sf + sf \in 0 .. Wrap - 1
        <5> HIDE DEF sf
        <5> QED BY <2>1, RawBounds
      <4> HIDE DEF sf, a, slip
      <4>2. (~slip) \in BOOLEAN
        <5>1. CASE slip = TRUE
          BY <5>1
        <5>2. CASE slip = FALSE
          BY <5>2
        <5> QED BY <3>2, <5>1, <5>2
      <4> QED BY <2>1, <4>1, <4>2 DEF Job
    <3>5. ASSUME job.good PROVE job.raw = job.air % Wrap
      <4>1. ~slip
        <5> HIDE DEF sf, a, slip
        <5> QED BY <3>5
      <4>2. FrameOf(a) * Sf + (a % Sf) = a % Wrap
        <5> HIDE DEF a
        <5> QED BY <2>1, RawOfTime
      <4>3. job.raw = sfn * Sf + sf /\ job.air = a
        <5> HIDE DEF sf, a, slip
        <5> QED OBVIOUS
      <4>4. sfn = FrameOf(a)
        BY <3>1, <4>1
      <4> HIDE DEF job, a, slip
      <4> QED BY <4>2, <4>3, <4>4, Zenon DEF sf
    <3> HIDE DEF job, a, sf, slip
    <3>6. JobsTrue(jobs')
      BY <2>1, <2>7, <3>4, <3>5 DEF JobsTrue
    <3>7. slipped' \in BOOLEAN
      BY <2>7, <3>2
    <3>8. decode_state' \in {0, 1} /\ air' \in Nat /\ sfn' \in 0 .. Frames - 1
      BY <2>1, <2>3, <2>7
    <3> QED BY <3>3, <3>6, <3>7, <3>8 DEF NumberInv
  <2> QED BY <2>4, <2>5, <2>6, <2>7
<1>2. ASSUME NEW j \in jobs, on_dl_dci(j) PROVE NumberInv'
  <2>1. UNCHANGED <<air, sfn, decode_state, slipped>> /\ jobs' \subseteq jobs
    BY <1>2 DEF on_dl_dci
  <2>2. JobsTrue(jobs')
    BY <2>1 DEF NumberInv, JobsTrue
  <2> QED BY <2>1, <2>2 DEF NumberInv
<1>3. CASE analyze_voice_locked
  BY <1>3 DEF analyze_voice_locked, NumberInv
<1>4. CASE UNCHANGED callVars
  BY <1>4 DEF callVars, NumberInv
<1> QED BY <1>1, <1>2, <1>3, <1>4 DEF CallNext

(* The frame number of run_decode, kept by counting, is the true one from   *)
(* every MIB until frames are missed that the loop cannot notice.           *)
THEOREM SfnAlwaysTrue == CallSpec => []SfnTrue
<1>1. NumberInv => SfnTrue
  BY DEF NumberInv, SfnTrue
<1> QED BY <1>1, NumberInit, NumberStep, PTL DEF CallSpec

-----------------------------------------------------------------------------
(* The window of grants.                                                    *)

Grant == [t : Nat, air : Nat, good : BOOLEAN]

(* Times up to now and sorted, those of truly numbered grants right up to   *)
(* the wrap.                                                                *)
Dated(gs, now) ==
  /\ gs \in Seq(Grant)
  /\ \A i \in DOMAIN gs :
       /\ gs[i].t <= now
       /\ gs[i].good => gs[i].t % Wrap = gs[i].air % Wrap
       /\ \A j \in DOMAIN gs : i < j => gs[i].t <= gs[j].t

(* And none older than Window.                                              *)
Held(gs, now) == Dated(gs, now) /\ \A i \in DOMAIN gs : now - gs[i].t <= Window

WindowInv ==
  /\ track \in [last : {-1} \cup (0 .. Wrap - 1), abs : Nat, grants : Seq(Grant)]
  /\ track.last = -1 => track.grants = <<>>
  /\ track.last # -1 => track.abs % Wrap = track.last
  /\ Held(track.grants, track.abs)

(* The unwrapped time agrees with the raw number, and never runs back.      *)
LEMMA NowAgrees ==
  ASSUME NEW raw \in 0 .. Wrap - 1, NEW last \in 0 .. Wrap - 1, NEW t \in Nat, t % Wrap = last
  PROVE  /\ t + Unwrapped(raw, last) \in Nat /\ t + Unwrapped(raw, last) >= t
         /\ (t + Unwrapped(raw, last)) % Wrap = raw
<1> DEFINE q == t \div Wrap
           p == q + 1
           n == t + Unwrapped(raw, last)
<1>1. q \in Int /\ t = Wrap * q + last /\ Wrap \in Nat \ {0} /\ Wrap * q \in Int
  <2>1. t \in Int /\ Wrap \in Nat \ {0}
    BY CallFacts
  <2> QED BY <2>1, Division
<1>2. raw \in Int /\ last \in Int
  BY <1>1
<1> HIDE DEF q
<1>3. n \in Nat /\ n >= t
  BY <1>1, <1>2 DEF Unwrapped
<1>4. CASE raw < last
  <2>1. Wrap * p = Wrap * q + Wrap
    BY <1>1, Z3
  <2>2. n = Wrap * p + raw /\ p \in Int /\ n \in Int
    BY <1>1, <1>2, <1>4, <2>1 DEF Unwrapped
  <2> HIDE DEF n, p
  <2>3. n % Wrap = raw
    BY <1>1, <2>2, DivisionUnique, Zenon
  <2> QED BY <1>3, <2>3 DEF n
<1>5. CASE ~(raw < last)
  <2>1. n = Wrap * q + raw /\ n \in Int
    BY <1>1, <1>2, <1>5 DEF Unwrapped
  <2> HIDE DEF n
  <2>2. n % Wrap = raw
    BY <1>1, <2>1, DivisionUnique, Zenon
  <2> QED BY <1>3, <2>2 DEF n
<1> QED BY <1>4, <1>5

LEMMA RawUnwrapped ==
  ASSUME NEW raw \in 0 .. Wrap - 1
  PROVE  raw % Wrap = raw
<1> DEFINE n == raw
<1>1. n \in Int /\ 0 \in Int /\ n = Wrap * 0 + n /\ n \in 0 .. Wrap - 1 /\ Wrap \in Nat \ {0}
  BY CallFacts
<1> HIDE DEF n
<1>2. n % Wrap = n
  BY <1>1, DivisionUnique, Zenon
<1> QED BY <1>2 DEF n

LEMMA WindowInit == CallInit => WindowInv
<1> SUFFICES ASSUME CallInit PROVE WindowInv
  OBVIOUS
<1>1. track = [last |-> -1, abs |-> 0, grants |-> <<>>]
  BY DEF CallInit, NoTrack
<1>2. track \in [last : {-1} \cup (0 .. Wrap - 1), abs : Nat, grants : Seq(Grant)]
  <2>1. <<>> \in Seq(Grant) /\ -1 \in {-1} \cup (0 .. Wrap - 1)
    OBVIOUS
  <2> QED BY <1>1, <2>1
<1>3. track.last = -1 /\ track.grants = <<>> /\ DOMAIN track.grants = {}
  BY <1>1
<1>4. Held(track.grants, track.abs)
  <2> QED BY <1>2, <1>3 DEF Held, Dated
<1> QED BY <1>2, <1>3, <1>4 DEF WindowInv

(* A window to which a grant was added.                                     *)
LEMMA GrantAdded ==
  ASSUME NEW old, NEW t \in Nat, Dated(old, t), NEW now \in Nat, t <= now,
         NEW g \in Grant, g.t = now, g.good => now % Wrap = g.air % Wrap
  PROVE  Dated(Append(old, g), now)
<1> DEFINE n == Len(old)
           gs == Append(old, g)
<1>1. /\ n \in Nat /\ gs \in Seq(Grant) /\ Len(gs) = n + 1 /\ DOMAIN gs = 1 .. n + 1
      /\ \A i \in 1 .. n : gs[i] = old[i] /\ gs[i] \in Grant
      /\ gs[n + 1] = g /\ DOMAIN old = 1 .. n
  <2>1. old \in Seq(Grant)
    BY DEF Dated
  <2> QED BY <2>1
<1> HIDE DEF gs
<1>2. \A i \in 1 .. n + 1 : gs[i] \in Grant /\ gs[i].t \in Nat
  <2>1. \A i \in 1 .. n + 1 : gs[i] \in Grant
    BY <1>1
  <2> QED BY <2>1 DEF Grant
<1>3. ASSUME NEW i \in 1 .. n + 1
      PROVE  /\ gs[i].t <= now
             /\ gs[i].good => gs[i].t % Wrap = gs[i].air % Wrap
             /\ \A j \in 1 .. n + 1 : i < j => gs[i].t <= gs[j].t
  <2>1. CASE i = n + 1
    <3>1. gs[i] = g
      BY <1>1, <2>1
    <3>2. gs[i].t <= now
      BY <3>1
    <3>3. gs[i].good => gs[i].t % Wrap = gs[i].air % Wrap
      BY <3>1, Zenon
    <3>4. \A j \in 1 .. n + 1 : ~(i < j)
      BY <1>1, <2>1
    <3> QED BY <3>2, <3>3, <3>4
  <2>2. CASE i # n + 1
    <3>1. i \in 1 .. n /\ gs[i] = old[i] /\ i \in DOMAIN old
      BY <1>1, <2>2
    <3>2. /\ old[i].t <= t
          /\ old[i].good => old[i].t % Wrap = old[i].air % Wrap
          /\ \A j \in DOMAIN old : i < j => old[i].t <= old[j].t
      BY <3>1, Zenon DEF Dated
    <3>3. gs[i].t <= t /\ gs[i].t <= now
      BY <1>2, <3>1, <3>2
    <3>4. gs[i].good => gs[i].t % Wrap = gs[i].air % Wrap
      BY <3>1, <3>2, Zenon
    <3>5. ASSUME NEW j \in 1 .. n + 1, i < j PROVE gs[i].t <= gs[j].t
      <4>1. CASE j = n + 1
        BY <1>1, <3>3, <4>1
      <4>2. CASE j # n + 1
        <5>1. j \in DOMAIN old /\ gs[j] = old[j]
          BY <1>1, <4>2
        <5> QED BY <3>1, <3>2, <3>5, <5>1
      <4> QED BY <4>1, <4>2
    <3> QED BY <3>3, <3>4, <3>5
  <2> QED BY <2>1, <2>2
<1>4. Dated(gs, now)
  BY <1>1, <1>3, Zenon DEF Dated
<1> QED BY <1>4 DEF gs

(* A window from which the front was dropped up to a grant young enough.    *)
LEMMA FrontDropped ==
  ASSUME NEW gs, NEW now \in Nat, Dated(gs, now),
         NEW k \in DOMAIN gs, now - gs[k].t <= Window
  PROVE  Held(SubSeq(gs, k, Len(gs)), now)
<1> DEFINE n == Len(gs)
           kept == SubSeq(gs, k, n)
<1>1. gs \in Seq(Grant) /\ n \in Nat /\ k \in 1 .. n /\ k \in Nat /\ k <= n /\ DOMAIN gs = 1 .. n
  BY DEF Dated
<1>2. /\ kept \in Seq(Grant)
      /\ \A i \in DOMAIN kept : i \in Nat /\ i + k - 1 \in k .. n /\ kept[i] = gs[i + k - 1]
  <2>1. kept \in Seq(Grant) /\ DOMAIN kept = 1 .. n - k + 1
    BY <1>1
  <2>2. ASSUME NEW i \in DOMAIN kept
        PROVE  i \in Nat /\ i + k - 1 \in k .. n /\ kept[i] = gs[i + k - 1]
    BY <1>1, <2>1
  <2> QED BY <2>1, <2>2
<1>3. \A i \in 1 .. n : gs[i].t \in Nat
  <2>1. \A i \in 1 .. n : gs[i] \in Grant
    BY <1>1
  <2> QED BY <2>1 DEF Grant
<1>4. \A i, j \in 1 .. n : i < j => gs[i].t <= gs[j].t
  BY <1>1, Zenon DEF Dated
<1>5. \A i \in 1 .. n : gs[i].t <= now /\ (gs[i].good => gs[i].t % Wrap = gs[i].air % Wrap)
  BY <1>1, Zenon DEF Dated
<1> HIDE DEF n, kept
<1>6. ASSUME NEW i \in DOMAIN kept
      PROVE  /\ kept[i].t <= now /\ now - kept[i].t <= Window
             /\ kept[i].good => kept[i].t % Wrap = kept[i].air % Wrap
             /\ \A j \in DOMAIN kept : i < j => kept[i].t <= kept[j].t
  <2> DEFINE m == i + k - 1
  <2>1. i \in Nat /\ m \in 1 .. n /\ kept[i] = gs[m] /\ (k < m \/ k = m)
    <3>1. i \in Nat /\ m \in k .. n /\ kept[i] = gs[m]
      BY <1>2, Zenon
    <3> QED BY <1>1, <3>1
  <2>2. ASSUME NEW j \in DOMAIN kept, i < j PROVE kept[i].t <= kept[j].t
    <3> DEFINE l == j + k - 1
    <3>1. j \in Nat /\ l \in k .. n /\ kept[j] = gs[l]
      BY <1>2, Zenon
    <3>2. l \in 1 .. n /\ m < l
      BY <1>1, <2>1, <2>2, <3>1
    <3> HIDE DEF m, l
    <3> QED BY <1>4, <2>1, <3>1, <3>2
  <2> HIDE DEF m
  <2>3. gs[k].t <= gs[m].t
    <3>1. gs[k].t \in Nat
      BY <1>1, <1>3
    <3>2. CASE k < m
      BY <1>1, <1>4, <2>1, <3>2, Zenon
    <3>3. CASE k = m
      BY <3>1, <3>3
    <3> QED BY <2>1, <3>2, <3>3
  <2>4. gs[m].t <= now /\ now - gs[m].t <= Window
    <3>1. gs[k].t \in Nat /\ gs[m].t \in Nat
      BY <1>1, <1>3, <2>1
    <3>2. gs[m].t <= now
      BY <1>5, <2>1, Zenon
    <3> QED BY <2>3, <3>1, <3>2, CallFacts
  <2>5. kept[i].good => kept[i].t % Wrap = kept[i].air % Wrap
    BY <1>5, <2>1, Zenon
  <2>6. kept[i].t <= now /\ now - kept[i].t <= Window
    BY <2>1, <2>4
  <2> QED BY <2>2, <2>5, <2>6
<1>7. Held(kept, now)
  BY <1>2, <1>6, Zenon DEF Held, Dated
<1> QED BY <1>7 DEF kept, n

LEMMA WindowStep == NumberInv /\ WindowInv /\ [CallNext]_callVars => WindowInv'
<1> SUFFICES ASSUME NumberInv, WindowInv, [CallNext]_callVars PROVE WindowInv'
  OBVIOUS
<1>1. CASE UNCHANGED track
  BY <1>1 DEF WindowInv
<1>2. ASSUME NEW j \in jobs, on_dl_dci(j) PROVE WindowInv'
  <2> DEFINE now == IF track.last = -1 THEN j.raw ELSE track.abs + Unwrapped(j.raw, track.last)
             g   == [t |-> now, air |-> j.air, good |-> j.good]
             gs  == Append(track.grants, g)
  <2>1. /\ j \in Job /\ (j.good => j.raw = j.air % Wrap)
        /\ j.raw \in 0 .. Wrap - 1 /\ j.air \in Nat /\ j.good \in BOOLEAN
    <3>1. j \in Job /\ (j.good => j.raw = j.air % Wrap)
      BY DEF NumberInv, JobsTrue
    <3> QED BY <3>1 DEF Job
  <2>2. /\ track.last \in {-1} \cup (0 .. Wrap - 1) /\ track.abs \in Nat
        /\ track.last = -1 => track.grants = <<>>
        /\ track.last # -1 => track.abs % Wrap = track.last
        /\ Held(track.grants, track.abs)
    <3> QED BY DEF WindowInv
  <2>3. now \in Nat /\ now % Wrap = j.raw /\ (track.last # -1 => track.abs <= now)
    <3>1. CASE track.last = -1
      <4>1. now = j.raw
        BY <3>1
      <4> HIDE DEF now
      <4> QED BY <2>1, <3>1, <4>1, RawUnwrapped
    <3>2. CASE track.last # -1
      <4>1. now = track.abs + Unwrapped(j.raw, track.last) /\ track.last \in 0 .. Wrap - 1
        BY <2>2, <3>2
      <4>2. track.abs % Wrap = track.last
        BY <2>2, <3>2
      <4>3. /\ track.abs + Unwrapped(j.raw, track.last) \in Nat
            /\ track.abs + Unwrapped(j.raw, track.last) >= track.abs
            /\ (track.abs + Unwrapped(j.raw, track.last)) % Wrap = j.raw
        BY <2>1, <2>2, <4>1, <4>2, NowAgrees
      <4> HIDE DEF now
      <4>4. now \in Nat /\ now >= track.abs
        BY <4>1, <4>3
      <4>5. now % Wrap = j.raw
        BY <4>1, <4>3, Zenon
      <4> QED BY <2>2, <4>4, <4>5
    <3> QED BY <3>1, <3>2
  <2>4. \/ \E k \in FirstKept(gs, now) :
              track' = [last |-> j.raw, abs |-> now, grants |-> SubSeq(gs, k, Len(gs))]
        \/ UNCHANGED track
    BY <1>2 DEF on_dl_dci
  <2> HIDE DEF now
  <2>5. g \in Grant /\ g.t = now /\ (g.good => now % Wrap = g.air % Wrap)
    BY <2>1, <2>3 DEF Grant
  <2> HIDE DEF g, gs
  <2>6. ASSUME NEW k \in FirstKept(gs, now),
               track' = [last |-> j.raw, abs |-> now, grants |-> SubSeq(gs, k, Len(gs))]
        PROVE  WindowInv'
    <3> DEFINE t    == IF track.last = -1 THEN 0 ELSE track.abs
               old  == track.grants
               kept == SubSeq(gs, k, Len(gs))
    <3>1. t \in Nat /\ t <= now /\ Held(old, t)
      <4>1. t \in Nat /\ t <= now
        BY <2>2, <2>3
      <4>2. CASE track.last = -1
        <5>1. old = <<>>
          BY <2>2, <4>2
        <5>2. Held(old, t)
          <6> HIDE DEF old
          <6> QED BY <5>1 DEF Held, Dated
        <5> QED BY <4>1, <5>2
      <4>3. CASE track.last # -1
        BY <2>2, <4>1, <4>3
      <4> QED BY <4>2, <4>3
    <3>2. Dated(gs, now)
      <4> HIDE DEF t
      <4> QED BY <2>3, <2>5, <3>1, GrantAdded, Zenon DEF Held, gs, old
    <3>3. Held(kept, now)
      <4>1. k \in DOMAIN gs /\ now - gs[k].t <= Window
        BY DEF FirstKept, Fits
      <4> QED BY <2>3, <3>2, <4>1, FrontDropped, Zenon
    <3> HIDE DEF t, old, kept
    <3>4. track' = [last |-> j.raw, abs |-> now, grants |-> kept]
      BY <2>6 DEF kept
    <3>5. track'.last = j.raw /\ track'.abs = now /\ track'.grants = kept
      BY <3>4
    <3>6. track' \in [last : {-1} \cup (0 .. Wrap - 1), abs : Nat, grants : Seq(Grant)]
      <4>1. kept \in Seq(Grant)
        BY <3>3 DEF Held, Dated
      <4> QED BY <2>1, <2>3, <3>4, <4>1
    <3>7. track'.last # -1 /\ track'.abs % Wrap = track'.last
      <4>1. track'.last # -1
        BY <2>1, <3>5
      <4> QED BY <2>3, <3>5, <4>1, Zenon
    <3> QED BY <3>3, <3>5, <3>6, <3>7, Zenon DEF WindowInv
  <2> QED BY <2>4, <2>6, <1>1
<1>3. CASE analyze_voice_locked
  BY <1>3, <1>1 DEF analyze_voice_locked
<1>4. ASSUME NEW skip \in 0 .. MaxSkip, NEW dropped \in BOOLEAN, zerocopy(skip, dropped)
      PROVE  WindowInv'
  BY <1>4, <1>1 DEF zerocopy
<1>5. CASE UNCHANGED callVars
  BY <1>5, <1>1 DEF callVars
<1> QED BY <1>2, <1>3, <1>4, <1>5 DEF CallNext

(* Whatever order the decode threads finish in, and wherever the numbers    *)
(* wrap, the window stays sorted, short, and as far apart as on the air.    *)
THEOREM WindowAlwaysTrue == CallSpec => []WindowTrue
<1>1. WindowInv => WindowTrue
  <2> SUFFICES ASSUME WindowInv PROVE WindowTrue
    OBVIOUS
  <2> DEFINE gs == track.grants
  <2>0. track.abs \in Nat /\ Held(gs, track.abs)
    <3> QED BY DEF WindowInv
  <2>1. gs \in Seq(Grant)
    BY <2>0 DEF Held, Dated
  <2>2. \A i \in DOMAIN gs : gs[i] \in Grant
    <3> QED BY <2>1
  <2>3. \A i \in DOMAIN gs : gs[i].t \in Nat /\ gs[i].air \in Nat
    BY <2>2 DEF Grant
  <2>4. \A i \in DOMAIN gs :
          /\ gs[i].t <= track.abs /\ track.abs - gs[i].t <= Window
          /\ gs[i].good => gs[i].t % Wrap = gs[i].air % Wrap
          /\ \A j \in DOMAIN gs : i < j => gs[i].t <= gs[j].t
    BY <2>0, Zenon DEF Held, Dated
  <2> HIDE DEF gs
  <2>5. ASSUME NEW i \in DOMAIN gs, NEW j \in DOMAIN gs, i < j
        PROVE  /\ gs[j].t - gs[i].t \in 0 .. Window
               /\ gs[i].good /\ gs[j].good =>
                    (gs[j].t - gs[i].t) % Wrap = (gs[j].air - gs[i].air) % Wrap
    <3>1. gs[j].t - gs[i].t \in 0 .. Window
      <4>1. gs[i].t \in Nat /\ gs[j].t \in Nat
        BY <2>3
      <4>2. gs[i].t <= gs[j].t /\ gs[j].t <= track.abs /\ track.abs - gs[i].t <= Window
        BY <2>4, <2>5, Zenon
      <4> QED BY <2>0, <4>1, <4>2, CallFacts
    <3>2. ASSUME gs[i].good, gs[j].good
          PROVE  (gs[j].t - gs[i].t) % Wrap = (gs[j].air - gs[i].air) % Wrap
      <4>1. /\ Wrap \in Nat \ {0} /\ gs[i].t \in Int /\ gs[j].t \in Int /\ gs[i].air \in Int /\ gs[j].air \in Int
        BY <2>3, CallFacts
      <4>2. gs[i].t % Wrap = gs[i].air % Wrap /\ gs[j].t % Wrap = gs[j].air % Wrap
        BY <2>4, <3>2, Zenon
      <4> DEFINE s == gs[i].t
                 t == gs[j].t
                 a == gs[i].air
                 b == gs[j].air
                 u == s % Wrap
                 v == t % Wrap
      <4>3. /\ Wrap \in Nat \ {0} /\ s \in Int /\ t \in Int /\ a \in Int /\ b \in Int
            /\ s % Wrap = u /\ a % Wrap = u /\ t % Wrap = v /\ b % Wrap = v
        BY <4>1, <4>2
      <4> HIDE DEF s, t, a, b, u, v
      <4>4. (t - s) % Wrap = (b - a) % Wrap
        <5> DEFINE Diff(x, y) == IF x >= y THEN x - y ELSE x - y + Wrap
        <5>1. (t - s) % Wrap = Diff(t % Wrap, s % Wrap)
          BY <4>3, RemainderOfDifference
        <5>2. (b - a) % Wrap = Diff(b % Wrap, a % Wrap)
          BY <4>3, RemainderOfDifference
        <5> HIDE DEF Diff
        <5> QED BY <4>3, <5>1, <5>2, Zenon
      <4> QED BY <4>4 DEF s, t, a, b
    <3> QED BY <3>1, <3>2
  <2> QED BY <2>5, Zenon DEF WindowTrue, gs
<1> QED BY <1>1, NumberInit, NumberStep, WindowInit, WindowStep, PTL DEF CallSpec
=============================================================================
