------------------------------ MODULE LteCalls ------------------------------
(* How the LTE engine (src/src/lte/lte_engine.cpp) tells when a phone call  *)
(* of one UE begins and ends.  run_decode numbers the subframes it          *)
(* synchronises to by counting frames from the last MIB; decode threads     *)
(* finish subframes in any order; on_dl_dci unwraps their numbers into the  *)
(* times of a window of grants; once a second analyze_voice_locked looks    *)
(* for the cadence of speech in the window.  air is the true time on the    *)
(* air in subframes.                                                        *)
EXTENDS Integers, Sequences, FiniteSets

CONSTANTS
  Sf,         (* subframes in a frame: 10                                   *)
  Frames,     (* frame numbers: 1024                                        *)
  Gap,        (* gap that makes the loop read the MIB again: 200 subframes  *)
  Window,     (* length of the window of grants: 3000 subframes, less than  *)
              (* the Sf * Frames after which subframe numbers repeat        *)
  MaxGrants,  (* grants a window holds: 400                                 *)
  Period,     (* cadence of speech: 20 and 40 subframes                     *)
  MinGrants,  (* grants a verdict needs: 8                                  *)
  Sustain,    (* seconds to start and to end a call: 3                      *)
  Jobs,       (* bound: subframes with the decode threads                   *)
  MaxSkip,    (* bound: subframes missed in a row                           *)
  MaxAir,     (* bound: subframes                                           *)
  MaxSecs     (* bound: seconds since the last call ended                   *)

ASSUME CallAssumption ==
  /\ Sf \in Nat \ {0} /\ Frames \in Nat \ {0}
  /\ Gap \in Nat /\ Window \in Nat /\ MaxGrants \in Nat \ {0} /\ Sustain \in Nat \ {0}
  /\ MaxSkip \in Nat

VARIABLES
  air,        (* true time of the next subframe                             *)
  sfn, decode_state, (* local variables of run_decode                       *)
  slipped,    (* history: frames were missed since the MIB that the loop is *)
              (* not meant to notice                                        *)
  jobs,       (* subframes with the decode threads: raw number, true time,  *)
              (* and whether the number is the true one                     *)
  track,      (* VoiceTrack of the UE: last (last_raw, -1 without has_raw), *)
              (* abs (abs_ms), grants [t, air, good]                        *)
  call,       (* VoiceTrack: voice (voice_secs), idle (idle_secs), active   *)
  verdicts    (* history: verdicts since the UE came or its call ended      *)

callVars == <<air, sfn, decode_state, slipped, jobs, track, call, verdicts>>

Wrap == Sf * Frames
FrameOf(a) == (a \div Sf) % Frames

NoTrack == [last |-> -1, abs |-> 0, grants |-> <<>>]
NoCall == [voice |-> 0, idle |-> 0, active |-> FALSE]

CallInit ==
  /\ air = 0 /\ sfn = 0 /\ decode_state = 0 /\ slipped = FALSE /\ jobs = {}
  /\ track = NoTrack /\ call = NoCall /\ verdicts = <<>>

(* ---------------------- the loop of run_decode ------------------------- *)
NeverReSync(gap) == FALSE                                                (* mutant *)
ReSync(gap) == gap > Gap

AfterSubframe(n, sf) == IF sf = Sf - 1 THEN (n + 1) % Frames ELSE n

FramesMissed(skip) == \E a \in air .. air + skip - 1 : a % Sf = Sf - 1

(* A subframe with sync, after skip others: missed while srsRAN searched,   *)
(* which takes their time, or dropped by the full ring, which does not.     *)
zerocopy(skip, dropped) ==
  LET a   == air + skip
      sf  == a % Sf
      gap == IF dropped THEN 1 ELSE skip + 1
      st  == IF ReSync(gap) THEN 0 ELSE decode_state
      slip == slipped \/ (FramesMissed(skip) /\ gap <= Gap)
  IN  /\ a < MaxAir /\ air' = a + 1
      /\ \/ /\ st = 0 /\ sf = 0                                  (* MIB found *)
            /\ decode_state' = 1 /\ sfn' = AfterSubframe(FrameOf(a), sf)
            /\ slipped' = FALSE /\ UNCHANGED jobs
         \/ /\ st = 0                                         (* no MIB here  *)
            /\ decode_state' = 0 /\ sfn' = AfterSubframe(sfn, sf)
            /\ slipped' = FALSE /\ UNCHANGED jobs
         \/ /\ st = 1 /\ UNCHANGED decode_state /\ slipped' = slip
            /\ sfn' = AfterSubframe(sfn, sf)
            /\ jobs' = IF Cardinality(jobs) < Jobs
                       THEN jobs \cup {[raw |-> sfn * Sf + sf, air |-> a, good |-> ~slip]}
                       ELSE jobs
      /\ UNCHANGED <<track, call, verdicts>>

(* --------------------- decode threads, in any order -------------------- *)
NotUnwrapped(raw, last) == raw - last                                    (* mutant *)
Unwrapped(raw, last) == IF raw < last THEN raw - last + Wrap ELSE raw - last

(* Grants are dropped from the front while there are too many or the first  *)
(* is too old.                                                              *)
Fits(gs, now, k) == Len(gs) - k + 1 <= MaxGrants /\ now - gs[k].t <= Window
FirstKept(gs, now) ==
  {k \in DOMAIN gs : Fits(gs, now, k) /\ \A j \in 1 .. k - 1 : ~Fits(gs, now, j)}

on_dl_dci(j) ==
  LET now == IF track.last = -1 THEN j.raw ELSE track.abs + Unwrapped(j.raw, track.last)
      gs  == Append(track.grants, [t |-> now, air |-> j.air, good |-> j.good])
  IN  /\ j \in jobs /\ jobs' = jobs \ {j}
      /\ \/ \E k \in FirstKept(gs, now) :
              track' = [last |-> j.raw, abs |-> now, grants |-> SubSeq(gs, k, Len(gs))]
         \/ UNCHANGED track                    (* nothing for the UE *)
      /\ UNCHANGED <<air, sfn, decode_state, slipped, call, verdicts>>

(* ------------------------ once a second -------------------------------- *)
Matching == {i \in DOMAIN track.grants :
               \E j \in DOMAIN track.grants : track.grants[j].t = track.grants[i].t - Period}

VoiceNow ==
  /\ Len(track.grants) >= MinGrants
  /\ 2 * Cardinality(Matching) >= Len(track.grants)

StillCounted(c) == [c EXCEPT !.active = FALSE]                           (* mutant *)
Ended(c) == [c EXCEPT !.active = FALSE, !.voice = 0]

Counted == IF VoiceNow THEN [call EXCEPT !.voice = @ + 1, !.idle = 0]
                       ELSE [call EXCEPT !.idle = @ + 1]

(* voice_secs is the number of matching seconds since the last call, idle   *)
(* seconds between them do not reset it.  A second without a grant sees the *)
(* window as it was: time does not pass in it.                              *)
analyze_voice_locked ==
  /\ track.last # -1 /\ Len(verdicts) < MaxSecs
  /\ \/ /\ ~call.active /\ Counted.voice >= Sustain
        /\ call' = [Counted EXCEPT !.active = TRUE]
        /\ verdicts' = Append(verdicts, VoiceNow)
     \/ /\ call.active /\ Counted.idle >= Sustain
        /\ call' = Ended(Counted) /\ verdicts' = <<>>
     \/ /\ IF call.active THEN Counted.idle < Sustain ELSE Counted.voice < Sustain
        /\ call' = Counted /\ verdicts' = Append(verdicts, VoiceNow)
  /\ UNCHANGED <<air, sfn, decode_state, slipped, jobs, track>>

CallNext ==
  \/ \E skip \in 0 .. MaxSkip, dropped \in BOOLEAN : zerocopy(skip, dropped)
  \/ \E j \in jobs : on_dl_dci(j)
  \/ analyze_voice_locked

CallSpec == CallInit /\ [][CallNext]_callVars

(* ------------------------------ properties ----------------------------- *)
(* While run_decode decodes, its frame number is the true one, unless       *)
(* frames were missed in a gap too short for its recovery or were dropped   *)
(* by the ring.                                                             *)
SfnTrue == decode_state = 1 /\ ~slipped => sfn = FrameOf(air)

(* The window is sorted, as its binary search requires, no longer than      *)
(* Window, and two grants with true numbers are as far apart as they were   *)
(* on the air, up to the wrap: decode threads finishing out of order and    *)
(* frame numbers that wrap do not bend it.                                  *)
WindowTrue ==
  LET gs == track.grants
  IN  \A i, j \in DOMAIN gs : i < j =>
        /\ gs[j].t - gs[i].t \in 0 .. Window
        /\ gs[i].good /\ gs[j].good =>
             (gs[j].t - gs[i].t) % Wrap = (gs[j].air - gs[i].air) % Wrap

(* A call is on from the Sustain-th matching second since the last one, and *)
(* goes off with Sustain seconds in a row that do not match.                *)
CallFollowsVerdicts ==
  /\ call.active <=> Cardinality({i \in DOMAIN verdicts : verdicts[i]}) >= Sustain
  /\ call.active => \E i \in DOMAIN verdicts : i > Len(verdicts) - Sustain /\ verdicts[i]
====
