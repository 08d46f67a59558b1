---------------------------- MODULE LteCentering ----------------------------
(* The digital carrier correction of the LTE engine, cfo_correction_hz:     *)
(* feed() shifts every sample by it.  The worker adds the offset a cell     *)
(* search measured (run_worker in src/src/lte/lte_engine.cpp), the GUI      *)
(* thread adds the offset the cell line shows ("Center now" and the         *)
(* automatic mode of drawLte in src/src/gui/gui_panels.cpp).  Both load,    *)
(* add and store without a lock.  off is the true offset of the cell; an    *)
(* estimate is the difference of off and the correction of that moment.     *)
(* One unit is 500 Hz.                                                      *)
EXTENDS Integers

CONSTANTS
  MaxOff,     (* bound: the oscillator stays this close to its nominal      *)
  Err,        (* error of the coarse estimate of a search                   *)
  SearchRange,(* a search finds a cell no farther than this                 *)
  Limit,      (* 0.45 * SRSRAN_CS_SAMP_FREQ                                 *)
  BootOver,   (* the worker corrects a coarse estimate over this: 500 Hz    *)
  AutoOver,   (* the GUI corrects a live estimate over this: 1000 Hz        *)
  Cooldown,   (* seconds between automatic corrections: 5                   *)
  Clicks      (* the user presses "Center now"                              *)

ASSUME CenteringAssumption ==
  /\ MaxOff \in Nat /\ Err \in Nat /\ SearchRange \in Nat /\ Limit \in Nat
  /\ MaxOff + Err <= Limit /\ BootOver \in Nat /\ AutoOver \in Nat /\ Cooldown \in Nat
  /\ Clicks \in BOOLEAN

VARIABLES
  off,        (* true offset                                                *)
  corr,       (* cfo_correction_hz                                          *)
  phase,      (* worker: search, mib, found, boot, decode                   *)
  local,      (* the worker's last estimate: its info from the search, then *)
              (* what ue_sync tracks                                        *)
  loaded,     (* cur of the bootstrap                                       *)
  info,       (* cell_info: cfo_hz, cfo_live, haveCell; base is the         *)
              (* correction the estimate was measured on                    *)
  gui,        (* GUI thread: frame, shown (holds the copy ci), store        *)
  ci, cur,    (* its copy, its load of the correction                       *)
  cool,       (* seconds until an automatic correction is allowed           *)
  stale       (* history: an estimate other than 0 was added to another     *)
              (* correction than the one it was measured on                 *)

workerVars == <<phase, local, loaded>>
guiVars == <<gui, ci, cur>>
vars == <<off, corr, workerVars, info, guiVars, cool, stale>>

Offsets == -MaxOff .. MaxOff
Corrections == -Limit .. Limit
Abs(x) == IF x < 0 THEN -x ELSE x

NoEstimate == [cfo |-> 0, base |-> 0, live |-> FALSE, have |-> FALSE]
Untracked == [cfo |-> 0, base |-> 0, live |-> TRUE, have |-> TRUE]
Measured(c, live) == [cfo |-> c, base |-> corr, live |-> live, have |-> TRUE]

Init ==
  /\ off \in Offsets /\ corr = 0
  /\ phase = "search" /\ local = NoEstimate /\ loaded = 0 /\ info = NoEstimate
  /\ gui = "frame" /\ ci = NoEstimate /\ cur = 0 /\ cool = 0 /\ stale = FALSE

Doubled(c, cfo) == c + cfo + cfo                                         (* mutant *)
Plus(c, cfo) == c + cfo

Clamped(x) == IF x > Limit THEN Limit ELSE IF x < -Limit THEN -Limit ELSE x

drift ==
  /\ off' \in {off - 1, off + 1} \cap Offsets
  /\ UNCHANGED <<corr, workerVars, info, guiVars, cool, stale>>

(* ------------------------------- worker -------------------------------- *)
searchCell ==
  /\ phase = "search" /\ Abs(off - corr) <= SearchRange
  /\ \E e \in -Err .. Err : local' = Measured(off - corr + e, FALSE)
  /\ phase' = "mib"
  /\ UNCHANGED <<off, corr, loaded, info, guiVars, cool, stale>>

decodeMib ==
  /\ phase = "mib"
  /\ \/ phase' = "search" /\ UNCHANGED info
     \/ phase' = "found" /\ info' = local
  /\ UNCHANGED <<off, corr, local, loaded, guiVars, cool, stale>>

bootstrapLoad ==
  /\ phase = "found"
  /\ \/ Abs(local.cfo) > BootOver /\ phase' = "boot" /\ loaded' = corr /\ UNCHANGED local
     \/ Abs(local.cfo) <= BootOver /\ phase' = "decode" /\ local' = Untracked /\ UNCHANGED loaded
  /\ UNCHANGED <<off, corr, info, guiVars, cool, stale>>

bootstrapStore ==
  /\ phase = "boot"
  /\ phase' = "decode" /\ corr' = Clamped(Plus(loaded, local.cfo))
  /\ stale' = (stale \/ loaded # local.base)
  /\ local' = Untracked /\ loaded' = 0 /\ UNCHANGED <<off, info, guiVars, cool>>

Elapsed == IF cool > 0 THEN cool - 1 ELSE 0

(* Once a second the decode loop publishes what ue_sync tracks: the offset, *)
(* or without sync what it was when there was sync, zero at first.          *)
publish ==
  /\ phase = "decode"
  /\ \/ Abs(off - corr) <= SearchRange /\ local' = Measured(off - corr, TRUE)
     \/ UNCHANGED local
  /\ info' = local' /\ cool' = Elapsed
  /\ UNCHANGED <<off, corr, phase, loaded, guiVars, stale>>

(* No sync for 3 s, or no second without it: search again, what cell_info   *)
(* says stays.                                                             *)
loseSync ==
  /\ phase = "decode" /\ phase' = "search" /\ local' = NoEstimate
  /\ UNCHANGED <<off, corr, loaded, info, guiVars, cool, stale>>

secondOfSearch ==
  /\ phase = "search" /\ cool > 0 /\ cool' = Elapsed
  /\ UNCHANGED <<off, corr, workerVars, info, guiVars, stale>>

(* ------------------------------ GUI thread ----------------------------- *)
(* The button, or the automatic mode.  lteLastCenterT is never 0.0, so what *)
(* drawLte calls its bootstrap mode does not exist.                         *)
CenterNow == Clicks
AutoCenter == info.live /\ Abs(info.cfo) > AutoOver /\ cool = 0

(* A frame that corrects takes its copy of the cell first.  A frame that    *)
(* does not changes nothing.                                                *)
drawLte ==
  /\ gui = "frame" /\ info.have /\ (CenterNow \/ AutoCenter)
  /\ gui' = "shown" /\ ci' = info
  /\ UNCHANGED <<off, corr, workerVars, info, cur, cool, stale>>

applyLoad ==
  /\ gui = "shown" /\ gui' = "store" /\ cur' = corr
  /\ UNCHANGED <<off, corr, workerVars, info, ci, cool, stale>>

applyStore ==
  /\ gui = "store"
  /\ gui' = "frame" /\ ci' = NoEstimate
  /\ corr' = Clamped(Plus(cur, ci.cfo)) /\ cool' = Cooldown
  /\ stale' = (stale \/ (ci.cfo # 0 /\ cur # ci.base))
  /\ cur' = 0 /\ UNCHANGED <<off, workerVars, info>>

Next == \/ drift
        \/ searchCell \/ decodeMib \/ bootstrapLoad \/ bootstrapStore
        \/ publish \/ loseSync \/ secondOfSearch
        \/ drawLte \/ applyLoad \/ applyStore

Spec == Init /\ [][Next]_vars

(* The correction stays an offset that the oscillator can have, whatever    *)
(* the interleaving of the worker's and the GUI's load and store, as long   *)
(* as every estimate was added to the correction it was measured on.        *)
CorrectionSane == Abs(corr) <= MaxOff + Err \/ stale

(* What follows a stale correction shows nothing more of CorrectionSane.    *)
NotStale == ~stale

(* A search can find the cell again: the correction is "self-correcting:    *)
(* each re-search measures the residual on the already-shifted stream"      *)
(* (start(), lte_engine.cpp).                                               *)
CellInReach == Abs(off - corr) <= SearchRange
====
