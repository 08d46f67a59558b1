------------------------------ MODULE LteEngine -----------------------------
(* The LTE engine of src/src/lte/lte_engine.cpp: its sample ring, its      *)
(* worker and the decode threads of one acquisition.  Four kinds of thread  *)
(* meet here.                                                              *)
(*   SDR thread    feed() -> push_resampled(): resample to target_rate and  *)
(*                 append to the ring.                                     *)
(*   GUI thread    start() and stop() behind two buttons.                   *)
(*   worker        run_worker(): search a cell, decode its MIB, run_decode, *)
(*                 on sync loss search again.                              *)
(*   Decoders      the threads of the Phy that run_decode builds.  They     *)
(*                 reach the engine through its consumer, whose pointer     *)
(*                 stays good, and through global hooks (cs_lte_hook.cc).   *)
(* A sample is the rate it was resampled to; a cell is the rate it is       *)
(* decoded at; acq numbers the acquisitions, so that what the tables show   *)
(* can be told by the cell it came from.                                    *)
EXTENDS Integers, Sequences, FiniteSets

CONSTANTS
  CsRate,       (* SRSRAN_CS_SAMP_FREQ, the rate of search and MIB          *)
  CellRates,    (* srsran_sampling_freq_hz() of the cells on air            *)
  RingCap,      (* ring_cap, in pushes                                      *)
  Decoders,     (* decode threads of the Phy: 4                             *)
  Buffers,      (* subframe buffers of the Phy: 20                          *)
  MaxAcq        (* bound: acquisitions                                      *)

ASSUME LteAssumption ==
  /\ CsRate \in Nat \ {0} /\ CellRates \subseteq Nat \ {0}
  /\ RingCap \in Nat \ {0} /\ Buffers \in Nat \ {0} /\ MaxAcq \in Nat
  /\ IsFiniteSet(Decoders)

VARIABLES
  ring,       (* the deque of samples, guarded by ring_mtx                  *)
  cfgRate,    (* cfg_out_rate, guarded by resamp_mtx                        *)
  target,     (* target_rate                                                *)
  fed,        (* history: a feed has loaded the present target              *)
  spc,        (* SDR thread: idle, called (past the test of run), push      *)
              (* (holds resamp_mtx)                                         *)
  run,
  gpc,        (* GUI thread: idle, inside start() or inside stop()          *)
  missed,     (* history: stop() notified a worker not yet asleep           *)
  wpc,        (* worker                                                     *)
  waiting,    (* worker in pop(): no, armed (predicate false, ring_mtx      *)
              (* held), asleep                                              *)
  acq,        (* history: number of the acquisition                         *)
  haveCell, cellRate, sibOf,   (* have_cell, cell_info; whose SIB1 (0: none)*)
  shown,      (* acquisitions with rows in ues, history_pts, conn_events,   *)
              (* vtrack or call_log                                         *)
  pending,    (* subframes in the Phy's pending queue                       *)
  at,         (* decode thread -> what it is doing                          *)
  jobOf,      (* decode thread -> acquisition of the subframe it has        *)
  hook,       (* the event and the SIB hook: their fn and user are set      *)
  unhooked    (* stores of the set...Cb(nullptr, nullptr) done             *)

sdrVars  == <<ring, cfgRate, spc>>
workVars == <<wpc, waiting, acq>>
cellVars == <<haveCell, cellRate, sibOf>>
phyVars  == <<pending, at, jobOf, hook, unhooked>>
vars == <<sdrVars, target, fed, run, gpc, missed, workVars, cellVars, shown, phyVars>>

Hooks == {"event", "sib"}
Reading == {"search", "mib", "decode"}      (* phases that call pop()       *)
Rates == CellRates \cup {CsRate}
Busy == {d \in Decoders : at[d] # "idle"}

TypeOK ==
  /\ ring \in Seq(Rates) /\ Len(ring) <= RingCap
  /\ {cfgRate, target, cellRate} \subseteq Rates
  /\ spc \in {"idle", "called", "push"}
  /\ gpc \in {"idle", "configure", "clear", "launch", "notify", "join"}
  /\ wpc \in Reading \cup {"none", "top", "found", "setup", "join", "unhook", "ended"}
  /\ waiting \in {"no", "armed", "asleep"} /\ (waiting # "no" => wpc \in Reading)
  /\ acq \in 0 .. MaxAcq /\ sibOf \in 0 .. MaxAcq
  /\ shown \subseteq 0 .. MaxAcq
  /\ pending + Cardinality(Busy) \in 0 .. Buffers - 1
  /\ at \in [Decoders -> Hooks \cup {"idle", "work", "parsing", "crashed"}]
  /\ jobOf \in [Decoders -> 0 .. MaxAcq]
  /\ hook \in [Hooks -> [fn : BOOLEAN, user : BOOLEAN]]
  /\ unhooked \in 0 .. 4
  /\ {fed, run, missed, haveCell} \subseteq BOOLEAN

Init ==
  /\ ring = <<>> /\ cfgRate = CsRate /\ target = CsRate /\ fed = FALSE /\ spc = "idle"
  /\ run = FALSE /\ gpc = "idle" /\ missed = FALSE
  /\ wpc = "none" /\ waiting = "no" /\ acq = 0
  /\ haveCell = FALSE /\ cellRate = CsRate /\ sibOf = 0
  /\ shown = {}
  /\ pending = 0 /\ at = [d \in Decoders |-> "idle"] /\ jobOf = [d \in Decoders |-> 0]
  /\ hook = [h \in Hooks |-> [fn |-> FALSE, user |-> FALSE]]
  /\ unhooked = 4

(* ---------------------------- SDR thread ------------------------------- *)
feedBegin ==
  /\ spc = "idle" /\ run
  /\ spc' = "called"
  /\ UNCHANGED <<ring, cfgRate, target, fed, run, gpc, missed, workVars, cellVars, shown, phyVars>>

RingKept == ring                                                         (* mutant *)
RingCleared == <<>>

(* push_resampled up to the resampler: a new target rate reconfigures it    *)
(* and empties the ring.  armed means the worker has ring_mtx.              *)
feedResample ==
  /\ spc = "called" /\ waiting # "armed"
  /\ spc' = "push" /\ fed' = TRUE
  /\ cfgRate' = target
  /\ ring' = IF target # cfgRate THEN RingCleared ELSE ring
  /\ UNCHANGED <<target, run, gpc, missed, workVars, cellVars, shown, phyVars>>

NotTrimmed(s) == s                                                       (* mutant *)
Trimmed(s) == IF Len(s) > RingCap THEN SubSeq(s, Len(s) - RingCap + 1, Len(s)) ELSE s

AsleepStill == waiting                                                   (* mutant *)
Woken == IF waiting = "asleep" THEN "no" ELSE waiting

feedPush ==
  /\ spc = "push" /\ waiting # "armed"
  /\ spc' = "idle"
  /\ \/ UNCHANGED <<ring, waiting>>                 (* ns <= 0: no sample out  *)
     \/ ring' = Trimmed(Append(ring, cfgRate)) /\ waiting' = Woken
  /\ UNCHANGED <<cfgRate, target, fed, run, gpc, missed, wpc, acq, cellVars, shown, phyVars>>

(* ---------------------------- GUI thread ------------------------------- *)
(* Start LTE decode: stop() returns at once, the worker is already joined.  *)
startTarget ==
  /\ gpc = "idle" /\ ~run
  /\ gpc' = "configure" /\ target' = CsRate /\ fed' = FALSE
  /\ UNCHANGED <<sdrVars, run, missed, workVars, cellVars, shown, phyVars>>

startConfigure ==                                   (* under resamp_mtx         *)
  /\ gpc = "configure" /\ spc # "push"
  /\ gpc' = "clear" /\ cfgRate' = CsRate
  /\ UNCHANGED <<ring, spc, target, fed, run, missed, workVars, cellVars, shown, phyVars>>

startClear ==
  /\ gpc = "clear"
  /\ gpc' = "launch" /\ ring' = RingCleared
  /\ UNCHANGED <<cfgRate, spc, target, fed, run, missed, workVars, cellVars, shown, phyVars>>

startLaunch ==
  /\ gpc = "launch"
  /\ gpc' = "idle" /\ haveCell' = FALSE /\ run' = TRUE /\ wpc' = "top"
  /\ UNCHANGED <<sdrVars, target, fed, missed, waiting, acq, cellRate, sibOf, shown, phyVars>>

stopFlag ==
  /\ gpc = "idle" /\ run
  /\ gpc' = "notify" /\ run' = FALSE
  /\ UNCHANGED <<sdrVars, target, fed, missed, workVars, cellVars, shown, phyVars>>

(* notify_all without ring_mtx: a worker that is armed does not hear it.    *)
stopNotify ==
  /\ gpc = "notify"
  /\ gpc' = "join" /\ missed' = (waiting = "armed") /\ waiting' = Woken
  /\ UNCHANGED <<sdrVars, target, fed, run, wpc, acq, cellVars, shown, phyVars>>

stopJoin ==
  /\ gpc = "join" /\ wpc = "ended"
  /\ gpc' = "idle" /\ wpc' = "none"
  /\ UNCHANGED <<sdrVars, target, fed, run, missed, waiting, acq, cellVars, shown, phyVars>>

(* ------------------------------- worker -------------------------------- *)
workerTop ==
  /\ wpc = "top"
  /\ IF run THEN wpc' = "search" /\ target' = CsRate /\ fed' = FALSE
            ELSE wpc' = "ended" /\ UNCHANGED <<target, fed>>
  /\ UNCHANGED <<sdrVars, run, gpc, missed, waiting, acq, cellVars, shown, phyVars>>

WaitsForSamples == ring = <<>>                                           (* mutant *)
MustWait == run /\ ring = <<>>

(* pop() finds neither a stop nor a sample; next it sleeps.                 *)
popArm ==
  /\ wpc \in Reading /\ waiting = "no" /\ MustWait
  /\ waiting' = "armed"
  /\ UNCHANGED <<sdrVars, target, fed, run, gpc, missed, wpc, acq, cellVars, shown, phyVars>>

popSleep ==
  /\ waiting = "armed"
  /\ waiting' = "asleep"
  /\ UNCHANGED <<sdrVars, target, fed, run, gpc, missed, wpc, acq, cellVars, shown, phyVars>>

(* Rates, trends and call statistics of the UEs, from the decode loop.      *)
update_rates == shown \cup {acq}

(* pop() fails: the scan, the MIB search or the decode loop is left, the    *)
(* last perhaps after the update of the rates that ends its turn.           *)
popStopped ==
  /\ wpc \in Reading /\ waiting = "no" /\ ~run
  /\ wpc' = IF wpc = "decode" THEN "join" ELSE "top"
  /\ \/ UNCHANGED shown
     \/ wpc = "decode" /\ shown' = update_rates
  /\ UNCHANGED <<sdrVars, target, fed, run, gpc, missed, waiting, acq, cellVars, phyVars>>

Popped ==
  /\ waiting = "no" /\ run /\ ring # <<>>
  /\ ring' = Tail(ring)
  /\ UNCHANGED <<cfgRate, spc, target, fed, run, gpc, missed, waiting>>

searchCell ==                       (* needs more samples, fails, or finds *)
  /\ wpc = "search" /\ Popped
  /\ wpc' \in {"search", "mib"}
  /\ UNCHANGED <<acq, cellVars, shown, phyVars>>

decodeMib ==
  /\ wpc = "mib" /\ Popped
  /\ \/ wpc' \in {"mib", "search"} /\ UNCHANGED <<acq, cellVars>>
     \/ /\ acq < MaxAcq
        /\ wpc' = "found" /\ acq' = acq + 1
        /\ haveCell' = TRUE /\ sibOf' = 0
        /\ cellRate' \in CellRates
  /\ UNCHANGED <<shown, phyVars>>

(* The beginning of run_decode, up to its sleep of 300 ms.                  *)
decodeRate ==
  /\ wpc = "found"
  /\ \/ run /\ wpc' = "setup" /\ target' = cellRate /\ fed' = FALSE
     \/ run /\ wpc' = "top" /\ UNCHANGED <<target, fed>>      (* invalid PRB    *)
     \/ ~run /\ wpc' = "ended" /\ UNCHANGED <<target, fed>>
  /\ UNCHANGED <<sdrVars, run, gpc, missed, waiting, acq, cellVars, shown, phyVars>>

HookSet(h) == [h EXCEPT !.fn = TRUE, !.user = TRUE]
HookedUp == [h \in Hooks |-> HookSet(hook[h])]

(* The rest of run_decode's preparation.  Every return before the loop      *)
(* leaves the hooks set; the Phy has had no subframe then.                  *)
decodeSetup ==
  /\ wpc = "setup"
  /\ hook' = HookedUp /\ unhooked' = 0
  /\ \/ wpc' = "top" /\ UNCHANGED shown
     \/ wpc' = "decode" /\ shown' = {}
  /\ UNCHANGED <<sdrVars, target, fed, run, gpc, missed, waiting, acq, cellVars,
                 pending, at, jobOf>>

(* One turn of the decode loop with samples: the subframe goes to the       *)
(* decoders if a buffer is free, is dropped or was not in sync; a second    *)
(* after the last time the rates are updated; 3 s without sync end the loop.*)
decodeLoop ==
  /\ wpc = "decode" /\ Popped
  /\ \/ pending + Cardinality(Busy) < Buffers - 1 /\ pending' = pending + 1
     \/ UNCHANGED pending
  /\ \/ UNCHANGED <<wpc, shown>>
     \/ /\ shown' = update_rates
        /\ wpc' = "decode" \/ (wpc' = "join" /\ pending' = pending)
  /\ UNCHANGED <<acq, cellVars, at, jobOf, hook, unhooked>>

(* Phy::joinPending() waits for the queue, not for the subframes in work:   *)
(* SnifferThread::wait_thread_finish() waits for nothing.                   *)
joinPending ==
  /\ wpc = "join" /\ pending = 0
  /\ wpc' = "unhook"
  /\ UNCHANGED <<sdrVars, target, fed, run, gpc, missed, waiting, acq, cellVars, shown, phyVars>>

Unhook(n) == CASE n = 1 -> [hook EXCEPT !["event"].user = FALSE]
               [] n = 2 -> [hook EXCEPT !["event"].fn = FALSE]
               [] n = 3 -> [hook EXCEPT !["sib"].user = FALSE]
               [] n = 4 -> [hook EXCEPT !["sib"].fn = FALSE]

(* setLteEventCb(nullptr, nullptr) stores user, then fn; so the SIB hook.   *)
unhookStore ==
  /\ wpc = "unhook" /\ unhooked < 4
  /\ unhooked' = unhooked + 1 /\ hook' = Unhook(unhooked + 1)
  /\ UNCHANGED <<sdrVars, target, fed, run, gpc, missed, workVars, cellVars, shown,
                 pending, at, jobOf>>

NothingAwaited == TRUE                                                   (* mutant *)
DecodersDone == Busy = {}

(* The end of run_decode destroys the Phy, and with it the futures of its   *)
(* threads: that waits for them.                                           *)
phyDestroyed ==
  /\ wpc = "unhook" /\ unhooked = 4 /\ DecodersDone
  /\ wpc' = "top"
  /\ UNCHANGED <<sdrVars, target, fed, run, gpc, missed, waiting, acq, cellVars, shown, phyVars>>

(* ---------------------------- decode threads --------------------------- *)
DecoderOnly == UNCHANGED <<sdrVars, target, fed, run, gpc, missed, workVars, haveCell, cellRate, unhooked>>

takePending(d) ==
  /\ at[d] = "idle" /\ pending > 0
  /\ pending' = pending - 1 /\ at' = [at EXCEPT ![d] = "work"]
  /\ jobOf' = [jobOf EXCEPT ![d] = acq]
  /\ DecoderOnly /\ UNCHANGED <<sibOf, shown, hook>>

(* A row for the UE, and its event, if there is none.                       *)
ue_ref(d) == shown \cup {jobOf[d]}

consumeDCICollection(d) ==                          (* on_dl_dci for a UE       *)
  /\ at[d] = "work" /\ shown' = ue_ref(d)
  /\ DecoderOnly /\ UNCHANGED <<sibOf, pending, at, jobOf, hook>>

Crashed == \E d \in Decoders : at[d] = "crashed"

(* emitLteEvent, emitLteSib: fn is loaded and tested, then user is loaded.  *)
(* A callback without user dereferences null; the other threads run on     *)
(* until the crash handler has written its log and ends the process.       *)
emit(d) ==
  /\ at[d] = "work"
  /\ \E h \in Hooks : hook[h].fn /\ at' = [at EXCEPT ![d] = h]
  /\ DecoderOnly /\ UNCHANGED <<sibOf, shown, pending, jobOf, hook>>

callBack(d) ==
  /\ at[d] \in Hooks
  /\ \/ /\ ~hook[at[d]].user
        /\ at' = [at EXCEPT ![d] = "crashed"] /\ UNCHANGED shown
     \/ /\ at[d] = "event" /\ hook["event"].user        (* on_identity             *)
        /\ at' = [at EXCEPT ![d] = "work"] /\ shown' = ue_ref(d)
     \/ /\ at[d] = "sib" /\ hook["sib"].user            (* on_sib: have_sib?       *)
        /\ at' = [at EXCEPT ![d] = IF sibOf = 0 THEN "parsing" ELSE "work"]
        /\ UNCHANGED shown
  /\ DecoderOnly /\ UNCHANGED <<sibOf, pending, jobOf, hook>>

sibParsed(d) ==                     (* the second lock of on_sib, if it parsed *)
  /\ at[d] = "parsing"
  /\ at' = [at EXCEPT ![d] = "work"] /\ sibOf' \in {sibOf, jobOf[d]}
  /\ DecoderOnly /\ UNCHANGED <<shown, pending, jobOf, hook>>

workDone(d) ==
  /\ at[d] = "work" /\ at' = [at EXCEPT ![d] = "idle"]
  /\ DecoderOnly /\ UNCHANGED <<sibOf, shown, pending, jobOf, hook>>

(* ----------------------------- specification --------------------------- *)
Sdr == feedBegin \/ feedResample \/ feedPush
Gui == startTarget \/ startConfigure \/ startClear \/ startLaunch
       \/ stopFlag \/ stopNotify \/ stopJoin
Worker == workerTop \/ popArm \/ popSleep \/ popStopped \/ searchCell \/ decodeMib \/ decodeRate
          \/ decodeSetup \/ decodeLoop \/ joinPending \/ unhookStore \/ phyDestroyed
Decoder(d) == takePending(d) \/ consumeDCICollection(d) \/ emit(d) \/ callBack(d)
              \/ sibParsed(d) \/ workDone(d)

Next == Sdr \/ Gui \/ Worker \/ \E d \in Decoders : Decoder(d)

(* The worker, and a GUI thread inside stop(), keep running while they can; *)
(* a decode thread with a subframe ends its work(), a finite computation,   *)
(* however often it emits on the way: hence strong fairness of its end.     *)
Fairness ==
  /\ WF_vars(Worker)
  /\ WF_vars((stopNotify \/ stopJoin))
  /\ \A d \in Decoders :
       /\ WF_vars((takePending(d) \/ callBack(d) \/ sibParsed(d)))
       /\ SF_vars(workDone(d))

Spec == Init /\ [][Next]_vars /\ Fairness

(* ------------------------------ properties ----------------------------- *)
(* The ring never mixes rates, and once the SDR thread has seen the rate    *)
(* the worker asked for every sample in it has that rate (push_resampled:   *)
(* the worker changes target_rate, the SDR thread the resampler, start()    *)
(* both).  Until then search and decode work on samples of the old rate.    *)
SamplesAtTarget ==
  gpc \notin {"configure", "clear"} =>
    \A i \in DOMAIN ring : ring[i] = cfgRate /\ (fed => ring[i] = target)

(* What the tables and the SIB line show while a cell is decoded is of that *)
(* cell, not of one decoded before: "it belongs to the cell we are          *)
(* (re-)acquiring, not a previous one".                                     *)
ShownOfOneCell ==
  /\ sibOf \in {0, acq}
  /\ wpc \in {"decode", "join", "unhook"} => shown \subseteq {acq}

(* A worker asleep in pop() has nothing to do, or its notify is on the way: *)
(* only a stop() that came between predicate and sleep is missed.           *)
NoLostWakeup ==
  waiting = "asleep" => ring = <<>> /\ (run \/ gpc = "notify" \/ missed)

(* stop() returns, unless its notify found the worker between the predicate *)
(* and the sleep of pop().                                                  *)
StopEndsUnlessMissed == gpc = "join" ~> (gpc = "idle" \/ missed \/ Crashed)

(* No callback runs without its engine: run_decode clears the hooks when    *)
(* "workers are done emitting".                                             *)
HookHasUser == ~Crashed
====
