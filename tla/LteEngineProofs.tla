-------------------------- MODULE LteEngineProofs ---------------------------
(* Safety of the LTE engine for every ring size, set of cell rates, number  *)
(* of decode threads, buffers and acquisitions.                             *)
EXTENDS LteEngine, FiniteSetTheorems, TLAPS

LEMMA Constants ==
  /\ CsRate \in Nat /\ CellRates \subseteq Nat
  /\ RingCap \in Nat /\ RingCap >= 1 /\ Buffers \in Nat /\ Buffers >= 1 /\ MaxAcq \in Nat
  /\ IsFiniteSet(Decoders)
BY LteAssumption

-----------------------------------------------------------------------------
(* Wakeups.                                                                 *)

(* From the test of the predicate to the wakeup.                            *)
WakeupInv ==
  /\ waiting \in {"no", "armed", "asleep"}
  /\ waiting # "no" => ring = <<>> /\ (run \/ gpc = "notify" \/ missed)

LEMMA WakeupStep == WakeupInv /\ [Next]_vars => WakeupInv'
<1> SUFFICES ASSUME WakeupInv, [Next]_vars PROVE WakeupInv'
  OBVIOUS
<1> USE DEF WakeupInv, sdrVars, workVars, cellVars, phyVars
<1>1. CASE feedBegin
  BY <1>1 DEF feedBegin
<1>2. CASE feedResample
  BY <1>2 DEF feedResample, RingCleared
<1>3. CASE feedPush
  BY <1>3 DEF feedPush, Woken
<1>4. CASE startTarget \/ startConfigure \/ stopJoin
  BY <1>4 DEF startTarget, startConfigure, stopJoin
<1>14. CASE startLaunch
  <2>1. run' /\ ring' = ring /\ waiting' = waiting
    BY <1>14 DEF startLaunch
  <2> QED BY <2>1
<1>5. CASE startClear
  BY <1>5 DEF startClear, RingCleared
<1>6. CASE stopFlag
  BY <1>6 DEF stopFlag
<1>7. CASE stopNotify
  <2>1. CASE waiting = "armed"
    <3>1. missed' /\ ring' = ring /\ waiting' = waiting
      BY <1>7, <2>1 DEF stopNotify, Woken
    <3> QED BY <3>1, <2>1
  <2>2. CASE waiting # "armed"
    <3>1. waiting' = "no"
      BY <1>7, <2>2 DEF stopNotify, Woken
    <3> QED BY <3>1
  <2> QED BY <2>1, <2>2
<1>8. CASE workerTop \/ decodeRate \/ decodeSetup \/ joinPending \/ unhookStore \/ phyDestroyed
  BY <1>8 DEF workerTop, decodeRate, decodeSetup, joinPending, unhookStore, phyDestroyed
<1>9. CASE popArm
  BY <1>9 DEF popArm, MustWait
<1>10. CASE popSleep \/ popStopped
  BY <1>10 DEF popSleep, popStopped
<1>11. CASE searchCell \/ decodeMib \/ decodeLoop
  BY <1>11 DEF searchCell, decodeMib, decodeLoop, Popped
<1>12. ASSUME NEW d \in Decoders, Decoder(d) PROVE WakeupInv'
  BY <1>12 DEF Decoder, DecoderOnly, takePending, consumeDCICollection, emit, callBack,
               sibParsed, workDone
<1>13. CASE UNCHANGED vars
  BY <1>13 DEF vars
<1> QED
  BY <1>1, <1>2, <1>3, <1>4, <1>5, <1>6, <1>7, <1>8, <1>9, <1>10, <1>11, <1>12, <1>13, <1>14
     DEF Next, Sdr, Gui, Worker

(* A worker asleep in pop() has nothing to do: feed() wakes it with every   *)
(* sample, and only a notify that came between its test and its sleep is    *)
(* lost.                                                                    *)
THEOREM NoWakeupLost == Spec => []NoLostWakeup
<1>1. Init => WakeupInv
  BY DEF Init, WakeupInv
<1>2. WakeupInv => NoLostWakeup
  BY DEF WakeupInv, NoLostWakeup
<1> QED BY <1>1, <1>2, WakeupStep, PTL DEF Spec

-----------------------------------------------------------------------------
(* Rates.                                                                   *)

LEMMA TrimmedType ==
  ASSUME NEW S, NEW s \in Seq(S)
  PROVE  Trimmed(s) \in Seq(S) /\ Len(Trimmed(s)) <= RingCap
<1>1. CASE Len(s) <= RingCap
  BY <1>1, Constants DEF Trimmed
<1>2. CASE Len(s) > RingCap
  <2>1. Len(s) - RingCap + 1 \in 1 .. Len(s)
    BY <1>2, Constants
  <2>2. /\ SubSeq(s, Len(s) - RingCap + 1, Len(s)) \in Seq(S)
        /\ Len(SubSeq(s, Len(s) - RingCap + 1, Len(s))) = RingCap
    BY <1>2, <2>1, Constants
  <2> QED BY <1>2, <2>2, Constants DEF Trimmed
<1> QED BY <1>1, <1>2, Constants

LEMMA PushedType ==
  ASSUME NEW S, ring \in Seq(S), cfgRate \in S
  PROVE  Trimmed(Append(ring, cfgRate)) \in Seq(S) /\ Len(Trimmed(Append(ring, cfgRate))) <= RingCap
<1>1. Append(ring, cfgRate) \in Seq(S)
  OBVIOUS
<1> QED BY <1>1, TrimmedType

LEMMA TailType ==
  ASSUME NEW S, NEW s \in Seq(S), s # <<>>
  PROVE  Tail(s) \in Seq(S) /\ Len(Tail(s)) = Len(s) - 1
OBVIOUS

(* The samples of the ring, and the rates everything works with.            *)
RingInv ==
  /\ ring \in Seq(Rates) /\ Len(ring) <= RingCap
  /\ cfgRate \in Rates /\ target \in Rates /\ cellRate \in Rates

LEMMA RingStep == RingInv /\ [Next]_vars => RingInv'
<1> SUFFICES ASSUME RingInv, [Next]_vars PROVE RingInv'
  OBVIOUS
<1> USE DEF RingInv, sdrVars, workVars, cellVars, phyVars
<1>c. CsRate \in Rates /\ CellRates \subseteq Rates /\ <<>> \in Seq(Rates) /\ Len(<<>>) <= RingCap
  BY Constants DEF Rates
<1>1. CASE feedBegin
  BY <1>1 DEF feedBegin
<1>2. CASE feedResample
  BY <1>2, <1>c DEF feedResample, RingCleared
<1>3. CASE feedPush
  BY <1>3, PushedType DEF feedPush
<1>4. CASE startTarget \/ startConfigure \/ startLaunch \/ stopFlag \/ stopNotify \/ stopJoin
  BY <1>4, <1>c DEF startTarget, startConfigure, startLaunch, stopFlag, stopNotify, stopJoin
<1>5. CASE startClear
  BY <1>5, <1>c DEF startClear, RingCleared
<1>6. CASE workerTop \/ decodeRate \/ decodeSetup \/ joinPending \/ unhookStore \/ phyDestroyed
  BY <1>6, <1>c DEF workerTop, decodeRate, decodeSetup, joinPending, unhookStore, phyDestroyed
<1>7. CASE popArm \/ popSleep \/ popStopped
  BY <1>7 DEF popArm, popSleep, popStopped
<1>8. CASE searchCell \/ decodeMib \/ decodeLoop
  <2>1. ring' \in Seq(Rates) /\ Len(ring') <= RingCap /\ cfgRate' = cfgRate /\ target' = target
    <3>1. ring # <<>> /\ ring' = Tail(ring) /\ cfgRate' = cfgRate /\ target' = target
      BY <1>8 DEF searchCell, decodeMib, decodeLoop, Popped
    <3>2. Tail(ring) \in Seq(Rates) /\ Len(Tail(ring)) = Len(ring) - 1
      BY <3>1, TailType
    <3> QED BY <3>1, <3>2, Constants
  <2>2. cellRate' \in Rates
    BY <1>8, <1>c DEF searchCell, decodeMib, decodeLoop
  <2> QED BY <2>1, <2>2
<1>9. ASSUME NEW d \in Decoders, Decoder(d) PROVE RingInv'
  BY <1>9 DEF Decoder, DecoderOnly, takePending, consumeDCICollection, emit, callBack,
              sibParsed, workDone
<1>10. CASE UNCHANGED vars
  BY <1>10 DEF vars
<1> QED
  BY <1>1, <1>2, <1>3, <1>4, <1>5, <1>6, <1>7, <1>8, <1>9, <1>10 DEF Next, Sdr, Gui, Worker

Starting == {"configure", "clear", "launch"}

(* While start() runs there is no worker and the target is that of search.  *)
StartInv ==
  /\ gpc = "idle" /\ ~run => wpc = "none"
  /\ gpc \in Starting => ~run /\ wpc = "none" /\ target = CsRate
  /\ fed => cfgRate = target

LEMMA StartStep == StartInv /\ [Next]_vars => StartInv'
<1> SUFFICES ASSUME StartInv, [Next]_vars PROVE StartInv'
  OBVIOUS
<1> USE DEF StartInv, Starting, sdrVars, workVars, cellVars, phyVars
<1>1. CASE feedBegin
  BY <1>1 DEF feedBegin
<1>2. CASE feedResample
  BY <1>2 DEF feedResample
<1>3. CASE feedPush
  BY <1>3 DEF feedPush
<1>4. CASE startTarget
  BY <1>4 DEF startTarget
<1>5. CASE startConfigure
  BY <1>5 DEF startConfigure
<1>6. CASE startClear
  BY <1>6 DEF startClear
<1>7. CASE startLaunch
  BY <1>7 DEF startLaunch
<1>8. CASE stopFlag \/ stopNotify \/ stopJoin
  BY <1>8 DEF stopFlag, stopNotify, stopJoin
<1>9. CASE workerTop
  BY <1>9 DEF workerTop
<1>10. CASE decodeRate
  BY <1>10 DEF decodeRate
<1>11. CASE decodeSetup
  BY <1>11 DEF decodeSetup
<1>12. CASE joinPending \/ unhookStore \/ phyDestroyed
  BY <1>12 DEF joinPending, unhookStore, phyDestroyed
<1>13. CASE popArm \/ popSleep \/ popStopped
  BY <1>13 DEF popArm, popSleep, popStopped, Reading
<1>14. CASE searchCell
  BY <1>14 DEF searchCell, Popped
<1>15. CASE decodeMib
  BY <1>15 DEF decodeMib, Popped
<1>16. CASE decodeLoop
  BY <1>16 DEF decodeLoop, Popped
<1>17. ASSUME NEW d \in Decoders, Decoder(d) PROVE StartInv'
  BY <1>17 DEF Decoder, DecoderOnly, takePending, consumeDCICollection, emit, callBack,
               sibParsed, workDone
<1>18. CASE UNCHANGED vars
  BY <1>18 DEF vars
<1> QED
  BY <1>1, <1>2, <1>3, <1>4, <1>5, <1>6, <1>7, <1>8, <1>9, <1>10, <1>11, <1>12, <1>13,
     <1>14, <1>15, <1>16, <1>17, <1>18 DEF Next, Sdr, Gui, Worker

(* But for the middle of start() the ring has one rate, the resampler's.    *)
UniformInv == gpc \notin {"configure", "clear"} => ring \in Seq({cfgRate})

LEMMA UniformStep == UniformInv /\ [Next]_vars => UniformInv'
<1> SUFFICES ASSUME UniformInv, [Next]_vars PROVE UniformInv'
  OBVIOUS
<1> USE DEF UniformInv, sdrVars, workVars, cellVars, phyVars
<1>c. \A S : <<>> \in Seq(S)
  OBVIOUS
<1>1. CASE feedBegin
  BY <1>1 DEF feedBegin
<1>2. CASE feedResample
  BY <1>2, <1>c DEF feedResample, RingCleared
<1>3. CASE feedPush
  <2> SUFFICES ASSUME gpc \notin {"configure", "clear"} PROVE ring' \in Seq({cfgRate})
    BY <1>3 DEF feedPush
  <2>1. ring \in Seq({cfgRate}) /\ cfgRate \in {cfgRate}
    OBVIOUS
  <2>2. Trimmed(Append(ring, cfgRate)) \in Seq({cfgRate})
    BY <2>1, PushedType
  <2> QED BY <1>3, <2>1, <2>2 DEF feedPush
<1>4. CASE startTarget \/ startConfigure
  BY <1>4 DEF startTarget, startConfigure
<1>5. CASE startClear
  BY <1>5, <1>c DEF startClear, RingCleared
<1>6. CASE startLaunch \/ stopFlag \/ stopNotify \/ stopJoin
  BY <1>6 DEF startLaunch, stopFlag, stopNotify, stopJoin
<1>7. CASE workerTop \/ decodeRate \/ decodeSetup \/ joinPending \/ unhookStore \/ phyDestroyed
  BY <1>7 DEF workerTop, decodeRate, decodeSetup, joinPending, unhookStore, phyDestroyed
<1>8. CASE popArm \/ popSleep \/ popStopped
  BY <1>8 DEF popArm, popSleep, popStopped
<1>9. CASE searchCell \/ decodeMib \/ decodeLoop
  <2>1. ring # <<>> /\ ring' = Tail(ring) /\ cfgRate' = cfgRate /\ gpc' = gpc
    BY <1>9 DEF searchCell, decodeMib, decodeLoop, Popped
  <2>2. ring \in Seq({cfgRate}) => Tail(ring) \in Seq({cfgRate})
    BY <2>1, TailType
  <2> QED BY <2>1, <2>2
<1>10. ASSUME NEW d \in Decoders, Decoder(d) PROVE UniformInv'
  BY <1>10 DEF Decoder, DecoderOnly, takePending, consumeDCICollection, emit, callBack,
               sibParsed, workDone
<1>11. CASE UNCHANGED vars
  BY <1>11 DEF vars
<1> QED
  BY <1>1, <1>2, <1>3, <1>4, <1>5, <1>6, <1>7, <1>8, <1>9, <1>10, <1>11
     DEF Next, Sdr, Gui, Worker

(* The ring never mixes rates, and has the target rate once the SDR thread  *)
(* has seen it, whenever the worker, feed() and start() change the rates.   *)
THEOREM SamplesAlwaysAtTarget == Spec => []SamplesAtTarget
<1>1. Init => StartInv /\ UniformInv
  BY DEF Init, StartInv, UniformInv, Starting
<1>2. StartInv /\ UniformInv => SamplesAtTarget
  <2> SUFFICES ASSUME StartInv, ring \in Seq({cfgRate}), NEW i \in DOMAIN ring
               PROVE  ring[i] = cfgRate /\ (fed => ring[i] = target)
    BY DEF SamplesAtTarget, UniformInv
  <2>1. ring[i] \in {cfgRate}
    OBVIOUS
  <2> QED BY <2>1 DEF StartInv
<1> QED BY <1>1, <1>2, StartStep, UniformStep, PTL DEF Spec

-----------------------------------------------------------------------------
(* What the tables show.                                                    *)

AtStates == Hooks \cup {"idle", "work", "parsing", "crashed"}
PhyPhases == {"decode", "join", "unhook"}

(* Subframes are with the Phy only while it exists, all of the present      *)
(* acquisition: phyDestroyed waits for the last.                            *)
JobInv ==
  /\ pending \in Nat /\ acq \in 0 .. MaxAcq
  /\ at \in [Decoders -> AtStates] /\ jobOf \in [Decoders -> 0 .. MaxAcq]
  /\ wpc \notin PhyPhases => pending = 0 /\ \A d \in Decoders : at[d] = "idle"
  /\ wpc = "unhook" => pending = 0
  /\ \A d \in Decoders : at[d] # "idle" => jobOf[d] = acq

LEMMA JobStep == StartInv /\ JobInv /\ [Next]_vars => JobInv'
<1> SUFFICES ASSUME StartInv, JobInv, [Next]_vars PROVE JobInv'
  OBVIOUS
<1> USE DEF JobInv, PhyPhases, sdrVars, workVars, cellVars, phyVars
<1>1. CASE Sdr
  BY <1>1 DEF Sdr, feedBegin, feedResample, feedPush
<1>2. CASE startTarget \/ startConfigure \/ startClear \/ stopFlag \/ stopNotify
  BY <1>2 DEF startTarget, startConfigure, startClear, stopFlag, stopNotify
<1>3. CASE stopJoin
  BY <1>3 DEF stopJoin
<1>4. CASE workerTop
  BY <1>4 DEF workerTop
<1>5. CASE popArm \/ popSleep
  BY <1>5 DEF popArm, popSleep
<1>6. CASE popStopped
  BY <1>6 DEF popStopped, Reading
<1>7. CASE searchCell
  BY <1>7 DEF searchCell, Popped
<1>8. CASE decodeMib
  BY <1>8, Constants DEF decodeMib, Popped
<1>9. CASE decodeRate
  BY <1>9 DEF decodeRate
<1>10. CASE decodeSetup
  BY <1>10 DEF decodeSetup
<1>11. CASE decodeLoop
  BY <1>11 DEF decodeLoop, Popped
<1>12. CASE joinPending
  BY <1>12 DEF joinPending
<1>13. CASE unhookStore
  BY <1>13 DEF unhookStore
<1>14. CASE phyDestroyed
  <2>1. \A d \in Decoders : at[d] = "idle"
    BY <1>14 DEF phyDestroyed, DecodersDone, Busy
  <2> QED BY <1>14, <2>1 DEF phyDestroyed
<1>15. ASSUME NEW d \in Decoders, takePending(d) PROVE JobInv'
  BY <1>15 DEF takePending, DecoderOnly, AtStates
<1>16. ASSUME NEW d \in Decoders, consumeDCICollection(d) PROVE JobInv'
  BY <1>16 DEF consumeDCICollection, DecoderOnly
<1>17. ASSUME NEW d \in Decoders, emit(d) PROVE JobInv'
  BY <1>17 DEF emit, DecoderOnly, AtStates, Hooks
<1>18. ASSUME NEW d \in Decoders, callBack(d) PROVE JobInv'
  <2>1. /\ at[d] # "idle"
        /\ \E x \in AtStates : x # "idle" /\ at' = [at EXCEPT ![d] = x]
    BY <1>18 DEF callBack, AtStates, Hooks
  <2>2. UNCHANGED <<pending, acq, jobOf, wpc>>
    BY <1>18 DEF callBack, DecoderOnly
  <2> QED BY <2>1, <2>2
<1>19. ASSUME NEW d \in Decoders, sibParsed(d) PROVE JobInv'
  BY <1>19 DEF sibParsed, DecoderOnly, AtStates
<1>20. ASSUME NEW d \in Decoders, workDone(d) PROVE JobInv'
  BY <1>20 DEF workDone, DecoderOnly, AtStates
<1>21. CASE startLaunch
  BY <1>21 DEF startLaunch, StartInv, Starting
<1>22. CASE UNCHANGED vars
  BY <1>22 DEF vars
<1> QED
  BY <1>1, <1>2, <1>3, <1>4, <1>5, <1>6, <1>7, <1>8, <1>9, <1>10, <1>11, <1>12, <1>13,
     <1>14, <1>15, <1>16, <1>17, <1>18, <1>19, <1>20, <1>21, <1>22
     DEF Next, Gui, Worker, Decoder

ShownInv ==
  /\ shown \subseteq 0 .. MaxAcq
  /\ ShownOfOneCell

LEMMA ShownStep == StartInv /\ JobInv /\ ShownInv /\ [Next]_vars => ShownInv'
<1> SUFFICES ASSUME StartInv, JobInv, ShownInv, [Next]_vars PROVE ShownInv'
  OBVIOUS
<1> USE DEF ShownInv, ShownOfOneCell, sdrVars, workVars, cellVars, phyVars
<1>1. CASE Sdr
  BY <1>1 DEF Sdr, feedBegin, feedResample, feedPush
<1>2. CASE startTarget \/ startConfigure \/ startClear \/ stopFlag \/ stopNotify \/ stopJoin
  BY <1>2 DEF startTarget, startConfigure, startClear, stopFlag, stopNotify, stopJoin
<1>3. CASE startLaunch
  BY <1>3 DEF startLaunch, StartInv, Starting
<1>4. CASE workerTop \/ decodeRate
  BY <1>4 DEF workerTop, decodeRate
<1>5. CASE popArm \/ popSleep \/ popStopped
  BY <1>5 DEF popArm, popSleep, popStopped, update_rates, JobInv
<1>6. CASE searchCell
  BY <1>6 DEF searchCell, Popped
<1>7. CASE decodeMib
  BY <1>7 DEF decodeMib, Popped
<1>8. CASE decodeSetup
  BY <1>8 DEF decodeSetup
<1>9. CASE decodeLoop
  BY <1>9 DEF decodeLoop, update_rates, Popped, JobInv
<1>10. CASE joinPending \/ unhookStore \/ phyDestroyed
  BY <1>10 DEF joinPending, unhookStore, phyDestroyed
<1>11. ASSUME NEW d \in Decoders, Decoder(d) PROVE ShownInv'
  <2>1. acq \in 0 .. MaxAcq /\ (at[d] # "idle" => jobOf[d] = acq)
    BY DEF JobInv
  <2>2. CASE takePending(d) \/ emit(d) \/ workDone(d)
    BY <2>2 DEF takePending, emit, workDone, DecoderOnly
  <2>3. CASE consumeDCICollection(d)
    BY <2>1, <2>3 DEF consumeDCICollection, ue_ref, DecoderOnly
  <2>4. CASE callBack(d)
    BY <2>1, <2>4 DEF callBack, ue_ref, DecoderOnly, Hooks
  <2>5. CASE sibParsed(d)
    BY <2>1, <2>5 DEF sibParsed, DecoderOnly
  <2> QED BY <1>11, <2>2, <2>3, <2>4, <2>5 DEF Decoder
<1>12. CASE UNCHANGED vars
  BY <1>12 DEF vars
<1> QED
  BY <1>1, <1>2, <1>3, <1>4, <1>5, <1>6, <1>7, <1>8, <1>9, <1>10, <1>11, <1>12
     DEF Next, Gui, Worker

(* While a cell is decoded the tables and the SIB line show nothing of an   *)
(* earlier one, for any number of decode threads: the Phy is gone only when *)
(* they are done, and the tables are emptied before the next one begins.    *)
THEOREM AlwaysShownOfOneCell == Spec => []ShownOfOneCell
<1>1. Init => StartInv /\ JobInv /\ ShownInv
  BY Constants DEF Init, StartInv, Starting, JobInv, PhyPhases, AtStates, ShownInv, ShownOfOneCell
<1>2. ShownInv => ShownOfOneCell
  BY DEF ShownInv
<1> QED BY <1>1, <1>2, StartStep, JobStep, ShownStep, PTL DEF Spec

-----------------------------------------------------------------------------
(* Types.                                                                   *)

BoolInv == fed \in BOOLEAN /\ run \in BOOLEAN /\ missed \in BOOLEAN /\ haveCell \in BOOLEAN

LEMMA BoolStep == BoolInv /\ [Next]_vars => BoolInv'
<1> SUFFICES ASSUME BoolInv, [Next]_vars PROVE BoolInv'
  OBVIOUS
<1> USE DEF BoolInv, sdrVars, workVars, cellVars, phyVars
<1>1. CASE Sdr
  BY <1>1, Zenon DEF Sdr, feedBegin, feedResample, feedPush
<1>2. CASE startTarget \/ startConfigure \/ startClear \/ stopFlag \/ stopJoin
  BY <1>2, Zenon DEF startTarget, startConfigure, startClear, stopFlag, stopJoin
<1>3. CASE startLaunch
  BY <1>3, Zenon DEF startLaunch
<1>4. CASE stopNotify
  <2>1. missed' \in BOOLEAN
    BY <1>4, Zenon DEF stopNotify
  <2> QED BY <1>4, <2>1, Zenon DEF stopNotify
<1>5. CASE workerTop \/ decodeRate
  BY <1>5, Zenon DEF workerTop, decodeRate
<1>6. CASE decodeSetup \/ joinPending \/ unhookStore \/ phyDestroyed
  BY <1>6, Zenon DEF decodeSetup, joinPending, unhookStore, phyDestroyed
<1>7. CASE popArm \/ popSleep \/ popStopped
  BY <1>7, Zenon DEF popArm, popSleep, popStopped
<1>8. CASE searchCell \/ decodeMib \/ decodeLoop
  BY <1>8, Zenon DEF searchCell, decodeMib, decodeLoop, Popped
<1>9. ASSUME NEW d \in Decoders, Decoder(d) PROVE BoolInv'
  BY <1>9, Zenon DEF Decoder, DecoderOnly, takePending, consumeDCICollection, emit, callBack,
                     sibParsed, workDone
<1>10. CASE UNCHANGED vars
  BY <1>10, Zenon DEF vars
<1> QED
  BY <1>1, <1>2, <1>3, <1>4, <1>5, <1>6, <1>7, <1>8, <1>9, <1>10, Zenon DEF Next, Gui, Worker

WorkerPhases == Reading \cup {"none", "top", "found", "setup", "join", "unhook", "ended"}

(* The program counters; only a phase that reads the ring waits in pop().   *)
ControlInv ==
  /\ spc \in {"idle", "called", "push"}
  /\ gpc \in {"idle", "configure", "clear", "launch", "notify", "join"}
  /\ wpc \in WorkerPhases
  /\ waiting \in {"no", "armed", "asleep"} /\ (waiting # "no" => wpc \in Reading)
  /\ unhooked \in 0 .. 4

LEMMA ControlStep == StartInv /\ ControlInv /\ [Next]_vars => ControlInv'
<1> SUFFICES ASSUME StartInv, ControlInv, [Next]_vars PROVE ControlInv'
  OBVIOUS
<1> USE DEF ControlInv, WorkerPhases, Reading, sdrVars, workVars, cellVars, phyVars
<1>1. CASE Sdr
  BY <1>1 DEF Sdr, feedBegin, feedResample, feedPush, Woken
<1>2. CASE startTarget \/ startConfigure \/ startClear \/ stopFlag \/ stopJoin
  BY <1>2 DEF startTarget, startConfigure, startClear, stopFlag, stopJoin
<1>3. CASE startLaunch
  BY <1>3 DEF startLaunch, StartInv, Starting
<1>4. CASE stopNotify
  BY <1>4 DEF stopNotify, Woken
<1>5. CASE workerTop \/ decodeRate
  BY <1>5 DEF workerTop, decodeRate
<1>6. CASE decodeSetup
  BY <1>6 DEF decodeSetup
<1>7. CASE popArm \/ popSleep \/ popStopped
  BY <1>7 DEF popArm, popSleep, popStopped
<1>8. CASE searchCell \/ decodeMib
  BY <1>8 DEF searchCell, decodeMib, Popped
<1>9. CASE decodeLoop
  BY <1>9 DEF decodeLoop, Popped
<1>10. CASE joinPending \/ unhookStore \/ phyDestroyed
  BY <1>10 DEF joinPending, unhookStore, phyDestroyed
<1>11. ASSUME NEW d \in Decoders, Decoder(d) PROVE ControlInv'
  BY <1>11 DEF Decoder, DecoderOnly, takePending, consumeDCICollection, emit, callBack,
               sibParsed, workDone
<1>12. CASE UNCHANGED vars
  BY <1>12 DEF vars
<1> QED
  BY <1>1, <1>2, <1>3, <1>4, <1>5, <1>6, <1>7, <1>8, <1>9, <1>10, <1>11, <1>12
     DEF Next, Gui, Worker

HookInv == hook \in [Hooks -> [fn : BOOLEAN, user : BOOLEAN]]

LEMMA HookStep == ControlInv /\ HookInv /\ [Next]_vars => HookInv'
<1> SUFFICES ASSUME ControlInv, HookInv, [Next]_vars PROVE HookInv'
  OBVIOUS
<1> USE DEF HookInv
<1>1. CASE decodeSetup
  BY <1>1 DEF decodeSetup, HookedUp, HookSet
<1>2. CASE unhookStore
  <2>1. unhooked + 1 \in 1 .. 4
    BY <1>2 DEF unhookStore, ControlInv
  <2>2. unhooked + 1 \in {1, 2, 3, 4}
    BY <2>1
  <2> QED BY <1>2, <2>2 DEF unhookStore, Unhook, Hooks
<1>3. CASE UNCHANGED hook
  BY <1>3
<1>4. CASE Sdr \/ Gui
  BY <1>3, <1>4 DEF Sdr, feedBegin, feedResample, feedPush, Gui, startTarget, startConfigure,
     startClear, startLaunch, stopFlag, stopNotify, stopJoin, phyVars
<1>5. CASE workerTop \/ popArm \/ popSleep \/ popStopped \/ searchCell \/ decodeMib \/ decodeRate
           \/ decodeLoop \/ joinPending \/ phyDestroyed
  BY <1>3, <1>5 DEF workerTop, popArm, popSleep, popStopped, searchCell, decodeMib, decodeRate,
     decodeLoop, joinPending, phyDestroyed, phyVars
<1>6. ASSUME NEW d \in Decoders, Decoder(d) PROVE HookInv'
  BY <1>3, <1>6 DEF Decoder, takePending, consumeDCICollection, emit, callBack, sibParsed, workDone
<1>7. CASE UNCHANGED vars
  BY <1>3, <1>7 DEF vars, phyVars
<1> QED BY <1>1, <1>2, <1>4, <1>5, <1>6, <1>7 DEF Next, Worker

(* The subframes with the Phy never take the last of its buffers.           *)
BufferInv == pending + Cardinality(Busy) \in 0 .. Buffers - 1

LEMMA BusyFinite == IsFiniteSet(Busy) /\ Cardinality(Busy) \in Nat
<1>1. Busy \subseteq Decoders
  BY DEF Busy
<1> QED BY <1>1, Constants, FS_Subset, FS_CardinalityType

LEMMA BufferStep == JobInv /\ BufferInv /\ [Next]_vars => BufferInv'
<1> SUFFICES ASSUME JobInv, BufferInv, [Next]_vars PROVE BufferInv'
  OBVIOUS
<1>n. pending \in Nat /\ Cardinality(Busy) \in Nat /\ Buffers \in Nat
  BY Constants, BusyFinite DEF JobInv
<1>s. CASE pending' = pending /\ Busy' = Busy
  BY <1>s DEF BufferInv
<1>1. CASE Sdr \/ Gui
  <2>1. UNCHANGED <<pending, at>>
    BY <1>1 DEF Sdr, feedBegin, feedResample, feedPush, Gui, startTarget, startConfigure,
       startClear, startLaunch, stopFlag, stopNotify, stopJoin, phyVars
  <2> QED BY <1>s, <2>1 DEF Busy
<1>2. CASE workerTop \/ popArm \/ popSleep \/ popStopped \/ searchCell \/ decodeMib \/ decodeRate
           \/ decodeSetup \/ joinPending \/ unhookStore \/ phyDestroyed
  <2>1. UNCHANGED <<pending, at>>
    BY <1>2 DEF workerTop, popArm, popSleep, popStopped, searchCell, decodeMib, decodeRate,
       decodeSetup, joinPending, unhookStore, phyDestroyed, phyVars
  <2> QED BY <1>s, <2>1 DEF Busy
<1>3. CASE decodeLoop
  <2>1. at' = at
    BY <1>3 DEF decodeLoop
  <2>2. Busy' = Busy
    BY <2>1 DEF Busy
  <2>3. \/ pending + Cardinality(Busy) < Buffers - 1 /\ pending' = pending + 1
        \/ pending' = pending
    BY <1>3 DEF decodeLoop
  <2> QED BY <1>n, <2>2, <2>3 DEF BufferInv
<1>4. ASSUME NEW d \in Decoders, takePending(d) PROVE BufferInv'
  <2>1. pending' = pending - 1 /\ at' = [at EXCEPT ![d] = "work"] /\ at[d] = "idle"
    BY <1>4 DEF takePending
  <2>2. Busy' = Busy \cup {d} /\ d \notin Busy
    BY <2>1 DEF Busy, JobInv
  <2>3. Cardinality(Busy') = Cardinality(Busy) + 1
    BY <2>2, BusyFinite, FS_AddElement
  <2> QED BY <1>n, <2>1, <2>3 DEF BufferInv
<1>5. ASSUME NEW d \in Decoders, workDone(d) PROVE BufferInv'
  <2>1. pending' = pending /\ at' = [at EXCEPT ![d] = "idle"] /\ at[d] = "work"
    BY <1>5 DEF workDone
  <2>2. Busy' = Busy \ {d} /\ d \in Busy
    BY <2>1 DEF Busy, JobInv
  <2>3. Cardinality(Busy') = Cardinality(Busy) - 1 /\ Cardinality(Busy') \in Nat
    BY <2>2, BusyFinite, FS_RemoveElement, FS_CardinalityType
  <2> QED BY <1>n, <2>1, <2>3 DEF BufferInv
<1>6. ASSUME NEW d \in Decoders, consumeDCICollection(d) PROVE BufferInv'
  BY <1>s, <1>6 DEF consumeDCICollection, Busy
<1>7. ASSUME NEW d \in Decoders, emit(d) \/ callBack(d) \/ sibParsed(d) PROVE BufferInv'
  <2>1. pending' = pending /\ at[d] # "idle"
    BY <1>7 DEF emit, callBack, sibParsed, Hooks
  <2>2. \E x : x # "idle" /\ at' = [at EXCEPT ![d] = x]
    BY <1>7 DEF emit, callBack, sibParsed, Hooks
  <2>3. Busy' = Busy
    BY <2>1, <2>2 DEF Busy, JobInv
  <2> QED BY <1>s, <2>1, <2>3
<1>8. CASE UNCHANGED vars
  BY <1>s, <1>8 DEF vars, phyVars, Busy
<1> QED
  BY <1>1, <1>2, <1>3, <1>4, <1>5, <1>6, <1>7, <1>8 DEF Next, Worker, Decoder

(* Type correctness; the ring keeps its bound, and the Phy always has a     *)
(* buffer for the subframe being read.                                      *)
THEOREM TypeCorrect == Spec => []TypeOK
<1> DEFINE Inv == StartInv /\ RingInv /\ JobInv /\ ShownInv /\ BoolInv /\ ControlInv /\ HookInv
                  /\ BufferInv
<1>1. Init => Inv
  <2> SUFFICES ASSUME Init PROVE Inv
    OBVIOUS
  <2>1. StartInv /\ JobInv /\ ShownInv
    BY Constants DEF Init, StartInv, Starting, JobInv, PhyPhases, AtStates, ShownInv, ShownOfOneCell
  <2>2. RingInv /\ ControlInv
    BY Constants DEF Init, RingInv, Rates, ControlInv, WorkerPhases, Reading
  <2>3. BoolInv
    BY Zenon DEF Init, BoolInv
  <2>4. HookInv
    BY DEF Init, HookInv
  <2>5. BufferInv
    <3>1. Busy = {} /\ pending = 0
      BY DEF Init, Busy
    <3> QED BY <3>1, Constants, FS_EmptySet DEF BufferInv
  <2> QED BY <2>1, <2>2, <2>3, <2>4, <2>5
<1>2. Inv /\ [Next]_vars => Inv'
  BY StartStep, RingStep, JobStep, ShownStep, BoolStep, ControlStep, HookStep, BufferStep
<1>3. Inv => TypeOK
  <2> SUFFICES ASSUME Inv PROVE TypeOK
    OBVIOUS
  <2>1. {cfgRate, target, cellRate} \subseteq Rates /\ ring \in Seq(Rates) /\ Len(ring) <= RingCap
    BY DEF RingInv
  <2>2. {fed, run, missed, haveCell} \subseteq BOOLEAN
    BY Zenon DEF BoolInv
  <2>3. sibOf \in 0 .. MaxAcq /\ acq \in 0 .. MaxAcq /\ shown \subseteq 0 .. MaxAcq
    BY Constants DEF JobInv, ShownInv, ShownOfOneCell
  <2>4. /\ at \in [Decoders -> Hooks \cup {"idle", "work", "parsing", "crashed"}]
        /\ jobOf \in [Decoders -> 0 .. MaxAcq]
    BY DEF JobInv, AtStates
  <2> QED BY <2>1, <2>2, <2>3, <2>4 DEF TypeOK, ControlInv, WorkerPhases, HookInv, BufferInv
<1> QED BY <1>1, <1>2, <1>3, PTL DEF Spec
=============================================================================
