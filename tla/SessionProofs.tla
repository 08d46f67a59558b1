---------------------------- MODULE SessionProofs ----------------------------
(* What holds of the session for every set of rates, centres, decoders and  *)
(* every bound: the decoder manager follows the source's rate and centre,   *)
(* the saved decoders come back, and few blocks of another rate get into a  *)
(* recording.                                                               *)
EXTENDS Session, FiniteSetTheorems, TLAPS

(* Where the read thread and running_ stand to each other.                  *)
ReaderInv ==
  /\ running \in BOOLEAN
  /\ running => reader \notin {"none", "ended"}

(* Between the open and the configure of startActive the pool is behind.    *)
CenterInv == running /\ gui # "pool" /\ poolCenter # sdrCenter => typed

(* A rate picked in this frame keeps the view from being browsed, so that   *)
(* only updateRateChange, in the next frame, configures the new rate.       *)
RateInv ==
  running /\ gui # "pool" =>
    /\ poolFs = lastConfiguredFs
    /\ gui \notin {"spectrum", "fft", "rate", "closing"} => sdrRate = lastConfiguredFs
    /\ gui = "spectrum" /\ ~resetView => sdrRate = lastConfiguredFs

TuneInv == ReaderInv /\ CenterInv /\ RateInv

(* The pool is off exactly while there is no read thread, but for the       *)
(* moments in which one of the two has been changed and the other has not.  *)
PoolInv ==
  /\ poolOn \in BOOLEAN
  /\ gui \notin {"pool", "emptying", "closing"} => (poolOn <=> reader # "none")
  /\ gui = "pool" => ~poolOn /\ reader # "none"
  /\ gui \in {"ring", "restore"} => poolOn
  /\ gui = "emptying" => reader = "none"

(* From the Stop button to the restore of the next start the saved          *)
(* decoders are those of the last stop.                                     *)
SavedInv ==
  /\ ~poolOn /\ gui # "closing" => savedDecoders = atStop /\ decoders = {}
  /\ gui \in {"joining", "emptying"} => savedDecoders = atStop
  /\ gui \in {"ring", "restore"} => savedDecoders = atStop /\ decoders = {}
  /\ gui = "controls" /\ running => savedDecoders = decoders

SessionInv == SaveDecoders => ReaderInv /\ PoolInv /\ SavedInv

-----------------------------------------------------------------------------
LEMMA TuneInit == Init => TuneInv
BY DEF Init, SourceInit, TuneInv, ReaderInv, CenterInv, RateInv

LEMMA TuneStep == TuneInv /\ [Next]_vars => TuneInv'
<1> SUFFICES ASSUME TuneInv, [Next]_vars PROVE TuneInv'
  OBVIOUS
<1> USE DEF TuneInv, ReaderInv, CenterInv, RateInv, At, sourceVars, deviceVars, streamVars,
            tuneVars, panelVars, poolVars, viewVars, browseVars, askVars
<1>1. CASE Source
  <2>1. (running' = running \/ running' = FALSE) /\ UNCHANGED tuneVars
    BY <1>1 DEF Source, Read, readerEnters, capture, onAsync, readerEnds, unplug, plug
  <2>2. running' => reader' \notin {"none", "ended"}
    BY <1>1 DEF Source, Read, readerEnters, capture, onAsync, readerEnds, unplug, plug
  <2>3. running' \in BOOLEAN
    BY <2>1, Zenon
  <2> QED BY <1>1, <2>1, <2>2, <2>3 DEF Source
<1>2. CASE Reader
  BY <1>2 DEF Reader, callbackPrebuffer, callbackWrite
<1>3. CASE processFft
  BY <1>3 DEF processFft
<1>4. CASE updateRateChange
  BY <1>4 DEF updateRateChange, FollowRate, Reconfigure
<1>5. CASE refreshSaved \/ noAction \/ viewButtons \/ recordButton
  BY <1>5 DEF refreshSaved, noAction, viewButtons, recordButton
<1>6. ASSUME NEW c \in Centres, typeCenter(c) PROVE TuneInv'
  BY <1>6 DEF typeCenter
<1>7. ASSUME NEW r \in Rates, pickRate(r) PROVE TuneInv'
  BY <1>7 DEF pickRate
<1>8. CASE stopButton \/ stopPool
  BY <1>8 DEF stopButton, stopPool
<1>15. CASE stopJoined \/ closed
  <2>1. running' = FALSE
    BY <1>15 DEF stopJoined, closed, joinAndClose
  <2> QED BY <2>1
<1>9. CASE startButton
  <2>1. CASE gui' = "pool" /\ startOpens
    <3>1. running' = TRUE /\ reader' = "entering"
      BY <2>1 DEF startOpens
    <3> QED BY <2>1, <3>1
  <2>2. CASE UNCHANGED <<running, reader>>
    <3>1. running = FALSE
      BY <1>9 DEF startButton
    <3> QED BY <2>2, <3>1
  <2> QED BY <1>9, <2>1, <2>2 DEF startButton, startFails
<1>10. CASE startPool
  BY <1>10 DEF startPool, Reconfigure
<1>11. CASE startRing \/ startRestore \/ startRecord \/ startFailed
  BY <1>11 DEF startRing, startRestore, startRecord, startFailed
<1>12. ASSUME NEW p \in Panned, drawSpectrum(p) PROVE TuneInv'
  <2>1. CASE WouldBrowse(view') /\ retunePreserving(view'.ctr)
    BY <1>12, <2>1 DEF drawSpectrum, WouldBrowse, retunePreserving, Reconfigure
  <2>2. CASE UNCHANGED <<centerFreqMHz, sdrCenter, poolFs, poolCenter, typed, lastRetuneCtr>>
    BY <1>12, <2>2 DEF drawSpectrum
  <2> QED BY <1>12, <2>1, <2>2 DEF drawSpectrum, browse
<1>13. CASE closeWindow
  BY <1>13 DEF closeWindow
<1>14. CASE UNCHANGED vars
  BY <1>14 DEF vars
<1> QED
  BY <1>1, <1>2, <1>3, <1>4, <1>5, <1>6, <1>7, <1>8, <1>9, <1>10, <1>11, <1>12, <1>13, <1>14,
     <1>15 DEF Next, Gui, StartActive

(* While the source runs the decoders are configured for the centre the     *)
(* radio is tuned to, unless a centre was typed since.                      *)
THEOREM PoolAlwaysAtCenter == Spec => []PoolAtCenter
<1>1. TuneInv => PoolAtCenter
  BY DEF TuneInv, CenterInv, PoolAtCenter, InFrame
<1> QED BY <1>1, TuneInit, TuneStep, PTL DEF Spec

(* From the middle of every frame on the decoders are configured for the    *)
(* rate the source runs at.                                                 *)
THEOREM PoolAlwaysAtRate == Spec => []PoolAtRate
<1>1. TuneInv => PoolAtRate
  BY DEF TuneInv, RateInv, PoolAtRate, At
<1> QED BY <1>1, TuneInit, TuneStep, PTL DEF Spec

-----------------------------------------------------------------------------
LEMMA SessionInit == Init => SessionInv
BY DEF Init, SourceInit, SessionInv, ReaderInv, PoolInv, SavedInv

LEMMA SessionStep == SessionInv /\ [Next]_vars => SessionInv'
<1> SUFFICES ASSUME SaveDecoders, ReaderInv, PoolInv, SavedInv, [Next]_vars
             PROVE  ReaderInv' /\ PoolInv' /\ SavedInv'
  BY DEF SessionInv
<1> USE DEF ReaderInv, PoolInv, SavedInv, At, sourceVars, deviceVars, streamVars, poolVars, saveVars
<1>1. CASE Source
  <2>1. running' = running \/ running' = FALSE
    BY <1>1 DEF Source, Read, readerEnters, capture, onAsync, readerEnds, unplug, plug
  <2>2. (reader' = "none" <=> reader = "none") /\ (running' => reader' \notin {"none", "ended"})
    BY <1>1 DEF Source, Read, readerEnters, capture, onAsync, readerEnds, unplug, plug
  <2>3. running' \in BOOLEAN
    BY <2>1, Zenon
  <2>4. PoolInv'
    BY <1>1, <2>2 DEF Source
  <2> QED BY <1>1, <2>1, <2>2, <2>3, <2>4 DEF Source
<1>2. CASE Reader
  BY <1>2 DEF Reader, callbackPrebuffer, callbackWrite
<1>3. CASE processFft \/ updateRateChange
  <2>1. UNCHANGED <<reader, running, poolOn, decoders, saveVars>> /\ gui \in {"fft", "rate"}
        /\ gui' \in {"rate", "save"}
    BY <1>3 DEF processFft, updateRateChange
  <2> QED BY <2>1
<1>4. CASE refreshSaved
  BY <1>4 DEF refreshSaved, RefreshNow
<1>5. CASE noAction \/ viewButtons \/ recordButton
  BY <1>5 DEF noAction, viewButtons, recordButton
<1>6. ASSUME NEW c \in Centres, typeCenter(c) PROVE ReaderInv' /\ PoolInv' /\ SavedInv'
  BY <1>6 DEF typeCenter
<1>7. ASSUME NEW r \in Rates, pickRate(r) PROVE ReaderInv' /\ PoolInv' /\ SavedInv'
  BY <1>7 DEF pickRate
<1>8. CASE stopButton
  BY <1>8 DEF stopButton
<1>9. CASE stopJoined
  <2>1. running' = FALSE
    BY <1>9 DEF stopJoined, joinAndClose
  <2> QED BY <1>9, <2>1 DEF stopJoined, joinAndClose
<1>10. CASE stopPool
  <2>1. poolOn' = FALSE
    BY <1>10 DEF stopPool
  <2> QED BY <1>10, <2>1 DEF stopPool
<1>11. CASE startButton
  <2>1. ~running /\ gui = "controls" /\ UNCHANGED <<poolOn, decoders, saveVars>>
    BY <1>11 DEF startButton
  <2>2. CASE gui' = "pool" /\ reader = "none" /\ startOpens
    <3>1. running' = TRUE /\ reader' = "entering"
      BY <2>2 DEF startOpens
    <3> QED BY <2>1, <2>2, <3>1
  <2>3. CASE UNCHANGED <<running, reader>> /\ gui' \in {"failed", "controls"}
    <3>1. running = FALSE
      BY <2>1
    <3> QED BY <2>1, <2>3, <3>1
  <2> QED BY <1>11, <2>1, <2>2, <2>3 DEF startButton, startFails, Joinable
<1>12. CASE startPool
  <2>1. poolOn' = TRUE
    BY <1>12 DEF startPool
  <2> QED BY <1>12, <2>1 DEF startPool
<1>13. CASE startRing
  BY <1>13 DEF startRing
<1>14. CASE startRestore
  BY <1>14 DEF startRestore
<1>15. CASE startRecord \/ startFailed
  BY <1>15 DEF startRecord, startFailed
<1>16. ASSUME NEW p \in Panned, drawSpectrum(p) PROVE ReaderInv' /\ PoolInv' /\ SavedInv'
  <2>1. ~poolOn => decoders' = decoders
    BY <1>16 DEF drawSpectrum, EditDecoders
  <2> QED BY <1>16, <2>1 DEF drawSpectrum
<1>17. CASE closeWindow
  <2>1. poolOn' = FALSE
    BY <1>17 DEF closeWindow
  <2> QED BY <1>17, <2>1 DEF closeWindow
<1>18. CASE closed
  <2>1. running' = FALSE
    BY <1>18 DEF closed, joinAndClose
  <2> QED BY <1>18, <2>1 DEF closed
<1>19. CASE UNCHANGED vars
  BY <1>19 DEF vars
<1> QED
  BY <1>1, <1>2, <1>3, <1>4, <1>5, <1>6, <1>7, <1>8, <1>9, <1>10, <1>11, <1>12, <1>13, <1>14,
     <1>15, <1>16, <1>17, <1>18, <1>19 DEF Next, Gui, StartActive

(* Every start that gets as far as the restore brings back the decoders     *)
(* there were at the last stop.                                             *)
THEOREM SavedAlwaysSurvive == Spec => SavedSurvive
<1>1. SessionInv /\ [Next]_vars => [startRestore /\ SaveDecoders => decoders' = atStop]_vars
  <2> SUFFICES ASSUME SessionInv, startRestore, SaveDecoders PROVE decoders' = atStop
    OBVIOUS
  <2> QED BY DEF SessionInv, SavedInv, startRestore, At
<1> QED BY <1>1, SessionInit, SessionStep, PTL DEF Spec, SavedSurvive
-----------------------------------------------------------------------------
(* Types.                                                                   *)

(* The invariant in parts, one for what goes by one kind of value; a view   *)
(* is fitted before it may be browsed.                                      *)
FlagTypes ==
  /\ present \in BOOLEAN /\ running \in BOOLEAN
  /\ poolOn \in BOOLEAN /\ resetView \in BOOLEAN /\ fftReady \in BOOLEAN
  /\ bandBrowse \in BOOLEAN /\ recording \in BOOLEAN /\ rateChanged \in BOOLEAN
  /\ typed \in BOOLEAN

PlaceTypes ==
  /\ dev \in {"none", "open", "lost"}
  /\ reader \in ReaderStates
  /\ cancelled \in {"no", "sent", "early"}
  /\ gui \in GuiStates
  /\ ended \in {"no", "closed", "terminate"}

RateTypes ==
  /\ sdrRate \in Rates /\ sampleRate \in Rates /\ recRate \in Rates
  /\ lastConfiguredFs \in Rates \union {0} /\ poolFs \in Rates \union {0}

DecoderTypes == decoders \subseteq Freqs /\ savedDecoders \subseteq Freqs /\ atStop \subseteq Freqs

ViewTypes ==
  /\ sdrRate \in Rates
  /\ sdrCenter \in Centres /\ centerFreqMHz \in Centres /\ asked \in Centres
  /\ poolCenter \in Centres \union {0} /\ lastRetuneCtr \in Centres \union {0}
  /\ axis \in Bands \union {NoBand} /\ view \in Bands \union {NoBand}
  /\ ~resetView => view # NoBand

BlockTypes ==
  /\ sdrRate \in Rates
  /\ usb \in Seq(Rates) /\ Len(usb) <= InFlight
  /\ hand \in Rates
  /\ ring \in Seq(Rates) /\ Len(ring) <= RingBlocks
  /\ wrong \in 0 .. Many

LEMMA Parameters ==
  /\ Rates \subseteq Nat \ {0} /\ Centres \subseteq Nat \ {0}
  /\ InFlight \in Nat \ {0} /\ Halves \subseteq Nat /\ RingBlocks \in Nat
  /\ Many \in Nat
BY SourceAssumption, SessionAssumption DEF Many

LEMMA EmptyType == <<>> \in Seq(Rates) /\ Len(<<>>) <= InFlight /\ Len(<<>>) <= RingBlocks
<1>1. <<>> \in Seq(Rates) /\ Len(<<>>) = 0
  OBVIOUS
<1> QED BY <1>1, Parameters

LEMMA AppendType ==
  ASSUME NEW s \in Seq(Rates), NEW x \in Rates
  PROVE  /\ Append(s, x) \in Seq(Rates) /\ Len(Append(s, x)) = Len(s) + 1
         /\ Append(s, x) # <<>> /\ Len(s) \in Nat
OBVIOUS

LEMMA TailType ==
  ASSUME NEW s \in Seq(Rates), s # <<>>
  PROVE  Head(s) \in Rates /\ Tail(s) \in Seq(Rates) /\ Len(Tail(s)) = Len(s) - 1 /\ Len(s) \in Nat
OBVIOUS

LEMMA LastBlocksType ==
  ASSUME NEW s \in Seq(Rates), Len(s) <= RingBlocks, NEW x \in Rates
  PROVE  LastBlocks(Append(s, x)) \in Seq(Rates) /\ Len(LastBlocks(Append(s, x))) <= RingBlocks
<1>1. /\ Append(s, x) \in Seq(Rates) /\ Len(Append(s, x)) = Len(s) + 1
      /\ Append(s, x) # <<>> /\ Len(s) \in Nat
  BY AppendType
<1>2. /\ Tail(Append(s, x)) \in Seq(Rates)
      /\ Len(Tail(Append(s, x))) = Len(Append(s, x)) - 1
  BY <1>1, TailType
<1> QED BY <1>1, <1>2, Parameters DEF LastBlocks

LEMMA CountType ==
  ASSUME NEW s \in Seq(Rates), NEW r \in Rates
  PROVE  CountWrong(CountIn(s, r)) \in 0 .. Many
<1>1. IsFiniteSet(DOMAIN s)
  BY FS_Interval
<1>2. IsFiniteSet({i \in DOMAIN s : s[i] # r})
  BY <1>1, FS_Subset
<1>3. CountIn(s, r) \in Nat
  BY <1>2, FS_CardinalityType DEF CountIn
<1> QED BY <1>3, Parameters DEF CountWrong

LEMMA SourceBandType == sdrRate \in Rates /\ sdrCenter \in Centres => SourceBand \in Bands
BY Parameters DEF SourceBand, Bands, Half

-----------------------------------------------------------------------------
LEMMA FlagInit == Init => FlagTypes
BY DEF Init, SourceInit, FlagTypes

LEMMA FlagStep == FlagTypes /\ [Next]_vars => FlagTypes'
<1> SUFFICES ASSUME FlagTypes, [Next]_vars PROVE FlagTypes'
  OBVIOUS
<1> USE DEF FlagTypes, sourceVars, deviceVars, streamVars, tuneVars, panelVars, poolVars, saveVars,
            viewVars, browseVars, recVars, askVars
<1>1. CASE Source
  <2>1. present' \in BOOLEAN /\ running' \in BOOLEAN
    BY <1>1, Zenon DEF Source, Read, readerEnters, capture, onAsync, readerEnds, unplug, plug
  <2> QED BY <1>1, <2>1 DEF Source
<1>2. CASE Reader
  BY <1>2 DEF Reader, callbackPrebuffer, callbackWrite
<1>3. CASE processFft
  BY <1>3 DEF processFft
<1>4. CASE updateRateChange
  BY <1>4 DEF updateRateChange, FollowRate, Reconfigure
<1>5. CASE refreshSaved \/ noAction
  BY <1>5 DEF refreshSaved, noAction
<1>6. CASE viewButtons
  BY <1>6 DEF viewButtons
<1>7. ASSUME NEW c \in Centres, typeCenter(c) PROVE FlagTypes'
  BY <1>7 DEF typeCenter
<1>8. ASSUME NEW r \in Rates, pickRate(r) PROVE FlagTypes'
  BY <1>8 DEF pickRate
<1>9. CASE recordButton
  BY <1>9 DEF recordButton, BeginRecording
<1>10. CASE stopButton \/ stopPool \/ closeWindow
  BY <1>10 DEF stopButton, stopPool, closeWindow
<1>11. CASE stopJoined \/ closed
  BY <1>11 DEF stopJoined, closed, joinAndClose
<1>12. CASE startButton
  <2>1. present' \in BOOLEAN /\ running' \in BOOLEAN /\ rateChanged' \in BOOLEAN
    BY <1>12, Zenon DEF startButton, startFails, startOpens
  <2> QED BY <1>12, <2>1 DEF startButton
<1>13. CASE startPool \/ startRing \/ startRestore
  BY <1>13 DEF startPool, startRing, startRestore, Reconfigure
<1>14. CASE startRecord \/ startFailed
  BY <1>14 DEF startRecord, startFailed
<1>15. ASSUME NEW p \in Panned, drawSpectrum(p) PROVE FlagTypes'
  <2>1. typed' \in BOOLEAN
    BY <1>15 DEF drawSpectrum, browse, retunePreserving
  <2>2. resetView' \in BOOLEAN
    BY <1>15 DEF drawSpectrum
  <2> QED BY <1>15, <2>1, <2>2 DEF drawSpectrum
<1>16. CASE UNCHANGED vars
  BY <1>16 DEF vars
<1> QED
  BY <1>1, <1>2, <1>3, <1>4, <1>5, <1>6, <1>7, <1>8, <1>9, <1>10, <1>11, <1>12, <1>13, <1>14,
     <1>15, <1>16 DEF Next, Gui, StartActive

LEMMA PlaceInit == Init => PlaceTypes
BY DEF Init, SourceInit, PlaceTypes, GuiStates, ReaderStates

LEMMA PlaceStep == PlaceTypes /\ [Next]_vars => PlaceTypes'
<1> SUFFICES ASSUME PlaceTypes, [Next]_vars PROVE PlaceTypes'
  OBVIOUS
<1> USE DEF PlaceTypes, GuiStates, ReaderStates, sourceVars, deviceVars
<1>1. CASE Source
  BY <1>1 DEF Source, Read, readerEnters, capture, onAsync, readerEnds, unplug, plug
<1>2. CASE Reader
  BY <1>2 DEF Reader, callbackPrebuffer, callbackWrite
<1>3. CASE processFft \/ updateRateChange \/ refreshSaved
  BY <1>3 DEF processFft, updateRateChange, refreshSaved
<1>4. CASE noAction \/ viewButtons \/ recordButton
  BY <1>4 DEF noAction, viewButtons, recordButton
<1>5. ASSUME NEW c \in Centres, typeCenter(c) PROVE PlaceTypes'
  BY <1>5 DEF typeCenter
<1>6. ASSUME NEW r \in Rates, pickRate(r) PROVE PlaceTypes'
  BY <1>6 DEF pickRate
<1>7. CASE stopButton \/ stopPool \/ closeWindow
  BY <1>7 DEF stopButton, stopPool, closeWindow, cancelAsync
<1>8. CASE stopJoined \/ closed
  BY <1>8 DEF stopJoined, closed, joinAndClose
<1>9. CASE startButton
  BY <1>9 DEF startButton, startFails, startOpens
<1>10. CASE startPool \/ startRing \/ startRestore \/ startRecord \/ startFailed
  BY <1>10 DEF startPool, startRing, startRestore, startRecord, startFailed
<1>11. ASSUME NEW p \in Panned, drawSpectrum(p) PROVE PlaceTypes'
  BY <1>11 DEF drawSpectrum
<1>12. CASE UNCHANGED vars
  BY <1>12 DEF vars
<1> QED
  BY <1>1, <1>2, <1>3, <1>4, <1>5, <1>6, <1>7, <1>8, <1>9, <1>10, <1>11, <1>12
     DEF Next, Gui, StartActive

LEMMA RateInit == Init => RateTypes
BY DEF Init, SourceInit, RateTypes

LEMMA RateStep == RateTypes /\ [Next]_vars => RateTypes'
<1> SUFFICES ASSUME RateTypes, [Next]_vars PROVE RateTypes'
  OBVIOUS
<1> USE DEF RateTypes, sourceVars, tuneVars, panelVars, poolVars, recVars
<1>1. CASE Source
  BY <1>1 DEF Source, Read, readerEnters, capture, onAsync, readerEnds, unplug, plug
<1>2. CASE Reader
  BY <1>2 DEF Reader, callbackPrebuffer, callbackWrite
<1>3. CASE processFft \/ updateRateChange \/ refreshSaved
  BY <1>3 DEF processFft, updateRateChange, refreshSaved, FollowRate, Reconfigure
<1>4. CASE noAction \/ viewButtons \/ recordButton
  BY <1>4 DEF noAction, viewButtons, recordButton, BeginRecording
<1>5. ASSUME NEW c \in Centres, typeCenter(c) PROVE RateTypes'
  BY <1>5 DEF typeCenter
<1>6. ASSUME NEW r \in Rates, pickRate(r) PROVE RateTypes'
  BY <1>6 DEF pickRate
<1>7. CASE stopButton \/ stopPool \/ closeWindow
  BY <1>7 DEF stopButton, stopPool, closeWindow
<1>8. CASE stopJoined \/ closed
  BY <1>8 DEF stopJoined, closed, joinAndClose
<1>9. CASE startButton
  BY <1>9 DEF startButton
<1>10. CASE startPool \/ startRing \/ startRestore \/ startRecord \/ startFailed
  BY <1>10 DEF startPool, startRing, startRestore, startRecord, startFailed, Reconfigure
<1>11. ASSUME NEW p \in Panned, drawSpectrum(p) PROVE RateTypes'
  BY <1>11 DEF drawSpectrum, browse, retunePreserving, Reconfigure
<1>12. CASE UNCHANGED vars
  BY <1>12 DEF vars
<1> QED
  BY <1>1, <1>2, <1>3, <1>4, <1>5, <1>6, <1>7, <1>8, <1>9, <1>10, <1>11, <1>12
     DEF Next, Gui, StartActive

LEMMA DecoderInit == Init => DecoderTypes
BY DEF Init, SourceInit, DecoderTypes

LEMMA DecoderStep == DecoderTypes /\ [Next]_vars => DecoderTypes'
<1> SUFFICES ASSUME DecoderTypes, [Next]_vars PROVE DecoderTypes'
  OBVIOUS
<1> USE DEF DecoderTypes, poolVars, saveVars
<1>1. CASE Source \/ Reader
  BY <1>1 DEF Source, Reader, callbackPrebuffer, callbackWrite
<1>2. CASE processFft \/ updateRateChange \/ refreshSaved
  BY <1>2 DEF processFft, updateRateChange, refreshSaved
<1>3. CASE noAction \/ viewButtons \/ recordButton
  BY <1>3 DEF noAction, viewButtons, recordButton
<1>4. ASSUME NEW c \in Centres, typeCenter(c) PROVE DecoderTypes'
  BY <1>4 DEF typeCenter
<1>5. ASSUME NEW r \in Rates, pickRate(r) PROVE DecoderTypes'
  BY <1>5 DEF pickRate
<1>6. CASE stopButton \/ stopPool \/ closeWindow \/ stopJoined \/ closed
  BY <1>6 DEF stopButton, stopPool, closeWindow, stopJoined, closed
<1>7. CASE startButton
  BY <1>7 DEF startButton
<1>8. CASE startPool \/ startRing \/ startRestore \/ startRecord \/ startFailed
  BY <1>8 DEF startPool, startRing, startRestore, startRecord, startFailed
<1>9. ASSUME NEW p \in Panned, drawSpectrum(p) PROVE DecoderTypes'
  BY <1>9 DEF drawSpectrum, EditDecoders
<1>10. CASE UNCHANGED vars
  BY <1>10 DEF vars
<1> QED
  BY <1>1, <1>2, <1>3, <1>4, <1>5, <1>6, <1>7, <1>8, <1>9, <1>10 DEF Next, Gui, StartActive

LEMMA ViewInit == Init => ViewTypes
BY DEF Init, SourceInit, ViewTypes

LEMMA ViewStep == ViewTypes /\ RateTypes' /\ [Next]_vars => ViewTypes'
<1> SUFFICES ASSUME ViewTypes, sdrRate' \in Rates, [Next]_vars PROVE ViewTypes'
  BY DEF RateTypes
<1> USE DEF ViewTypes, sourceVars, tuneVars, panelVars, poolVars, viewVars, browseVars, askVars
<1>1. CASE Source \/ Reader
  BY <1>1 DEF Source, Read, readerEnters, capture, onAsync, readerEnds, unplug, plug,
              Reader, callbackPrebuffer, callbackWrite
<1>2. CASE processFft
  <2>1. SourceBand \in Bands
    BY SourceBandType
  <2> QED BY <1>2, <2>1 DEF processFft
<1>3. CASE updateRateChange
  <2>1. SourceBand \in Bands
    BY SourceBandType
  <2> QED BY <1>3, <2>1 DEF updateRateChange, FollowRate, Reconfigure
<1>4. CASE refreshSaved \/ noAction \/ recordButton
  BY <1>4 DEF refreshSaved, noAction, recordButton
<1>5. CASE viewButtons
  <2>1. view # NoBand => view.ctr \in Centres
    BY DEF Bands
  <2> QED BY <1>5, <2>1 DEF viewButtons
<1>6. ASSUME NEW c \in Centres, typeCenter(c) PROVE ViewTypes'
  BY <1>6 DEF typeCenter
<1>7. ASSUME NEW r \in Rates, pickRate(r) PROVE ViewTypes'
  BY <1>7 DEF pickRate
<1>8. CASE stopButton \/ stopPool \/ closeWindow
  BY <1>8 DEF stopButton, stopPool, closeWindow
<1>9. CASE stopJoined \/ closed
  BY <1>9 DEF stopJoined, closed, joinAndClose
<1>10. CASE startButton
  BY <1>10 DEF startButton
<1>11. CASE startPool \/ startRing \/ startRestore \/ startRecord \/ startFailed
  BY <1>11 DEF startPool, startRing, startRestore, startRecord, startFailed, Reconfigure
<1>12. ASSUME NEW p \in Panned, drawSpectrum(p) PROVE ViewTypes'
  <2>1. p # NoBand => p \in Bands /\ p.ctr \in Centres
    BY Parameters DEF Panned, Bands
  <2>2. view' \in Bands \union {NoBand} /\ (~resetView' => view' # NoBand)
        /\ (~resetView => view' # NoBand)
    BY <1>12, <2>1 DEF drawSpectrum, ViewNow, Fits
  <2>3. asked' \in Centres
    BY <1>12, <2>1 DEF drawSpectrum
  <2>4. /\ centerFreqMHz' \in Centres /\ sdrCenter' \in Centres
        /\ poolCenter' \in Centres \union {0} /\ lastRetuneCtr' \in Centres \union {0}
    <3>1. CASE WouldBrowse(view') /\ retunePreserving(view'.ctr) /\ lastRetuneCtr' = view'.ctr
      <4>1. view'.ctr \in Centres
        BY <2>2, <3>1 DEF WouldBrowse, Bands
      <4> QED BY <3>1, <4>1 DEF retunePreserving, Reconfigure
    <3>2. CASE UNCHANGED <<centerFreqMHz, sdrCenter, poolFs, poolCenter, typed, lastRetuneCtr>>
      BY <3>2
    <3> QED BY <1>12, <3>1, <3>2 DEF drawSpectrum, browse
  <2> QED BY <1>12, <2>2, <2>3, <2>4 DEF drawSpectrum
<1>13. CASE UNCHANGED vars
  BY <1>13 DEF vars
<1> QED
  BY <1>1, <1>2, <1>3, <1>4, <1>5, <1>6, <1>7, <1>8, <1>9, <1>10, <1>11, <1>12, <1>13
     DEF Next, Gui, StartActive

LEMMA BlockInit == Init => BlockTypes
<1> SUFFICES ASSUME Init PROVE BlockTypes
  OBVIOUS
<1>1. usb = <<>> /\ ring = <<>> /\ sdrRate \in Rates /\ hand = sdrRate /\ wrong = 0
  BY DEF Init, SourceInit
<1> QED BY <1>1, EmptyType, Parameters DEF BlockTypes

LEMMA BlockStep == BlockTypes /\ RateTypes' /\ [Next]_vars => BlockTypes'
<1> SUFFICES ASSUME BlockTypes, sdrRate' \in Rates, [Next]_vars PROVE BlockTypes'
  BY DEF RateTypes
<1> USE DEF BlockTypes, sourceVars, streamVars, recVars
<1>1. CASE Source
  <2>1. CASE capture
    <3>1. usb' = Append(usb, sdrRate) /\ Len(usb) < InFlight /\ hand' = hand
      BY <2>1 DEF capture
    <3>2. usb' \in Seq(Rates) /\ Len(usb') <= InFlight
      BY <3>1, AppendType, Parameters
    <3> QED BY <1>1, <3>1, <3>2 DEF Source
  <2>2. CASE onAsync
    <3>1. hand' = Head(usb) /\ usb' = Tail(usb) /\ usb # <<>>
      BY <2>2 DEF onAsync
    <3>2. hand' \in Rates /\ usb' \in Seq(Rates) /\ Len(usb') <= InFlight
      BY <3>1, TailType, Parameters
    <3> QED BY <1>1, <3>2 DEF Source
  <2>3. CASE readerEnters \/ readerEnds \/ unplug \/ plug
    BY <1>1, <2>3 DEF Source, readerEnters, readerEnds, unplug, plug
  <2> QED BY <1>1, <2>1, <2>2, <2>3 DEF Source, Read
<1>2. CASE callbackPrebuffer
  <2>1. ring' \in Seq(Rates) /\ Len(ring') <= RingBlocks
    BY <1>2, LastBlocksType DEF callbackPrebuffer
  <2> QED BY <1>2, <2>1 DEF callbackPrebuffer
<1>3. CASE callbackWrite
  <2>1. wrong' \in 0 .. Many
    BY <1>3, Parameters DEF callbackWrite, CountWrong
  <2> QED BY <1>3, <2>1 DEF callbackWrite
<1>4. CASE updateRateChange
  <2>1. (ring' = ring \/ ring' = <<>>) /\ UNCHANGED <<usb, hand, wrong>>
    BY <1>4 DEF updateRateChange, FollowRate, RingDropped
  <2>2. ring' \in Seq(Rates) /\ Len(ring') <= RingBlocks
    BY <2>1, EmptyType
  <2> QED BY <2>1, <2>2
<1>5. CASE processFft \/ refreshSaved \/ noAction \/ viewButtons
  BY <1>5 DEF processFft, refreshSaved, noAction, viewButtons
<1>6. ASSUME NEW c \in Centres, typeCenter(c) PROVE BlockTypes'
  BY <1>6 DEF typeCenter
<1>7. ASSUME NEW r \in Rates, pickRate(r) PROVE BlockTypes'
  BY <1>7 DEF pickRate
<1>8. CASE recordButton
  <2>1. CountWrong(CountIn(ring, sdrRate)) \in 0 .. Many
    BY CountType
  <2>2. /\ wrong' \in 0 .. Many /\ (ring' = ring \/ ring' = <<>>)
        /\ UNCHANGED <<usb, hand>>
    BY <1>8, <2>1 DEF recordButton, BeginRecording
  <2>3. ring' \in Seq(Rates) /\ Len(ring') <= RingBlocks
    BY <2>2, EmptyType
  <2> QED BY <2>2, <2>3
<1>9. CASE stopButton \/ stopPool \/ closeWindow
  BY <1>9 DEF stopButton, stopPool, closeWindow
<1>10. CASE stopJoined \/ closed
  <2>1. usb' = <<>> /\ hand' = hand /\ UNCHANGED <<ring, wrong>>
    BY <1>10 DEF stopJoined, closed, joinAndClose
  <2> QED BY <2>1, EmptyType
<1>11. CASE startButton
  <2>1. (usb' = usb \/ usb' = <<>>) /\ hand' = hand /\ UNCHANGED <<ring, wrong>>
    BY <1>11 DEF startButton, startFails, startOpens
  <2>2. usb' \in Seq(Rates) /\ Len(usb') <= InFlight
    BY <2>1, EmptyType
  <2> QED BY <2>1, <2>2
<1>12. CASE startPool \/ startRestore
  BY <1>12 DEF startPool, startRestore
<1>13. CASE startRing \/ startRecord \/ startFailed
  <2>1. /\ (ring' = ring \/ ring' = <<>>) /\ (wrong' = wrong \/ wrong' = 0)
        /\ UNCHANGED <<usb, hand>>
    BY <1>13 DEF startRing, startRecord, startFailed, RingDropped
  <2>2. ring' \in Seq(Rates) /\ Len(ring') <= RingBlocks
    BY <2>1, EmptyType
  <2>3. wrong' \in 0 .. Many
    BY <2>1, Parameters
  <2> QED BY <2>1, <2>2, <2>3
<1>14. ASSUME NEW p \in Panned, drawSpectrum(p) PROVE BlockTypes'
  BY <1>14 DEF drawSpectrum
<1>15. CASE UNCHANGED vars
  BY <1>15 DEF vars
<1> QED
  BY <1>1, <1>2, <1>3, <1>4, <1>5, <1>6, <1>7, <1>8, <1>9, <1>10, <1>11, <1>12, <1>13, <1>14,
     <1>15 DEF Next, Gui, Reader, StartActive

(* Type correctness of the session and its source, for all rates, centres,  *)
(* zooms and bounds: browsing never takes the centre of a view there is not. *)
THEOREM TypeCorrect == Spec => []TypeOK
<1> DEFINE Types == FlagTypes /\ PlaceTypes /\ RateTypes /\ DecoderTypes /\ ViewTypes /\ BlockTypes
<1>1. Init => Types
  BY FlagInit, PlaceInit, RateInit, DecoderInit, ViewInit, BlockInit
<1>2. Types /\ [Next]_vars => Types'
  BY FlagStep, PlaceStep, RateStep, DecoderStep, ViewStep, BlockStep
<1>3. Types => TypeOK
  BY DEF FlagTypes, PlaceTypes, RateTypes, DecoderTypes, ViewTypes, BlockTypes, TypeOK, SourceTypeOK
<1> HIDE DEF Types
<1> QED BY <1>1, <1>2, <1>3, PTL DEF Spec

-----------------------------------------------------------------------------
(* Blocks of another rate in a recording.                                   *)

InHand(places) == IF reader \in places /\ hand # sdrRate THEN 1 ELSE 0

FlowInv == running <=> reader \notin {"none", "ended"}

(* Since the pre-buffer was last dropped, what it holds of another rate was *)
(* in flight or in hand then, and has left there.                           *)
RingInv ==
  running /\ sdrRate = lastConfiguredFs /\ gui \notin {"pool", "ring"} =>
    CountIn(ring, sdrRate) + CountIn(usb, sdrRate) + InHand({"buffer"}) <= InFlight + 1

(* What is in the recording, with what may still get there.  The block in   *)
(* hand may come a second time when the recording began with it.            *)
RecordInv ==
  recording /\ ~rateChanged =>
    /\ wrong <= InFlight + 2
    /\ running => /\ recRate = sdrRate
                  /\ wrong + CountIn(usb, sdrRate) + InHand({"buffer", "write"}) <= InFlight + 2

StaleInv == FlowInv /\ RingInv /\ RecordInv

LEMMA CountBounds ==
  ASSUME NEW s \in Seq(Rates), NEW r
  PROVE  CountIn(s, r) \in Nat /\ CountIn(s, r) <= Len(s)
<1> DEFINE n == Len(s)
           S == {i \in DOMAIN s : s[i] # r}
<1>1. n \in Nat /\ DOMAIN s = 1 .. n
  OBVIOUS
<1>2. IsFiniteSet(1 .. n) /\ Cardinality(1 .. n) = n
  BY <1>1, FS_Interval
<1>3. S \subseteq 1 .. n
  BY <1>1
<1> HIDE DEF n, S
<1>4. IsFiniteSet(S) /\ Cardinality(S) <= Cardinality(1 .. n)
  BY <1>2, <1>3, FS_Subset
<1>5. Cardinality(S) \in Nat
  BY <1>4, FS_CardinalityType
<1> QED BY <1>2, <1>4, <1>5 DEF CountIn, S, n

LEMMA CountEmpty == ASSUME NEW r PROVE CountIn(<<>>, r) = 0
<1>1. {i \in DOMAIN <<>> : <<>>[i] # r} = {}
  OBVIOUS
<1> QED BY <1>1, FS_EmptySet DEF CountIn

LEMMA CountAppend ==
  ASSUME NEW s \in Seq(Rates), NEW x \in Rates, NEW r
  PROVE  CountIn(Append(s, x), r) = CountIn(s, r) + (IF x # r THEN 1 ELSE 0)
<1> DEFINE n == Len(s)
           S == {i \in DOMAIN s : s[i] # r}
           T == {i \in DOMAIN Append(s, x) : Append(s, x)[i] # r}
<1>1. n \in Nat /\ DOMAIN s = 1 .. n
  OBVIOUS
<1>2. IsFiniteSet(1 .. n)
  BY <1>1, FS_Interval
<1>3. S \in SUBSET (1 .. n) /\ n + 1 \notin S
  BY <1>1
<1>4. T = IF x # r THEN S \cup {n + 1} ELSE S
  BY <1>1
<1> HIDE DEF n, S, T
<1>5. IsFiniteSet(S)
  BY <1>2, <1>3, FS_Subset
<1>6. Cardinality(S) \in Nat
  BY <1>5, FS_CardinalityType
<1>7. Cardinality(S \cup {n + 1}) = Cardinality(S) + 1
  BY <1>3, <1>5, FS_AddElement
<1>8. CountIn(s, r) = Cardinality(S) /\ CountIn(Append(s, x), r) = Cardinality(T)
  BY Zenon DEF CountIn, S, T
<1> QED BY <1>4, <1>6, <1>7, <1>8

LEMMA CountTail ==
  ASSUME NEW s \in Seq(Rates), s # <<>>, NEW r
  PROVE  CountIn(s, r) = CountIn(Tail(s), r) + (IF Head(s) # r THEN 1 ELSE 0)
<1> DEFINE n == Len(s)
           t == Tail(s)
           S == {i \in DOMAIN s : s[i] # r}
           T == {i \in DOMAIN t : t[i] # r}
           R == S \ {1}
           f == [i \in T |-> i + 1]
<1>1. /\ n \in Nat /\ n >= 1 /\ DOMAIN s = 1 .. n /\ DOMAIN t = 1 .. n - 1
      /\ \A i \in 1 .. n - 1 : t[i] = s[i + 1]
      /\ Head(s) = s[1]
  OBVIOUS
<1> HIDE DEF n, t
<1>2. IsFiniteSet(1 .. n) /\ IsFiniteSet(1 .. n - 1)
  BY <1>1, FS_Interval
<1>3. /\ S \in SUBSET (1 .. n) /\ T \in SUBSET (1 .. n - 1)
      /\ 1 \in S <=> Head(s) # r
  BY <1>1
<1>4. f \in Bijection(T, R)
  <2>1. \A i \in T : f[i] \in R
    BY <1>1
  <2>2. \A i, j \in T : f[i] = f[j] => i = j
    BY <1>3
  <2>3. \A k \in R : \E i \in T : f[i] = k
    <3> TAKE k \in R
    <3>1. k - 1 \in T /\ (k - 1) + 1 = k
      BY <1>1
    <3> QED BY <3>1
  <2>4. f \in [T -> R]
    BY <2>1
  <2> HIDE DEF f, T, R
  <2> QED BY <2>2, <2>3, <2>4 DEF Bijection, Injection, Surjection, IsInjective
<1> HIDE DEF f, S, T
<1>5. IsFiniteSet(S) /\ IsFiniteSet(T)
  BY <1>2, <1>3, FS_Subset
<1>6. Cardinality(R) = Cardinality(T)
  <2>1. ExistsBijection(T, R)
    BY <1>4 DEF ExistsBijection
  <2> HIDE DEF R
  <2> QED BY <1>5, <2>1, FS_Bijection
<1>7. Cardinality(R) = IF 1 \in S THEN Cardinality(S) - 1 ELSE Cardinality(S)
  BY <1>5, FS_RemoveElement
<1>8. Cardinality(S) \in Nat /\ Cardinality(T) \in Nat
  BY <1>5, FS_CardinalityType
<1>9. CountIn(s, r) = Cardinality(S) /\ CountIn(t, r) = Cardinality(T)
  BY Zenon DEF CountIn, S, T
<1> HIDE DEF R
<1>10. CountIn(s, r) = CountIn(t, r) + (IF Head(s) # r THEN 1 ELSE 0)
  <2>1. CASE 1 \in S
    <3>1. Head(s) # r /\ CountIn(t, r) = CountIn(s, r) - 1
      BY <1>3, <1>6, <1>7, <1>9, <2>1, Zenon
    <3>2. CountIn(t, r) \in Nat /\ CountIn(s, r) \in Nat
      BY <1>8, <1>9, Zenon
    <3> QED BY <3>1, <3>2
  <2>2. CASE 1 \notin S
    <3>1. ~(Head(s) # r) /\ CountIn(t, r) = CountIn(s, r)
      BY <1>3, <1>6, <1>7, <1>9, <2>2, Zenon
    <3>2. CountIn(t, r) \in Nat /\ CountIn(s, r) \in Nat
      BY <1>8, <1>9, Zenon
    <3> QED BY <3>1, <3>2
  <2> QED BY <2>1, <2>2
<1> QED BY <1>10 DEF t

(* The pre-buffer takes in a block, and may drop its oldest.                *)
LEMMA CountKept ==
  ASSUME NEW s \in Seq(Rates), NEW x \in Rates, NEW r
  PROVE  /\ CountIn(LastBlocks(Append(s, x)), r) \in Nat
         /\ CountIn(LastBlocks(Append(s, x)), r) <= CountIn(s, r) + (IF x # r THEN 1 ELSE 0)
<1> DEFINE a == Append(s, x)
<1>1. a \in Seq(Rates) /\ a # <<>> /\ Tail(a) \in Seq(Rates)
  BY AppendType, TailType
<1>2. CountIn(a, r) = CountIn(s, r) + (IF x # r THEN 1 ELSE 0)
  BY CountAppend
<1> HIDE DEF a
<1>3. CountIn(a, r) = CountIn(Tail(a), r) + (IF Head(a) # r THEN 1 ELSE 0)
  BY <1>1, CountTail
<1>4. CountIn(a, r) \in Nat /\ CountIn(Tail(a), r) \in Nat
  BY <1>1, CountBounds
<1>5. CountIn(Tail(a), r) <= CountIn(a, r)
  BY <1>3, <1>4
<1>6. CountIn(LastBlocks(a), r) \in Nat /\ CountIn(LastBlocks(a), r) <= CountIn(a, r)
  <2>1. LastBlocks(a) = Tail(a) \/ LastBlocks(a) = a
    BY DEF LastBlocks
  <2>2. CountIn(LastBlocks(a), r) \in {CountIn(Tail(a), r), CountIn(a, r)}
    BY <2>1
  <2> QED BY <1>4, <1>5, <2>2
<1> QED BY <1>2, <1>6 DEF a

LEMMA StaleInit == Init => StaleInv
<1> SUFFICES ASSUME Init PROVE StaleInv
  OBVIOUS
<1>1. running = FALSE /\ reader = "none" /\ recording = FALSE
  BY DEF Init, SourceInit
<1> QED BY <1>1 DEF StaleInv, FlowInv, RingInv, RecordInv

(* What StaleInv is about.                                                  *)
staleVars == <<reader, running, sdrRate, lastConfiguredFs, ring, usb, hand, recording, rateChanged,
               wrong, recRate>>

LEMMA StaleUnchanged ==
  ASSUME StaleInv, UNCHANGED staleVars, gui' \notin {"pool", "ring"} => gui \notin {"pool", "ring"}
  PROVE  StaleInv'
<1>1. FlowInv'
  BY DEF StaleInv, FlowInv, staleVars
<1>2. RingInv'
  BY DEF StaleInv, RingInv, InHand, staleVars
<1>3. RecordInv'
  BY DEF StaleInv, RecordInv, InHand, staleVars
<1> QED BY <1>1, <1>2, <1>3 DEF StaleInv

(* Steps of the read thread and the device.                                 *)
LEMMA StaleSource ==
  ASSUME FlagTypes, PlaceTypes, BlockTypes, BlockTypes', StaleInv, Source
  PROVE  StaleInv'
<1> USE DEF staleVars
<1>1. /\ usb \in Seq(Rates) /\ usb' \in Seq(Rates) /\ ring \in Seq(Rates) /\ hand \in Rates
      /\ sdrRate \in Rates /\ wrong \in Nat /\ InFlight \in Nat
      /\ Len(usb) <= InFlight /\ running \in BOOLEAN
  BY Parameters DEF BlockTypes, FlagTypes
<1>2. UNCHANGED <<gui, lastConfiguredFs, ring, recording, recRate, wrong, rateChanged>>
  BY DEF Source, recVars, poolVars
<1>3. CASE capture
  <2>1. /\ usb' = Append(usb, sdrRate) /\ UNCHANGED <<reader, running, sdrRate, hand>>
    BY <1>3 DEF capture, tuneVars
  <2>2. CountIn(usb', sdrRate) = CountIn(usb, sdrRate)
    <3>1. CountIn(Append(usb, sdrRate), sdrRate) = CountIn(usb, sdrRate) + 0
      BY <1>1, CountAppend
    <3>2. CountIn(usb, sdrRate) \in Nat
      BY <1>1, CountBounds
    <3> QED BY <2>1, <3>1, <3>2
  <2>3. InHand({"buffer"})' = InHand({"buffer"})
        /\ InHand({"buffer", "write"})' = InHand({"buffer", "write"})
    BY <2>1 DEF InHand
  <2>4. FlowInv'
    BY <2>1 DEF StaleInv, FlowInv
  <2>5. RingInv'
    BY <1>2, <2>1, <2>2, <2>3 DEF StaleInv, RingInv
  <2>6. RecordInv'
    BY <1>2, <2>1, <2>2, <2>3 DEF StaleInv, RecordInv
  <2> QED BY <2>4, <2>5, <2>6 DEF StaleInv
<1>4. CASE onAsync
  <2>1. /\ reader = "reading" /\ running /\ usb # <<>>
        /\ hand' = Head(usb) /\ usb' = Tail(usb) /\ reader' = "buffer"
        /\ UNCHANGED <<running, sdrRate>>
    BY <1>4 DEF onAsync, tuneVars
  <2> DEFINE one == IF Head(usb) # sdrRate THEN 1 ELSE 0
             u   == CountIn(usb, sdrRate)
             v   == CountIn(usb', sdrRate)
  <2>2. u = v + one /\ u \in Nat /\ v \in Nat
    <3>1. CountIn(usb, sdrRate) = CountIn(Tail(usb), sdrRate) + one
      BY <1>1, <2>1, CountTail
    <3> QED BY <1>1, <2>1, <3>1, CountBounds
  <2>3. /\ InHand({"buffer"}) = 0 /\ InHand({"buffer", "write"}) = 0
        /\ InHand({"buffer"})' = one /\ InHand({"buffer", "write"})' = one
    BY <2>1 DEF InHand
  <2>4. FlowInv'
    BY <2>1 DEF StaleInv, FlowInv
  <2>5. RingInv'
    <3> SUFFICES ASSUME running, sdrRate = lastConfiguredFs, gui \notin {"pool", "ring"}
                 PROVE  CountIn(ring, sdrRate) + v + one <= InFlight + 1
      BY <1>2, <2>1, <2>3 DEF RingInv
    <3>1. CountIn(ring, sdrRate) + u + 0 <= InFlight + 1
      BY <2>3 DEF StaleInv, RingInv
    <3>2. CountIn(ring, sdrRate) \in Nat
      BY <1>1, CountBounds
    <3> HIDE DEF u, v
    <3> QED BY <1>1, <2>2, <3>1, <3>2
  <2>6. RecordInv'
    <3> SUFFICES ASSUME recording, ~rateChanged
                 PROVE  /\ wrong <= InFlight + 2
                        /\ running => recRate = sdrRate /\ wrong + v + one <= InFlight + 2
      BY <1>2, <2>1, <2>3 DEF RecordInv
    <3>1. /\ wrong <= InFlight + 2
          /\ running => recRate = sdrRate /\ wrong + u + 0 <= InFlight + 2
      BY <2>3 DEF StaleInv, RecordInv
    <3> HIDE DEF u, v
    <3> QED BY <1>1, <2>2, <3>1
  <2> QED BY <2>4, <2>5, <2>6 DEF StaleInv
<1>5. CASE readerEnters
  <2>1. reader = "entering" /\ reader' = "reading" /\ UNCHANGED <<usb, running, sdrRate, hand>>
    BY <1>5 DEF readerEnters, tuneVars, streamVars
  <2>2. /\ InHand({"buffer"})' = InHand({"buffer"})
        /\ InHand({"buffer", "write"})' = InHand({"buffer", "write"})
    BY <2>1 DEF InHand
  <2>3. FlowInv'
    BY <2>1 DEF StaleInv, FlowInv
  <2>4. RingInv'
    BY <1>2, <2>1, <2>2 DEF StaleInv, RingInv
  <2>5. RecordInv'
    BY <1>2, <2>1, <2>2 DEF StaleInv, RecordInv
  <2> QED BY <2>3, <2>4, <2>5 DEF StaleInv
<1>6. CASE readerEnds
  <2>1. reader' = "ended" /\ running' = FALSE
    BY <1>6 DEF readerEnds
  <2>2. RecordInv'
    BY <1>2, <2>1 DEF StaleInv, RecordInv
  <2> QED BY <2>1, <2>2 DEF StaleInv, FlowInv, RingInv
<1>7. CASE unplug \/ plug
  <2>1. UNCHANGED staleVars
    BY <1>2, <1>7 DEF unplug, plug, tuneVars, streamVars
  <2> QED BY <1>2, <2>1, StaleUnchanged
<1> QED BY <1>3, <1>4, <1>5, <1>6, <1>7 DEF Source, Read

(* Steps of the callback: a block goes into the pre-buffer, and then into   *)
(* the recording.                                                           *)
LEMMA StaleReader ==
  ASSUME FlagTypes, PlaceTypes, BlockTypes, StaleInv, Reader
  PROVE  StaleInv'
<1>1. /\ usb \in Seq(Rates) /\ ring \in Seq(Rates) /\ hand \in Rates
      /\ sdrRate \in Rates /\ wrong \in Nat /\ InFlight \in Nat
      /\ CountIn(usb, sdrRate) \in Nat /\ CountIn(ring, sdrRate) \in Nat
  BY Parameters, CountBounds DEF BlockTypes
<1> DEFINE one == IF hand # sdrRate THEN 1 ELSE 0
           u   == CountIn(usb, sdrRate)
<1>2. CASE callbackPrebuffer
  <2>1. /\ reader = "buffer" /\ reader' = "write" /\ ring' = LastBlocks(Append(ring, hand))
        /\ UNCHANGED <<usb, hand, running, sdrRate, gui, lastConfiguredFs, recording, recRate, wrong,
                       rateChanged>>
    BY <1>2 DEF callbackPrebuffer, tuneVars, streamVars, poolVars
  <2>2. /\ InHand({"buffer"}) = one /\ InHand({"buffer", "write"}) = one
        /\ InHand({"buffer"})' = 0 /\ InHand({"buffer", "write"})' = one
    BY <2>1 DEF InHand
  <2>3. FlowInv'
    BY <2>1 DEF StaleInv, FlowInv
  <2>4. RingInv'
    <3> SUFFICES ASSUME running, sdrRate = lastConfiguredFs, gui \notin {"pool", "ring"}
                 PROVE  CountIn(ring', sdrRate) + u + 0 <= InFlight + 1
      BY <2>1, <2>2 DEF RingInv
    <3>1. CountIn(ring, sdrRate) + u + one <= InFlight + 1
      BY <2>2 DEF StaleInv, RingInv
    <3>2. CountIn(ring', sdrRate) \in Nat /\ CountIn(ring', sdrRate) <= CountIn(ring, sdrRate) + one
      BY <1>1, <2>1, CountKept
    <3> HIDE DEF u
    <3>3. u \in Nat /\ one \in Nat
      BY <1>1 DEF u
    <3> HIDE DEF one
    <3> QED BY <1>1, <3>1, <3>2, <3>3
  <2>5. RecordInv'
    BY <2>1, <2>2 DEF StaleInv, RecordInv
  <2> QED BY <2>3, <2>4, <2>5 DEF StaleInv
<1>3. CASE callbackWrite
  <2>1. /\ reader = "write" /\ reader' = "reading"
        /\ wrong' = IF recording /\ hand # recRate THEN CountWrong(wrong + 1) ELSE wrong
        /\ UNCHANGED <<usb, hand, ring, running, sdrRate, gui, lastConfiguredFs, recording, recRate,
                       rateChanged>>
    BY <1>3 DEF callbackWrite, tuneVars, streamVars, poolVars
  <2>2. /\ InHand({"buffer"}) = 0 /\ InHand({"buffer", "write"}) = one
        /\ InHand({"buffer"})' = 0 /\ InHand({"buffer", "write"})' = 0
    BY <2>1 DEF InHand
  <2>3. FlowInv'
    BY <2>1 DEF StaleInv, FlowInv
  <2>4. RingInv'
    BY <2>1, <2>2 DEF StaleInv, RingInv
  <2>5. RecordInv'
    <3> SUFFICES ASSUME recording, ~rateChanged
                 PROVE  /\ wrong' <= InFlight + 2
                        /\ running => recRate = sdrRate /\ wrong' + u + 0 <= InFlight + 2
      BY <2>1, <2>2 DEF RecordInv
    <3>1. running
      BY <2>1 DEF StaleInv, FlowInv
    <3>2. recRate = sdrRate /\ wrong + u + one <= InFlight + 2
      BY <2>2, <3>1 DEF StaleInv, RecordInv
    <3> HIDE DEF u
    <3>3. u \in Nat
      BY <1>1 DEF u
    <3>4. wrong' = wrong + one
      BY <1>1, <2>1, <3>2, <3>3 DEF CountWrong, Many
    <3> QED BY <1>1, <3>2, <3>3, <3>4
  <2> QED BY <2>3, <2>4, <2>5 DEF StaleInv
<1> QED BY <1>2, <1>3 DEF Reader

LEMMA NoMoreThan ==
  ASSUME NEW w \in Nat, NEW q \in Nat, NEW u \in Nat, NEW h \in Nat, NEW n \in Nat,
         w <= q, q <= n + 1, q + u + h <= n + 2
  PROVE  w + u + h <= n + 2 /\ w <= n + 2
OBVIOUS

(* Steps of the GUI thread that touch the source, the pre-buffer or the     *)
(* recording.                                                               *)
LEMMA StaleGui ==
  ASSUME TuneInv, FlagTypes, PlaceTypes, BlockTypes, StaleInv, Gui
  PROVE  StaleInv'
<1>1. /\ usb \in Seq(Rates) /\ ring \in Seq(Rates) /\ hand \in Rates
      /\ sdrRate \in Rates /\ wrong \in Nat /\ InFlight \in Nat
      /\ CountIn(usb, sdrRate) \in Nat /\ CountIn(ring, sdrRate) \in Nat
      /\ CountIn(usb, sdrRate) <= InFlight
  <2>1. Len(usb) <= InFlight /\ Len(usb) \in Nat
    BY DEF BlockTypes
  <2> QED BY <2>1, Parameters, CountBounds DEF BlockTypes
<1> USE DEF At, sourceVars, deviceVars, streamVars, tuneVars, panelVars, poolVars, recVars
<1>2. CASE \/ processFft \/ refreshSaved \/ noAction \/ viewButtons \/ stopButton \/ stopPool
           \/ closeWindow \/ startRestore \/ (\E c \in Centres : typeCenter(c))
           \/ (\E panned \in Panned : drawSpectrum(panned))
  <2>1. UNCHANGED staleVars
    BY <1>2 DEF processFft, refreshSaved, noAction, viewButtons, stopButton, stopPool, closeWindow,
                typeCenter, drawSpectrum, startRestore, staleVars
  <2>2. gui' \notin {"pool", "ring"} => gui \notin {"pool", "ring"}
    BY <1>2 DEF processFft, refreshSaved, noAction, viewButtons, stopButton, stopPool, closeWindow,
                typeCenter, drawSpectrum, startRestore
  <2> QED BY <2>1, <2>2, StaleUnchanged
<1>3. CASE updateRateChange
  <2>1. gui = "rate" /\ UNCHANGED <<reader, running, sdrRate, usb, hand, recording, recRate, wrong,
                                    rateChanged>>
    BY <1>3 DEF updateRateChange
  <2>2. FlowInv' /\ RecordInv'
    BY <2>1 DEF StaleInv, FlowInv, RecordInv, InHand
  <2>3. CASE running /\ sdrRate # lastConfiguredFs
    <3>1. ring' = <<>>
      BY <1>3, <2>3 DEF updateRateChange, FollowRate, RingDropped
    <3>2. CountIn(ring', sdrRate) = 0
      BY <3>1, CountEmpty
    <3>3. InHand({"buffer"})' \in {0, 1}
      BY DEF InHand
    <3>4. CountIn(ring', sdrRate) + CountIn(usb, sdrRate) + InHand({"buffer"})' <= InFlight + 1
      BY <1>1, <3>2, <3>3
    <3>5. RingInv'
      BY <2>1, <3>4 DEF RingInv
    <3> QED BY <2>2, <3>5 DEF StaleInv
  <2>4. CASE ~(running /\ sdrRate # lastConfiguredFs)
    <3>1. UNCHANGED <<lastConfiguredFs, ring>>
      BY <1>3, <2>4 DEF updateRateChange
    <3>2. RingInv'
      BY <2>1, <3>1 DEF StaleInv, RingInv, InHand
    <3> QED BY <2>2, <3>2 DEF StaleInv
  <2> QED BY <2>3, <2>4
<1>4. ASSUME NEW r \in Rates, pickRate(r) PROVE StaleInv'
  <2>1. /\ gui = "controls" /\ gui' = "spectrum"
        /\ UNCHANGED <<reader, running, usb, hand, ring, lastConfiguredFs, recording, recRate, wrong>>
    BY <1>4 DEF pickRate
  <2>2. CASE running
    <3>1. sdrRate' = r /\ rateChanged' = (rateChanged \/ recording)
      BY <1>4, <2>2 DEF pickRate
    <3>2. sdrRate = lastConfiguredFs
      BY <2>1, <2>2 DEF TuneInv, RateInv
    <3>3. FlowInv'
      BY <2>1 DEF StaleInv, FlowInv
    <3>4. RecordInv'
      BY <2>1, <3>1 DEF RecordInv
    <3>5. RingInv'
      <4>1. CASE r = lastConfiguredFs
        BY <2>1, <3>1, <3>2, <4>1 DEF StaleInv, RingInv, InHand
      <4>2. CASE r # lastConfiguredFs
        BY <2>1, <3>1, <4>2 DEF RingInv
      <4> QED BY <4>1, <4>2
    <3> QED BY <3>3, <3>4, <3>5 DEF StaleInv
  <2>3. CASE ~running
    <3>1. UNCHANGED staleVars
      BY <1>4, <2>1, <2>3 DEF pickRate, staleVars
    <3> QED BY <2>1, <3>1, StaleUnchanged
  <2> QED BY <2>2, <2>3
<1>5. CASE recordButton
  <2>1. /\ gui = "controls" /\ UNCHANGED <<reader, running, usb, hand, sdrRate, lastConfiguredFs>>
    BY <1>5 DEF recordButton
  <2>2. FlowInv'
    BY <2>1 DEF StaleInv, FlowInv
  <2>3. CASE ~recording /\ running /\ BeginRecording(sdrRate) /\ UNCHANGED ring
    <3> DEFINE b == InHand({"buffer"})
               h == InHand({"buffer", "write"})
               q == CountIn(ring, sdrRate)
               u == CountIn(usb, sdrRate)
    <3>1. RingInv'
      BY <2>1, <2>3 DEF StaleInv, RingInv, InHand
    <3>2. wrong' = CountWrong(q) /\ recRate' = sdrRate /\ InHand({"buffer", "write"})' = h
      BY <2>1, <2>3 DEF BeginRecording, InHand
    <3>3. q + u + b <= InFlight + 1
      BY <2>1, <2>3 DEF TuneInv, RateInv, StaleInv, RingInv
    <3>4. b \in {0, 1} /\ h \in {0, 1} /\ h <= b + 1
      BY DEF InHand
    <3> HIDE DEF b, h
    <3>5. q \in Nat /\ u \in Nat
      BY <1>1
    <3> HIDE DEF q, u
    <3>6. wrong' \in Nat /\ wrong' <= q
      BY <1>1, <3>2, <3>5 DEF CountWrong, Many
    <3>7. wrong' + u + h <= InFlight + 2 /\ wrong' <= InFlight + 2
      <4>1. InFlight \in Nat
        BY <1>1
      <4>2. b \in Nat /\ h \in Nat /\ h <= b + 1
        BY <3>4
      <4>3. q <= InFlight + 1 /\ q + u + h <= InFlight + 2
        BY <3>3, <3>5, <4>1, <4>2
      <4> QED BY <3>5, <3>6, <4>1, <4>2, <4>3, NoMoreThan, Zenon
    <3>8. RecordInv'
      BY <2>1, <3>2, <3>7 DEF RecordInv, u
    <3> QED BY <2>2, <3>1, <3>8 DEF StaleInv
  <2>4. CASE recording' = FALSE /\ ring' = <<>>
    <3>1. RecordInv'
      BY <2>4 DEF RecordInv
    <3>2. CountIn(ring', sdrRate) = 0
      BY <2>4, CountEmpty
    <3>3. InHand({"buffer"})' \in {0, 1}
      BY DEF InHand
    <3>4. CountIn(ring', sdrRate) + CountIn(usb, sdrRate) + InHand({"buffer"})' <= InFlight + 1
      BY <1>1, <3>2, <3>3
    <3>5. RingInv'
      BY <2>1, <3>4 DEF RingInv
    <3> QED BY <2>2, <3>1, <3>5 DEF StaleInv
  <2> QED BY <1>5, <2>3, <2>4 DEF recordButton
<1>6. CASE stopJoined \/ closed
  <2>1. /\ running' = FALSE /\ reader' = "none"
        /\ UNCHANGED <<recording, rateChanged, wrong>>
    BY <1>6 DEF stopJoined, closed, joinAndClose
  <2>2. RecordInv'
    BY <2>1 DEF StaleInv, RecordInv
  <2> QED BY <2>1, <2>2 DEF StaleInv, FlowInv, RingInv
<1>7. CASE startButton
  <2>1. /\ ~running /\ UNCHANGED <<recording, recRate, wrong, hand>>
    BY <1>7 DEF startButton, startFails, startOpens
  <2>2. CASE /\ startOpens /\ gui' = "pool" /\ sdrRate' = sampleRate
             /\ rateChanged' = (rateChanged \/ (recording /\ sampleRate # recRate))
    <3>1. reader' = "entering" /\ running' = TRUE /\ usb' = <<>>
      BY <2>2 DEF startOpens
    <3>2. FlowInv' /\ RingInv'
      BY <2>2, <3>1 DEF FlowInv, RingInv
    <3>3. CountIn(usb', sdrRate') = 0 /\ InHand({"buffer", "write"})' = 0
      BY <3>1, CountEmpty DEF InHand
    <3>4. RecordInv'
      <4> SUFFICES ASSUME recording, ~rateChanged'
                   PROVE  wrong <= InFlight + 2 /\ recRate = sdrRate' /\ wrong + 0 + 0 <= InFlight + 2
        BY <2>1, <3>3 DEF RecordInv
      <4>1. ~rateChanged /\ recRate = sdrRate'
        BY <2>2
      <4>2. wrong <= InFlight + 2
        BY <4>1 DEF StaleInv, RecordInv
      <4> QED BY <1>1, <4>1, <4>2
    <3> QED BY <3>2, <3>4 DEF StaleInv
  <2>3. CASE UNCHANGED <<reader, running, rateChanged>>
    <3>1. FlowInv'
      BY <2>3 DEF StaleInv, FlowInv
    <3>2. RingInv' /\ RecordInv'
      BY <2>1, <2>3 DEF StaleInv, RingInv, RecordInv
    <3> QED BY <3>1, <3>2 DEF StaleInv
  <2> QED BY <1>7, <2>2, <2>3 DEF startButton, startFails
<1>8. CASE startPool
  <2>1. gui' = "ring" /\ UNCHANGED <<reader, running, sdrRate, usb, hand, recording, recRate, wrong,
                                     rateChanged>>
    BY <1>8 DEF startPool
  <2> QED BY <2>1 DEF StaleInv, FlowInv, RingInv, RecordInv, InHand
<1>9. CASE startRing
  <2>1. /\ ring' = <<>> /\ UNCHANGED <<reader, running, sdrRate, usb, hand, recording, recRate, wrong,
                                       rateChanged>>
    BY <1>9 DEF startRing, RingDropped
  <2>2. FlowInv' /\ RecordInv'
    BY <2>1 DEF StaleInv, FlowInv, RecordInv, InHand
  <2>3. CountIn(ring', sdrRate) = 0
    BY <2>1, CountEmpty
  <2>4. InHand({"buffer"})' \in {0, 1}
    BY DEF InHand
  <2>5. CountIn(ring', sdrRate) + CountIn(usb, sdrRate) + InHand({"buffer"})' <= InFlight + 1
    BY <1>1, <2>3, <2>4
  <2>6. RingInv'
    BY <2>1, <2>5 DEF RingInv
  <2> QED BY <2>2, <2>6 DEF StaleInv
<1>10. CASE startRecord \/ startFailed
  <2>1. /\ gui \notin {"pool", "ring"} /\ ring' \in {ring, <<>>}
        /\ UNCHANGED <<reader, running, sdrRate, lastConfiguredFs, usb, hand>>
    BY <1>10 DEF startRecord, startFailed
  <2>2. FlowInv'
    BY <2>1 DEF StaleInv, FlowInv
  <2>3. InHand({"buffer"})' = InHand({"buffer"}) /\ InHand({"buffer"}) \in {0, 1}
    BY <2>1 DEF InHand
  <2>4. CountIn(ring', sdrRate) \in {0, CountIn(ring, sdrRate)}
    BY <2>1, CountEmpty
  <2>5. RingInv'
    <3> SUFFICES ASSUME running, sdrRate = lastConfiguredFs
                 PROVE  CountIn(ring', sdrRate) + CountIn(usb, sdrRate) + InHand({"buffer"})
                          <= InFlight + 1
      BY <2>1, <2>3 DEF RingInv
    <3>1. CountIn(ring, sdrRate) + CountIn(usb, sdrRate) + InHand({"buffer"}) <= InFlight + 1
      BY <2>1 DEF StaleInv, RingInv
    <3> QED BY <1>1, <2>3, <2>4, <3>1
  <2>6. RecordInv'
    <3>1. CASE startFailed
      BY <3>1 DEF startFailed, RecordInv
    <3>2. CASE startRecord /\ ~recording
      BY <3>2 DEF startRecord, RecordInv
    <3>3. CASE startRecord /\ recording
      <4>1. recRate' = sdrRate /\ wrong' = 0
        BY <3>3 DEF startRecord
      <4>2. InHand({"buffer", "write"})' \in {0, 1}
        BY DEF InHand
      <4>3. wrong' + CountIn(usb, sdrRate) + InHand({"buffer", "write"})' <= InFlight + 2
            /\ wrong' <= InFlight + 2
        BY <1>1, <4>1, <4>2
      <4> QED BY <2>1, <4>1, <4>3 DEF RecordInv
    <3> QED BY <1>10, <3>1, <3>2, <3>3
  <2> QED BY <2>2, <2>5, <2>6 DEF StaleInv
<1> QED
  BY <1>2, <1>3, <1>4, <1>5, <1>6, <1>7, <1>8, <1>9, <1>10 DEF Gui, StartActive

(* However rates are changed, starts fail and devices come and go: so long  *)
(* as the rate is not changed while it records, a recording holds no more   *)
(* blocks of another rate than were under way when the pre-buffer was       *)
(* dropped, one of them perhaps twice.                                      *)
THEOREM StaleAlwaysBounded == Spec => []StaleInRecording
<1> DEFINE Types == FlagTypes /\ PlaceTypes /\ RateTypes /\ BlockTypes
           Inv   == TuneInv /\ Types /\ StaleInv
<1>1. Init => Inv
  BY TuneInit, FlagInit, PlaceInit, RateInit, BlockInit, StaleInit
<1>2. Inv /\ [Next]_vars => Inv'
  <2> SUFFICES ASSUME Inv, [Next]_vars PROVE Inv'
    OBVIOUS
  <2>1. TuneInv' /\ Types'
    BY TuneStep, FlagStep, PlaceStep, RateStep, BlockStep
  <2>2. StaleInv'
    <3>1. CASE Gui
      BY <3>1, StaleGui
    <3>2. CASE Source
      BY <2>1, <3>2, StaleSource
    <3>3. CASE Reader
      BY <3>3, StaleReader
    <3>4. CASE UNCHANGED vars
      <4>1. UNCHANGED staleVars /\ gui' = gui
        BY <3>4 DEF vars, staleVars, sourceVars, streamVars, tuneVars, poolVars, recVars
      <4> QED BY <4>1, StaleUnchanged
    <3> QED BY <3>1, <3>2, <3>3, <3>4 DEF Next
  <2> QED BY <2>1, <2>2
<1>3. Inv => StaleInRecording
  BY DEF StaleInv, RecordInv, StaleInRecording
<1> HIDE DEF Inv
<1> QED BY <1>1, <1>2, <1>3, PTL DEF Spec
=============================================================================
