------------------------------- MODULE Session -------------------------------
(* The session: the frame loop of src/src/main.cpp with startActive         *)
(* (session.cpp), the Control and Spectrum panels (gui_panels.cpp),         *)
(* updateRateChange (processing.cpp) and retunePreserving (voice_ops.cpp)   *)
(* over the source, while its read thread delivers.                         *)
(*                                                                         *)
(* One frame is processFft, updateRateChange, the refresh of the saved      *)
(* decoders, at most one action in the Control panel, and the Spectrum      *)
(* panel.  The decoder manager is what the GUI set it to (its threads are   *)
(* DecoderManager.tla): a decoder is its frequency.  The recorder is the    *)
(* rates of the blocks it holds (its threads are IqRecorder.tla).  The Dual *)
(* RTL, WAV and server modes are left out: drawControls sets sourceMode to  *)
(* 0 before the Start button.                                               *)
EXTENDS RtlSource, FiniteSets

CONSTANTS
  Halves,          (* half widths the user may zoom the view to             *)
  BrowseEdge,      (* browseEdgePct, in thousandths of the rate             *)
  BrowseMinMove,   (* browseMinMovePct, in thousandths of the rate          *)
  Freqs,           (* frequencies of decoders                               *)
  SaveDecoders,    (* saveDecoders; its checkbox is in a panel nobody draws *)
  RingBlocks       (* blocks in the recorder's pre-buffer                   *)

ASSUME SessionAssumption ==
  /\ Halves \subseteq Nat
  /\ BrowseEdge \in Nat /\ BrowseMinMove \in Nat
  /\ RingBlocks \in Nat
  /\ SaveDecoders \in BOOLEAN

VARIABLES
  gui,            (* where the GUI thread is, see GuiStates                  *)
  centerFreqMHz, sampleRate,   (* what the Control panel shows              *)
  lastConfiguredFs,
  poolOn, poolFs, poolCenter, decoders,   (* the decoder manager             *)
  savedDecoders,
  axis,           (* the band freqMHz spans, NoBand before the first FFT     *)
  view,           (* the part of it in view                                  *)
  resetView,
  bandBrowse, lastRetuneCtr,
  fftReady,       (* the view's ring holds enough samples for an FFT         *)
  ring,           (* the pre-buffer                                          *)
  recording, recRate,          (* isRecording() and the rate in the header   *)
  ended,          (* how the process ended: "no", "closed", "terminate"      *)
  wrong,          (* history: blocks of another rate in the recording        *)
  rateChanged,    (* history: the source's rate was changed while recording  *)
  typed,          (* history: a centre was typed since the pool was configured *)
  asked,          (* history: the centre the user asked for last             *)
  atStop          (* history: the decoders when the source was last stopped  *)

panelVars == <<centerFreqMHz, sampleRate>>
poolVars  == <<lastConfiguredFs, poolOn, poolFs, poolCenter, decoders>>
saveVars  == <<savedDecoders, atStop>>
viewVars  == <<axis, view, resetView, fftReady>>
browseVars == <<bandBrowse, lastRetuneCtr>>
recVars   == <<ring, recording, recRate, wrong, rateChanged>>
askVars   == <<typed, asked>>
vars == <<sourceVars, gui, panelVars, poolVars, saveVars, viewVars, browseVars,
          recVars, askVars, ended>>

GuiStates == {"fft", "rate", "save", "controls", "spectrum",     (* the frame *)
              "pool", "ring", "restore", "record", "failed",     (* startActive *)
              "joining", "emptying", "closing"}

NoBand == [ctr |-> 0, half |-> 0]
Many   == InFlight + 3          (* bound: wrong is not counted further         *)
Bands  == [ctr : Centres, half : Nat]

TypeOK ==
  /\ SourceTypeOK
  /\ gui \in GuiStates
  /\ centerFreqMHz \in Centres /\ sampleRate \in Rates
  /\ lastConfiguredFs \in Rates \union {0}
  /\ poolOn \in BOOLEAN /\ poolFs \in Rates \union {0} /\ poolCenter \in Centres \union {0}
  /\ decoders \subseteq Freqs /\ savedDecoders \subseteq Freqs /\ atStop \subseteq Freqs
  /\ axis \in Bands \union {NoBand} /\ view \in Bands \union {NoBand}
  /\ resetView \in BOOLEAN /\ fftReady \in BOOLEAN /\ bandBrowse \in BOOLEAN
  /\ lastRetuneCtr \in Centres \union {0}
  /\ ring \in Seq(Rates) /\ Len(ring) <= RingBlocks
  /\ recording \in BOOLEAN /\ recRate \in Rates
  /\ ended \in {"no", "closed", "terminate"}
  /\ wrong \in 0 .. Many /\ rateChanged \in BOOLEAN
  /\ typed \in BOOLEAN /\ asked \in Centres

At(place) == gui = place /\ ended = "no"

-----------------------------------------------------------------------------
(* The read thread's callback, as far as the session can tell.              *)

Read == readerEnters \/ capture \/ onAsync \/ readerEnds \/ unplug \/ plug

Source ==
  /\ ended = "no" /\ Read
  /\ UNCHANGED <<gui, panelVars, poolVars, saveVars, viewVars, browseVars, recVars, askVars, ended>>

LastBlocks(s) == IF Len(s) > RingBlocks THEN Tail(s) ELSE s

callbackPrebuffer ==
  /\ ended = "no" /\ reader = "buffer"
  /\ ring' = LastBlocks(Append(ring, hand))
  /\ reader' = "write"
  /\ UNCHANGED <<deviceVars, running, cancelled, tuneVars, streamVars, gui, panelVars, poolVars,
                 saveVars, viewVars, browseVars, recording, recRate, wrong, rateChanged,
                 askVars, ended>>

CountWrong(n) == IF n < Many THEN n ELSE Many

callbackWrite ==
  /\ ended = "no" /\ reader = "write"
  /\ wrong' = IF recording /\ hand # recRate THEN CountWrong(wrong + 1) ELSE wrong
  /\ reader' = "reading"
  /\ UNCHANGED <<deviceVars, running, cancelled, tuneVars, streamVars, gui, panelVars, poolVars,
                 saveVars, viewVars, browseVars, ring, recording, recRate, rateChanged,
                 askVars, ended>>

-----------------------------------------------------------------------------
(* The top of the frame.                                                    *)

Half(rate) == rate \div 2
SourceBand == [ctr |-> sdrCenter, half |-> Half(sdrRate)]

processFft ==
  /\ At("fft")
  /\ IF running
     THEN /\ fftReady' \in {fftReady, TRUE}
          /\ axis' = IF fftReady' THEN SourceBand ELSE axis
     ELSE UNCHANGED <<fftReady, axis>>
  /\ gui' = "rate"
  /\ UNCHANGED <<sourceVars, panelVars, poolVars, saveVars, view, resetView, browseVars,
                 recVars, askVars, ended>>

(* The decoders are put back as they were, for the new rate and centre.     *)
Reconfigure(fs, center) == poolFs' = fs /\ poolCenter' = center

RingKept == ring                                                         (* mutant *)
RingDropped == <<>>

RateKeepsPool ==                                                         (* mutant *)
  /\ lastConfiguredFs' = sdrRate /\ UNCHANGED <<poolFs, poolCenter>>
  /\ ring' = RingDropped /\ axis' = SourceBand /\ resetView' = TRUE /\ typed' = FALSE
FollowRate ==
  /\ Reconfigure(sdrRate, sdrCenter)
  /\ lastConfiguredFs' = sdrRate
  /\ ring' = RingDropped
  /\ axis' = SourceBand /\ resetView' = TRUE
  /\ typed' = FALSE

updateRateChange ==
  /\ At("rate")
  /\ IF running /\ sdrRate # lastConfiguredFs
     THEN FollowRate
     ELSE UNCHANGED <<poolFs, poolCenter, lastConfiguredFs, ring, axis, resetView, typed>>
  /\ gui' = "save"
  /\ UNCHANGED <<sourceVars, panelVars, poolOn, decoders, saveVars, view, fftReady, browseVars,
                 recording, recRate, wrong, rateChanged, asked, ended>>

RefreshAlways == SaveDecoders                                            (* mutant *)
RefreshNow == SaveDecoders /\ running

refreshSaved ==
  /\ At("save")
  /\ savedDecoders' = IF RefreshNow THEN decoders ELSE savedDecoders
  /\ gui' = "controls"
  /\ UNCHANGED <<sourceVars, panelVars, poolVars, atStop, viewVars, browseVars,
                 recVars, askVars, ended>>

-----------------------------------------------------------------------------
(* The Control panel: one of these a frame.                                 *)

noAction ==
  /\ At("controls")
  /\ gui' = "spectrum"
  /\ UNCHANGED <<sourceVars, panelVars, poolVars, saveVars, viewVars, browseVars, recVars,
                 askVars, ended>>

(* Center (MHz): the radio follows at once, the decoder manager does not.   *)
typeCenter(c) ==
  /\ At("controls") /\ c # centerFreqMHz
  /\ centerFreqMHz' = c /\ asked' = c
  /\ resetView' = TRUE
  /\ IF running THEN sdrCenter' = c /\ typed' = TRUE ELSE UNCHANGED <<sdrCenter, typed>>
  /\ gui' = "spectrum"
  /\ UNCHANGED <<deviceVars, reader, running, cancelled, sdrRate, streamVars, sampleRate, poolVars,
                 saveVars, axis, view, fftReady, browseVars, recVars, ended>>

(* Sample rate (MHz).                                                       *)
pickRate(r) ==
  /\ At("controls") /\ r # sampleRate
  /\ sampleRate' = r
  /\ resetView' = TRUE
  /\ IF running
     THEN sdrRate' = r /\ rateChanged' = (rateChanged \/ recording)
     ELSE UNCHANGED <<sdrRate, rateChanged>>
  /\ gui' = "spectrum"
  /\ UNCHANGED <<deviceVars, reader, running, cancelled, sdrCenter, streamVars, centerFreqMHz,
                 poolVars, saveVars, axis, view, fftReady, browseVars, ring, recording, recRate,
                 wrong, askVars, ended>>

(* "Pan/scroll retunes SDR (browse band)", "Reset view (fit band)".         *)
viewButtons ==
  /\ At("controls")
  /\ \/ /\ bandBrowse' = ~bandBrowse /\ UNCHANGED resetView
        /\ asked' = IF bandBrowse \/ view = NoBand THEN asked ELSE view.ctr
     \/ resetView' = TRUE /\ UNCHANGED <<bandBrowse, asked>>
  /\ gui' = "spectrum"
  /\ UNCHANGED <<sourceVars, panelVars, poolVars, saveVars, axis, view, fftReady, lastRetuneCtr,
                 recVars, typed, ended>>

CountIn(s, rate) == Cardinality({i \in DOMAIN s : s[i] # rate})

(* IqRecorder::start: what the pre-buffer holds goes first.                 *)
BeginRecording(rate) ==
  /\ recording' = TRUE /\ recRate' = rate
  /\ wrong' = CountWrong(CountIn(ring, rate))
  /\ rateChanged' = FALSE

recordButton ==
  /\ At("controls")
  /\ \/ ~recording /\ running /\ BeginRecording(sdrRate) /\ UNCHANGED ring
     \/ recording /\ recording' = FALSE /\ ring' = <<>>
        /\ UNCHANGED <<recRate, wrong, rateChanged>>
  /\ gui' = "spectrum"
  /\ UNCHANGED <<sourceVars, panelVars, poolVars, saveVars, viewVars, browseVars, askVars, ended>>

(* The Stop button: stop the source, then the decoder manager.              *)
stopButton ==
  /\ At("controls") /\ running
  /\ cancelAsync
  /\ atStop' = decoders
  /\ gui' = "joining"
  /\ UNCHANGED <<deviceVars, reader, running, tuneVars, streamVars, panelVars, poolVars,
                 savedDecoders, viewVars, browseVars, recVars, askVars, ended>>

stopJoined ==
  /\ At("joining")
  /\ joinAndClose
  /\ gui' = "emptying"
  /\ UNCHANGED <<panelVars, poolVars, saveVars, viewVars, browseVars, recVars, askVars, ended>>

stopPool ==
  /\ At("emptying")
  /\ poolOn' = FALSE /\ decoders' = {}
  /\ gui' = "spectrum"
  /\ UNCHANGED <<sourceVars, panelVars, lastConfiguredFs, poolFs, poolCenter, saveVars, viewVars,
                 browseVars, recVars, askVars, ended>>

-----------------------------------------------------------------------------
(* startActive.                                                             *)

(* The Start button is there when the source does not run; a read thread    *)
(* that ended by itself is still there to be joined.                        *)
startButton ==
  /\ At("controls") /\ ~running
  /\ resetView' = TRUE /\ fftReady' = FALSE
  /\ sdrRate' = sampleRate /\ sdrCenter' = centerFreqMHz /\ asked' = centerFreqMHz
  /\ \/ /\ startFails
        /\ gui' = "failed"
        /\ UNCHANGED <<ended, rateChanged>>
     \/ /\ ~Joinable /\ startOpens
        /\ rateChanged' = (rateChanged \/ (recording /\ sampleRate # recRate))
        /\ gui' = "pool"
        /\ UNCHANGED ended
     \/ /\ Joinable /\ present
        /\ ended' = "terminate"
        /\ UNCHANGED <<gui, rateChanged, deviceVars, reader, running, cancelled, streamVars>>
  /\ UNCHANGED <<panelVars, poolVars, saveVars, axis, view, browseVars, ring, recording, recRate,
                 wrong, typed>>

startPool ==
  /\ At("pool")
  /\ decoders' = {} /\ poolOn' = TRUE
  /\ Reconfigure(sdrRate, sdrCenter)
  /\ lastConfiguredFs' = sdrRate
  /\ typed' = FALSE
  /\ gui' = "ring"
  /\ UNCHANGED <<sourceVars, panelVars, saveVars, viewVars, browseVars, recVars, asked, ended>>

startRing ==
  /\ At("ring")
  /\ ring' = RingDropped
  /\ gui' = "restore"
  /\ UNCHANGED <<sourceVars, panelVars, poolVars, saveVars, viewVars, browseVars, recording, recRate,
                 wrong, rateChanged, askVars, ended>>

startRestore ==
  /\ At("restore")
  /\ decoders' = decoders \union (IF SaveDecoders THEN savedDecoders ELSE {})
  /\ savedDecoders' = IF SaveDecoders THEN savedDecoders ELSE {}
  /\ gui' = "record"
  /\ UNCHANGED <<sourceVars, panelVars, lastConfiguredFs, poolOn, poolFs, poolCenter, atStop,
                 viewVars, browseVars, recVars, askVars, ended>>

(* A recording that outlived its source is restarted, on the same path, or  *)
(* ended when the source did not start.  stop() has emptied the pre-buffer. *)
startRecord ==
  /\ At("record")
  /\ IF recording
     THEN ring' = <<>> /\ recRate' = sdrRate /\ wrong' = 0 /\ rateChanged' = FALSE
     ELSE UNCHANGED <<ring, recRate, wrong, rateChanged>>
  /\ gui' = "spectrum"
  /\ UNCHANGED <<sourceVars, panelVars, poolVars, saveVars, viewVars, browseVars, recording, askVars,
                 ended>>

startFailed ==
  /\ At("failed")
  /\ recording' = FALSE
  /\ ring' = IF recording THEN <<>> ELSE ring
  /\ gui' = "spectrum"
  /\ UNCHANGED <<sourceVars, panelVars, poolVars, saveVars, viewVars, browseVars, recRate, wrong,
                 rateChanged, askVars, ended>>

-----------------------------------------------------------------------------
(* The Spectrum panel.                                                      *)

Dist(x, y) == IF x < y THEN y - x ELSE x - y

NearEdge(v) ==
  1000 * (Half(sdrRate) - v.half - Dist(v.ctr, sdrCenter)) < BrowseEdge * sdrRate
Moved(v) == 1000 * Dist(v.ctr, lastRetuneCtr) > BrowseMinMove * sdrRate

WouldBrowse(v) == bandBrowse /\ running /\ ~resetView /\ NearEdge(v) /\ Moved(v)

PoolStays(center) ==                                                     (* mutant *)
  centerFreqMHz' = center /\ sdrCenter' = center /\ UNCHANGED <<poolFs, poolCenter, typed>>
retunePreserving(center) ==
  /\ centerFreqMHz' = center
  /\ sdrCenter' = center
  /\ Reconfigure(sdrRate, center)
  /\ typed' = FALSE

(* The limits of the plot: fitted to the band, as they were, or panned and  *)
(* zoomed by the user (or fitted by a double click).                        *)
Fits == resetView /\ axis # NoBand
ViewNow(panned) == IF Fits THEN axis ELSE IF panned # NoBand THEN panned ELSE view

(* No retune within browseThrottleMs of the last one.                       *)
browse(v) ==
  \/ WouldBrowse(v) /\ retunePreserving(v.ctr) /\ lastRetuneCtr' = v.ctr
  \/ UNCHANGED <<centerFreqMHz, sdrCenter, poolFs, poolCenter, typed, lastRetuneCtr>>

(* Decoders are placed by Ctrl-click and dragged; none without workers.     *)
EditDecoders ==
  IF ~poolOn THEN {decoders}
  ELSE {decoders} \union {decoders \union {q} : q \in Freqs}
                  \union {(decoders \ {p}) \union {q} : p \in decoders, q \in Freqs}

drawSpectrum(panned) ==
  /\ At("spectrum")
  /\ view' = ViewNow(panned)
  /\ asked' = IF panned # NoBand /\ ~Fits THEN panned.ctr ELSE asked
  /\ browse(view')
  /\ resetView' = (resetView /\ axis = NoBand)
  /\ decoders' \in EditDecoders
  /\ gui' = "fft"
  /\ UNCHANGED <<deviceVars, reader, running, cancelled, sdrRate, streamVars, sampleRate,
                 lastConfiguredFs, poolOn, saveVars, axis, fftReady, bandBrowse, recVars, ended>>

-----------------------------------------------------------------------------
(* The window is closed: decoders.stop(), sdr.stop().                       *)

closeWindow ==
  /\ At("fft")
  /\ poolOn' = FALSE /\ decoders' = {}
  /\ cancelAsync
  /\ gui' = "closing"
  /\ UNCHANGED <<deviceVars, reader, running, tuneVars, streamVars, panelVars, lastConfiguredFs,
                 poolFs, poolCenter, saveVars, viewVars, browseVars, recVars, askVars, ended>>

closed ==
  /\ At("closing")
  /\ joinAndClose
  /\ ended' = "closed"
  /\ UNCHANGED <<gui, panelVars, poolVars, saveVars, viewVars, browseVars, recVars, askVars>>

-----------------------------------------------------------------------------
Init ==
  /\ SourceInit
  /\ gui = "fft"
  /\ centerFreqMHz = sdrCenter /\ sampleRate = sdrRate
  /\ lastConfiguredFs = 0 /\ poolOn = FALSE /\ poolFs = 0 /\ poolCenter = 0 /\ decoders = {}
  /\ savedDecoders \in SUBSET Freqs /\ atStop = savedDecoders
  /\ axis = NoBand /\ view = NoBand /\ resetView = TRUE /\ fftReady = FALSE
  /\ bandBrowse \in BOOLEAN /\ lastRetuneCtr = 0
  /\ ring = <<>> /\ recording = FALSE /\ recRate = sdrRate
  /\ ended = "no" /\ wrong = 0 /\ rateChanged = FALSE
  /\ typed = FALSE /\ asked = centerFreqMHz

Panned == [ctr : Centres, half : Halves] \union {NoBand}

StartActive == startButton \/ startPool \/ startRing \/ startRestore \/ startRecord \/ startFailed

Gui ==
  \/ processFft \/ updateRateChange \/ refreshSaved
  \/ noAction \/ viewButtons \/ recordButton
  \/ \E c \in Centres : typeCenter(c)
  \/ \E r \in Rates : pickRate(r)
  \/ stopButton \/ stopJoined \/ stopPool
  \/ StartActive
  \/ \E panned \in Panned : drawSpectrum(panned)
  \/ closeWindow \/ closed

Reader == callbackPrebuffer \/ callbackWrite

Next == Gui \/ Source \/ Reader

(* The read thread runs while it can, and the GUI thread once it may leave  *)
(* a join.                                                                  *)
ReadThread ==
  \/ /\ ended = "no" /\ (readerEnters \/ onAsync \/ readerEnds)
     /\ UNCHANGED <<gui, panelVars, poolVars, saveVars, viewVars, browseVars, recVars, askVars, ended>>
  \/ Reader

Fairness == WF_vars(ReadThread) /\ WF_vars(stopJoined \/ closed)

Spec == Init /\ [][Next]_vars /\ Fairness

-----------------------------------------------------------------------------
(* Properties.                                                              *)

InFrame == gui \in {"fft", "rate", "save", "controls", "spectrum"} /\ ended = "no"

(* "updateRateChange": whatever the user has done to the sample rate, from  *)
(* the middle of every frame on the decoders are configured for the rate    *)
(* the source runs at.                                                      *)
PoolAtRate == At("controls") /\ running => poolFs = sdrRate /\ lastConfiguredFs = sdrRate

(* Sub-bands are cut out of the wideband stream by their distance from the  *)
(* centre the pool was configured for: while the source runs that is the    *)
(* centre the radio is tuned to, through starts, retunes by browsing and    *)
(* changes of rate, unless a centre was typed since (typeCenter).           *)
PoolAtCenter == InFrame /\ running /\ poolCenter # sdrCenter => typed

(* A recording holds almost only blocks captured at the rate its header     *)
(* states, so long as that rate is not changed: after a change of rate the  *)
(* pre-buffer is dropped before one can record, and what is still under way *)
(* is all that gets in, one block of it perhaps twice.                      *)
StaleInRecording == recording /\ ~rateChanged => wrong <= InFlight + 2

(* The Stop button and the closing of the window get past the join of the   *)
(* read thread, also when the device went away before or goes away now and  *)
(* whatever blocks are under way: unless the cancel came before the thread  *)
(* was in rtlsdr_read_async, and the device stays.                          *)
Joining == gui \in {"joining", "closing"} /\ ended = "no"
StopEnds == Joining ~> (~Joining \/ CancelMissed)

(* "Restore saved decoders": a start brings back the decoders there were    *)
(* when the source was stopped, however they were placed, dragged and kept  *)
(* across retunes before, and however often a start failed in between.      *)
SavedSurvive == [][startRestore /\ SaveDecoders => decoders' = atStop]_vars

(* "Pan/scroll retunes SDR (browse band)" (gui_panels.cpp l.372): the radio *)
(* moves only to where the user typed, panned or switched browsing on.      *)
BrowseFollowsUser == [][sdrCenter' # sdrCenter => sdrCenter' = asked']_vars
=============================================================================
