--------------------------- MODULE DecoderManager ---------------------------
(***************************************************************************)
(* The decoder manager of src/src/decode/decoder_manager.{h,cpp}: the SDR  *)
(* thread hands every IQ block to the worker threads (feed), each worker   *)
(* drains its own bounded queue through the sub-bands it owns              *)
(* (workerLoop), and the GUI thread starts and stops the pool and creates, *)
(* retunes and removes decoders while blocks are in flight.                *)
(*                                                                         *)
(* Abstractions.  IQ blocks are numbered in the order feed() sees them.    *)
(* Frequencies are integers (any unit).  A sub-band is known by the id of  *)
(* the decoder it was created for, so the order of the keys of a worker's  *)
(* sub-bands is the order of its `subbands` vector (push_back, erase).     *)
(* Signal processing is left out; what it consumes, and when, is kept.     *)
(*                                                                         *)
(* Undefined behaviour.  feed() walks workers_ with no lock, and start()   *)
(* and stop() change that vector.  A change during a walk either goes      *)
(* unnoticed (the walk ends) or takes the process down (crashed).          *)
(***************************************************************************)
EXTENDS Integers, Sequences, FiniteSets

CONSTANTS
  NumWorkers,   (* worker threads start() creates (maxWorkers_ and the CPU cap it)   *)
  kMaxQueue,    (* blocks one worker may have waiting                                *)
  kFull,        (* decoders at which a sub-band counts as overloaded (4 in the code) *)
  HalfWidth,    (* 0.40 * subRate: a sub-band covers |f - centre| < HalfWidth        *)
  Freqs,        (* frequencies a decoder or the wideband centre may have             *)
  Bauds,        (* decoder kinds in use                                              *)
  MaxId,        (* bound: decoders ever created                                      *)
  MaxBlocks     (* bound: IQ blocks ever fed                                         *)

ASSUME PoolAssumption ==
  /\ NumWorkers \in Nat \ {0}
  /\ kMaxQueue \in Nat \ {0}
  /\ kFull \in Nat \ {0}
  /\ HalfWidth \in Nat \ {0}
  /\ Freqs \subseteq Int
  /\ Bauds \subseteq Nat
  /\ MaxId \in Nat
  /\ MaxBlocks \in Nat

Workers == 1 .. NumWorkers
Ids     == 1 .. MaxId
Blocks  == 1 .. MaxBlocks

VARIABLES
  run,        (* run_                                                        *)
  pool,       (* workers_ holds its NumWorkers workers (else it is empty)    *)
  wide,       (* centerHz_, the wideband centre configure() stored           *)
  nextId,     (* nextId_                                                     *)
  subbands,   (* every worker's sub-bands: [key, worker, center, wide]       *)
  decoders,   (* every sub-band's decoders: [id, worker, sb, freq, baud]     *)
  count,      (* Worker::count                                               *)
  weight,     (* Worker::weight                                              *)
  queue,      (* Worker::queue, as block numbers                             *)
  drops,      (* drops_                                                      *)
  wpc,        (* where each worker thread is, see WorkerStates               *)
  hand,       (* the block a worker popped and still works on, 0 if none     *)
  snap,       (* the decoders in the worker's snapshot of that block         *)
  fpc,        (* where the SDR thread is in feed()                           *)
  fw,         (* the worker feed()'s loop is at                              *)
  blk,        (* blocks fed so far: the number of the block in feed()'s hand *)
  gui,        (* where the GUI thread is                                     *)
  gw,         (* the worker removeAll()'s loop is at                         *)
  crashed,    (* undefined behaviour took the process down                   *)
  processed,  (* history: blocks each decoder has processed, in order        *)
  cut,        (* history: blk when the worker's queue was last emptied       *)
  since,      (* history: cut of its worker when the decoder was created     *)
  born        (* history: blk when the decoder was created                   *)

registry == <<wide, nextId, subbands, decoders, count, weight>>
threads  == <<queue, drops, wpc, hand, snap>>
feeder   == <<fpc, fw, blk>>
control  == <<run, pool, gui, gw, crashed>>
history  == <<processed, cut, since, born>>
vars     == <<registry, threads, feeder, control, history>>

(* "check": about to test run_ and the wait predicate under qMtx; "armed":  *)
(* predicate found false, qMtx still held; "asleep": in cv.wait, qMtx       *)
(* released; "popped": holds a block; "busy": outside dMtx, processing it.  *)
WorkerStates == {"off", "check", "armed", "asleep", "popped", "busy", "done"}
FeedStates   == {"idle", "look", "push"}
GuiStates    == {"idle", "building", "notifying", "joining", "removing"}

SubBandRecord == [key : Ids, worker : Workers, center : Freqs, wide : Freqs]
DecoderRecord == [id : Ids, worker : Workers, sb : Ids, freq : Freqs, baud : Bauds]

RegistryOK ==
  /\ wide \in Freqs
  /\ nextId \in 1 .. MaxId + 1
  /\ subbands \subseteq SubBandRecord
  /\ decoders \subseteq DecoderRecord
  /\ count \in [Workers -> Int]
  /\ weight \in [Workers -> Int]

ThreadsOK ==
  /\ queue \in [Workers -> Seq(Blocks)]
  /\ drops \in Nat
  /\ wpc \in [Workers -> WorkerStates]
  /\ hand \in [Workers -> 0 .. MaxBlocks]
  /\ snap \in [Workers -> SUBSET Ids]

FeederOK ==
  /\ fpc \in FeedStates
  /\ fw \in 1 .. NumWorkers + 1
  /\ blk \in 0 .. MaxBlocks

ControlOK ==
  /\ run \in BOOLEAN
  /\ pool \in BOOLEAN
  /\ gui \in GuiStates
  /\ gw \in 1 .. NumWorkers + 1
  /\ crashed \in BOOLEAN

HistoryOK ==
  /\ processed \in [Ids -> Seq(Blocks)]
  /\ cut \in [Workers -> 0 .. MaxBlocks]
  /\ since \in [Ids -> 0 .. MaxBlocks]
  /\ born \in [Ids -> 0 .. MaxBlocks]

TypeOK == RegistryOK /\ ThreadsOK /\ FeederOK /\ ControlOK /\ HistoryOK

-----------------------------------------------------------------------------
(* Placement of decoders.                                                   *)

kEgcBaud == 1

decoderWeight(baud) ==
  IF baud = kEgcBaud THEN 1 ELSE IF baud \in {8400, 10500} THEN 2 ELSE 3

SubBandsOf(w)  == {s \in subbands : s.worker = w}
DecodersIn(s)  == {d \in decoders : d.sb = s.key}
DecodersOn(w)  == {d \in decoders : d.worker = w}

Within(x, y, d) == x - y < d /\ y - x < d        (* fabs(x - y) < d *)

CoversTooLittle(s, f) == Within(f, s.center, HalfWidth - 1)              (* mutant *)
Covers(s, f) == Within(f, s.center, HalfWidth)

(* What addDecoder compares for a covering sub-band: its decoder count, or, *)
(* once the sub-band is overloaded, a load computed from its whole worker.  *)
Load(s) ==
  LET cnt == Cardinality(DecodersIn(s))
  IN  IF cnt >= kFull
      THEN weight[s.worker] + Cardinality(SubBandsOf(s.worker)) * 10 + cnt * 8
      ELSE cnt

(* The search loop takes the first strict minimum, worker by worker.        *)
Before(s, t) == s.worker < t.worker \/ (s.worker = t.worker /\ s.key < t.key)
Preferred(s, t) == Load(s) < Load(t) \/ (Load(s) = Load(t) /\ Before(s, t))

Covering(f) == {s \in subbands : Covers(s, f)}

NewBandLoad(w) == weight[w] + Cardinality(SubBandsOf(w)) * 5
Lightest(w) ==
  \A v \in Workers \ {w} :
    NewBandLoad(w) < NewBandLoad(v) \/ (NewBandLoad(w) = NewBandLoad(v) /\ w < v)

(* A decoder is appended to sub-band s: the part both ways of placing share. *)
Insert(s, f, b) ==
  /\ decoders' = decoders \union
       {[id |-> nextId, worker |-> s.worker, sb |-> s.key, freq |-> f, baud |-> b]}
  /\ count'  = [count EXCEPT ![s.worker] = @ + 1]
  /\ weight' = [weight EXCEPT ![s.worker] = @ + decoderWeight(b)]
  /\ nextId' = nextId + 1
  /\ since'  = [since EXCEPT ![nextId] = cut[s.worker]]
  /\ born'   = [born EXCEPT ![nextId] = blk]

-----------------------------------------------------------------------------
(* The GUI thread.                                                          *)

GuiIdle == gui = "idle" /\ ~crashed

configure(f) ==
  /\ GuiIdle
  /\ wide' = f
  /\ UNCHANGED <<nextId, subbands, decoders, count, weight, threads, feeder, control, history>>

(* addDecoder, a sub-band covers f: it joins the preferred one.             *)
addToCovering(f, b) ==
  /\ GuiIdle /\ pool /\ nextId <= MaxId
  /\ \E s \in Covering(f) :
       /\ \A t \in Covering(f) \ {s} : Preferred(s, t)
       /\ Insert(s, f, b)
  /\ UNCHANGED <<wide, subbands, threads, feeder, control, processed, cut>>

(* addDecoder, none does: a new sub-band on the lightest worker.            *)
addWithNewSubBand(f, b) ==
  /\ GuiIdle /\ pool /\ nextId <= MaxId
  /\ Covering(f) = {}
  /\ \E w \in Workers :
       /\ Lightest(w)
       /\ LET s == [key |-> nextId, worker |-> w, center |-> f, wide |-> wide]
          IN  subbands' = subbands \union {s} /\ Insert(s, f, b)
  /\ UNCHANGED <<wide, threads, feeder, control, processed, cut>>

addDecoder(f, b) == addToCovering(f, b) \/ addWithNewSubBand(f, b)

SubBandsKept(d) == subbands                                              (* mutant *)
SubBandsWithout(d) == {s \in subbands : s.key # d.sb \/ DecodersIn(s) # {d}}

CountKept(d) == count                                                    (* mutant *)
CountWithout(d) == [count EXCEPT ![d.worker] = @ - 1]

WeightLessThree(d) == [weight EXCEPT ![d.worker] = @ - 3]                (* mutant *)
WeightWithout(d) == [weight EXCEPT ![d.worker] = @ - decoderWeight(d.baud)]

(* The decoder goes; a sub-band left empty goes with it.  Blocks already    *)
(* queued for the worker stay.                                              *)
removeDecoder(id) ==
  /\ GuiIdle
  /\ \E d \in decoders :
       /\ d.id = id
       /\ decoders' = decoders \ {d}
       /\ subbands' = SubBandsWithout(d)
       /\ count'  = CountWithout(d)
       /\ weight' = WeightWithout(d)
  /\ UNCHANGED <<wide, nextId, threads, feeder, control, history>>

(* Decoder::setFreq, under dMtx; the worker may be inside process() now.    *)
setDecoderFreq(id, f) ==
  /\ GuiIdle
  /\ \E d \in decoders :
       /\ d.id = id
       /\ decoders' = (decoders \ {d}) \union {[d EXCEPT !.freq = f]}
  /\ UNCHANGED <<wide, nextId, subbands, count, weight, threads, feeder, control, history>>

QueueFree(w) == wpc[w] # "armed"      (* nobody holds the worker's qMtx *)

BacklogKept(w) == queue                                                  (* mutant *)
BacklogCleared(w) == [queue EXCEPT ![w] = <<>>]

removeAllBegin ==
  /\ GuiIdle /\ pool
  /\ gui' = "removing" /\ gw' = 1
  /\ UNCHANGED <<run, pool, crashed, registry, threads, feeder, history>>

(* One turn of removeAll's loop: dMtx, then qMtx inside it.  Every variable *)
(* it writes is read by the others under one of the two, except count,      *)
(* which feed reads alone: the turn is one step to them.                    *)
removeAllFrom(w) ==
  /\ gui = "removing" /\ gw = w /\ ~crashed
  /\ QueueFree(w)
  /\ subbands' = subbands \ SubBandsOf(w)
  /\ decoders' = decoders \ DecodersOn(w)
  /\ count' = [count EXCEPT ![w] = 0]
  /\ queue' = BacklogCleared(w)
  /\ cut'   = [cut EXCEPT ![w] = blk]
  /\ gw' = w + 1
  /\ gui' = IF w = NumWorkers THEN "idle" ELSE gui
  /\ UNCHANGED <<run, pool, crashed, wide, nextId, weight, drops, wpc, hand, snap, feeder,
                 processed, since, born>>

startBegin ==
  /\ GuiIdle /\ ~run
  /\ run' = TRUE
  /\ gui' = "building"
  /\ UNCHANGED <<pool, gw, crashed, registry, threads, feeder, history>>

(* What a change of workers_ does to a feed() that is walking it.           *)
WalkDisturbed ==
  IF fpc = "idle" THEN UNCHANGED <<fpc, crashed>>
                  ELSE fpc' = "idle" /\ crashed' \in BOOLEAN

(* workers_.clear(), the push_backs and the thread creation.                *)
startBuild ==
  /\ gui = "building" /\ ~crashed
  /\ pool' = TRUE
  /\ wpc' = [w \in Workers |-> "check"]
  /\ cut' = [w \in Workers |-> blk]
  /\ gui' = "idle"
  /\ WalkDisturbed
  /\ UNCHANGED <<run, gw, registry, queue, drops, hand, snap, fw, blk, processed, since, born>>

stopBegin ==
  /\ GuiIdle /\ pool
  /\ run' = FALSE
  /\ gui' = "notifying"
  /\ UNCHANGED <<pool, gw, crashed, registry, threads, feeder, history>>

(* notify_all without qMtx: a worker that is only armed does not hear it.   *)
stopNotify ==
  /\ gui = "notifying" /\ ~crashed
  /\ wpc' = [w \in Workers |-> IF wpc[w] = "asleep" THEN "check" ELSE wpc[w]]
  /\ gui' = "joining"
  /\ UNCHANGED <<run, pool, gw, crashed, registry, queue, drops, hand, snap, feeder, history>>

(* Every thread joined: workers_.clear() destroys the workers.              *)
stopJoin ==
  /\ gui = "joining" /\ ~crashed
  /\ \A w \in Workers : wpc[w] = "done"
  /\ pool' = FALSE
  /\ subbands' = {} /\ decoders' = {}
  /\ count'  = [w \in Workers |-> 0]
  /\ weight' = [w \in Workers |-> 0]
  /\ queue'  = [w \in Workers |-> <<>>]
  /\ wpc'    = [w \in Workers |-> "off"]
  /\ gui' = "idle"
  /\ WalkDisturbed
  /\ UNCHANGED <<run, gw, wide, nextId, drops, hand, snap, fw, blk, history>>

-----------------------------------------------------------------------------
(* The SDR thread: feed().                                                  *)

feedBegin ==
  /\ ~crashed /\ fpc = "idle" /\ run /\ blk < MaxBlocks
  /\ blk' = blk + 1
  /\ fpc' = "look" /\ fw' = 1
  /\ UNCHANGED <<registry, threads, control, history>>

(* The load of count, before qMtx is taken.                                 *)
feedLook ==
  /\ ~crashed /\ fpc = "look" /\ pool /\ fw <= NumWorkers
  /\ IF count[fw] = 0 THEN fw' = fw + 1 /\ fpc' = "look"
                      ELSE fw' = fw /\ fpc' = "push"
  /\ UNCHANGED <<blk, registry, threads, control, history>>

Untrimmed(q) == q                                                        (* mutant *)
Trimmed(q) == IF Len(q) >= kMaxQueue THEN Tail(q) ELSE q

DroppedLate(q) == IF Len(q) > kMaxQueue THEN 1 ELSE 0                    (* mutant *)
Dropped(q) == IF Len(q) >= kMaxQueue THEN 1 ELSE 0

NotNotified(w) == wpc                                                    (* mutant *)
Notified(w) == [wpc EXCEPT ![w] = IF @ = "asleep" THEN "check" ELSE @]

(* Under qMtx: the oldest block makes room.  Then notify_one: the worker is *)
(* the only thread that waits on its cv.                                    *)
feedPush ==
  /\ ~crashed /\ fpc = "push"
  /\ QueueFree(fw)
  /\ queue' = [queue EXCEPT ![fw] = Append(Trimmed(@), blk)]
  /\ drops' = drops + Dropped(queue[fw])
  /\ wpc'   = Notified(fw)
  /\ fw' = fw + 1 /\ fpc' = "look"
  /\ UNCHANGED <<blk, hand, snap, registry, control, history>>

feedEnd ==
  /\ ~crashed /\ fpc = "look"
  /\ ~pool \/ fw = NumWorkers + 1
  /\ fpc' = "idle"
  /\ UNCHANGED <<fw, blk, registry, threads, control, history>>

-----------------------------------------------------------------------------
(* A worker thread: workerLoop().                                           *)

Goto(w, to) == wpc' = [wpc EXCEPT ![w] = to]

BackBlock(q) == q[Len(q)]                                                (* mutant *)
FrontBlock(q) == Head(q)

HandKept(w) == hand                                                      (* mutant *)
HandTaken(w) == [hand EXCEPT ![w] = FrontBlock(queue[w])]

WaitsOnQueueOnly(w) == queue[w] = <<>>                                   (* mutant *)
MustWait(w) == run /\ queue[w] = <<>>

SnapshotOfAll(w) == {d.id : d \in decoders}                              (* mutant *)
SnapshotOf(w) == {d.id : d \in DecodersOn(w)}

(* while (run_) and, under qMtx, the wait predicate: leave, pop, or arm.    *)
workerLeave(w) ==
  /\ ~crashed /\ wpc[w] = "check" /\ ~run
  /\ Goto(w, "done")
  /\ UNCHANGED <<queue, drops, hand, snap, registry, feeder, control, history>>

workerPop(w) ==
  /\ ~crashed /\ wpc[w] = "check" /\ run /\ queue[w] # <<>>
  /\ hand'  = HandTaken(w)
  /\ queue' = [queue EXCEPT ![w] = Tail(@)]
  /\ Goto(w, "popped")
  /\ UNCHANGED <<drops, snap, registry, feeder, control, history>>

workerArm(w) ==
  /\ ~crashed /\ wpc[w] = "check" /\ MustWait(w)
  /\ Goto(w, "armed")
  /\ UNCHANGED <<queue, drops, hand, snap, registry, feeder, control, history>>

workerSleep(w) ==
  /\ ~crashed /\ wpc[w] = "armed"
  /\ Goto(w, "asleep")
  /\ UNCHANGED <<queue, drops, hand, snap, registry, feeder, control, history>>

(* A condition variable may wake up unnotified.                             *)
workerSpurious(w) ==
  /\ ~crashed /\ wpc[w] = "asleep"
  /\ Goto(w, "check")
  /\ UNCHANGED <<queue, drops, hand, snap, registry, feeder, control, history>>

(* Under dMtx: the snapshot that keeps the decoders alive.                  *)
workerSnapshot(w) ==
  /\ ~crashed /\ wpc[w] = "popped"
  /\ snap' = [snap EXCEPT ![w] = SnapshotOf(w)]
  /\ Goto(w, "busy")
  /\ UNCHANGED <<queue, drops, hand, registry, feeder, control, history>>

(* Outside every lock: each decoder of the snapshot processes the block.    *)
workerProcess(w) ==
  /\ ~crashed /\ wpc[w] = "busy"
  /\ processed' = [id \in Ids |->
       IF id \in snap[w] THEN Append(processed[id], hand[w]) ELSE processed[id]]
  /\ hand' = [hand EXCEPT ![w] = 0]
  /\ snap' = [snap EXCEPT ![w] = {}]
  /\ Goto(w, "check")
  /\ UNCHANGED <<queue, drops, registry, feeder, control, cut, since, born>>

worker(w) ==
  \/ workerLeave(w) \/ workerPop(w) \/ workerArm(w) \/ workerSleep(w)
  \/ workerSnapshot(w) \/ workerProcess(w)

-----------------------------------------------------------------------------
Init ==
  /\ run = FALSE /\ pool = FALSE /\ crashed = FALSE
  /\ wide \in Freqs
  /\ nextId = 1
  /\ subbands = {} /\ decoders = {}
  /\ count  = [w \in Workers |-> 0]
  /\ weight = [w \in Workers |-> 0]
  /\ queue  = [w \in Workers |-> <<>>]
  /\ drops = 0
  /\ wpc  = [w \in Workers |-> "off"]
  /\ hand = [w \in Workers |-> 0]
  /\ snap = [w \in Workers |-> {}]
  /\ fpc = "idle" /\ fw = 1 /\ blk = 0
  /\ gui = "idle" /\ gw = 1
  /\ processed = [id \in Ids |-> <<>>]
  /\ cut   = [w \in Workers |-> 0]
  /\ since = [id \in Ids |-> 0]
  /\ born  = [id \in Ids |-> 0]

RegistryCall ==
  \/ \E f \in Freqs, b \in Bauds : addDecoder(f, b)
  \/ \E id \in Ids : removeDecoder(id)
  \/ \E id \in Ids, f \in Freqs : setDecoderFreq(id, f)
  \/ removeAllBegin

GuiCall ==
  \/ \E f \in Freqs : configure(f)
  \/ RegistryCall
  \/ startBegin
  \/ stopBegin

GuiContinue ==
  \/ \E w \in Workers : removeAllFrom(w)
  \/ startBuild
  \/ stopNotify
  \/ stopJoin

Feed == feedBegin \/ feedLook \/ feedPush \/ feedEnd

Next ==
  \/ GuiCall
  \/ GuiContinue
  \/ Feed
  \/ \E w \in Workers : worker(w) \/ workerSpurious(w)

Spec == Init /\ [][Next]_vars

(* A call under way goes on and every thread gets to run; nothing makes the *)
(* GUI call, the source deliver or a condition variable wake up by itself.  *)
Fairness ==
  /\ WF_vars(GuiContinue)
  /\ WF_vars(feedLook \/ feedPush \/ feedEnd)
  /\ \A w \in Workers : WF_vars(worker(w))

FairSpec == Spec /\ Fairness

-----------------------------------------------------------------------------
(* Properties.                                                              *)

(* feed() decides from count alone whether a worker gets a block at all, so *)
(* count must be the number of decoders the worker really has, whatever     *)
(* mixture of add, remove, removeAll and stop came before (l.68, 144, 183,  *)
(* 214).                                                                    *)
CountExact == \A w \in Workers : count[w] = Cardinality(DecodersOn(w))

(* The registry addDecoder and removeDecoder maintain: ids are never reused *)
(* while alive, a decoder sits in a sub-band of its own worker, and no      *)
(* sub-band outlives its last decoder (an empty one would burn a front-end  *)
(* DDC for nothing, l.185).                                                 *)
RegistrySound ==
  /\ \A d, e \in decoders : d.id = e.id => d = e
  /\ \A s, t \in subbands : s.key = t.key => s = t
  /\ \A d \in decoders : \E s \in subbands : s.key = d.sb /\ s.worker = d.worker
  /\ \A s \in subbands : DecodersIn(s) # {}

(* Sub-bands never shadow one another: a new one is made only where none    *)
(* covers its centre, so two centres are always HalfWidth apart.  (The      *)
(* comments at l.95 and l.150 promise a second, shadow sub-band once one is *)
(* overloaded; this is what the search loop really does.)                   *)
SubBandsApart == \A s, t \in subbands :
  s # t => ~Within(s.center, t.center, HalfWidth)

(* The load the placement compares never understates a worker.  It is not   *)
(* the "weighted load (MSK=3, OQPSK=2, EGC=1)" of decoder_manager.h l.95:   *)
(* removeAll() empties a worker and leaves its weight as it was.  (A        *)
(* decoder of weight k is in the first k of three counts.)                  *)
AtLeast(ds, k) == {d \in ds : decoderWeight(d.baud) >= k}
WeightOf(ds) == Cardinality(AtLeast(ds, 1)) + Cardinality(AtLeast(ds, 2)) + Cardinality(AtLeast(ds, 3))
WeightNeverUnder == \A w \in Workers : weight[w] >= WeightOf(DecodersOn(w))

Increasing(q) == \A i, j \in DOMAIN q : i < j => q[i] < q[j]

(* A worker's backlog: never above kMaxQueue, in the order the source       *)
(* produced it, all of it newer than the block the worker is on, none of it *)
(* newer than the block being fed (l.72, 288).                              *)
BacklogOrdered == \A w \in Workers :
  /\ Len(queue[w]) <= kMaxQueue
  /\ Increasing(queue[w])
  /\ \A i \in DOMAIN queue[w] : hand[w] < queue[w][i] /\ queue[w][i] <= blk

(* No decoder is ever inside process() on two worker threads at once, even  *)
(* when it is removed or everything is rebuilt while a snapshot is in use.  *)
OneProcessor == \A v, w \in Workers : v # w => snap[v] \intersect snap[w] = {}

(* Each decoder sees the stream in order, no block twice (the phase of its  *)
(* oscillator and the state of its filters depend on it).                   *)
StreamInOrder == \A id \in Ids : Increasing(processed[id])

(* Of the blocks fed since a decoder exists, up to the last it processed,   *)
(* every one it did not process is counted in drops: no interleaving of     *)
(* feed, the queue's limit and GUI calls loses a block silently.            *)
NoSilentLoss == \A id \in Ids : \A i \in DOMAIN processed[id] :
  processed[id][i] > born[id] =>
    processed[id][i] - born[id] - Cardinality({j \in 1 .. i : processed[id][j] > born[id]}) <= drops

(* After removeAll emptied a worker (every retune does), the decoders made  *)
(* on it next process at most two blocks captured before that: the one the  *)
(* worker had already popped and the one feed() was about to push.          *)
AtMostTwoStale == \A id \in Ids :
  Cardinality({i \in DOMAIN processed[id] : processed[id][i] <= since[id]}) <= 2

(* A queued block is eventually taken (or discarded), unless the pool is    *)
(* told to stop: feed's notification is never lost, since feed pushes under *)
(* the lock the worker holds from its test of the queue until it sleeps.    *)
QueuedBlockTaken == \A w \in Workers, b \in Blocks :
  (\E i \in DOMAIN queue[w] : queue[w][i] = b)
    ~> (crashed \/ ~run \/ \A i \in DOMAIN queue[w] : queue[w][i] # b)

(* stop() completes, provided no worker missed its notification: stop       *)
(* changes run_ and notifies without qMtx, so a worker between its test and *)
(* its sleep does not hear it, and nothing wakes that worker any more.      *)
StopEndsUnlessMissed ==
  (gui = "joining" /\ \A w \in Workers : wpc[w] \notin {"armed", "asleep"})
    ~> (gui = "idle" \/ crashed)

(* The manager keeps the promise of DecoderStream to every decoder, through *)
(* removals, retunes and restarts at any moment: blocks in order, none lost *)
(* but those drops_ counts, one call of process() at a time, and after      *)
(* removeDecoder, removeAll or stop() at most the one under way.            *)
InProcess == UNION {snap[w] : w \in Workers}
Existing == {d.id : d \in decoders}
Stream == INSTANCE DecoderStream WITH
  captured <- blk, lost <- drops, fresh <- nextId, live <- Existing,
  leaving <- InProcess \ Existing, heard <- processed, joined <- born
KeepsPromise == Stream!Spec

(* A worker never sleeps on a block, nor is about to: it tested the queue   *)
(* under qMtx, which it holds until it sleeps, and feed() notifies it of    *)
(* every block it pushes (l.72-80, 283).  So stop() alone can be missed.    *)
NoSleepOnBlock == \A w \in Workers :
  wpc[w] \in {"armed", "asleep"} => queue[w] = <<>>

(* ddc.h l.167: setOffset is "Safe to call from another thread only while   *)
(* the consumer isn't in process()".                                        *)
FreqOf(id) == {d.freq : d \in {e \in decoders : e.id = id}}
OffsetSetOutsideProcess == [][
  \A w \in Workers : \A id \in snap[w] :
    FreqOf(id)' # {} => FreqOf(id)' = FreqOf(id) ]_vars
=============================================================================
