------------------------ MODULE DecoderManagerProofs ------------------------
(* Proofs about DecoderManager, for every number of workers, queue limit,   *)
(* set of frequencies and number of decoders and blocks: its types, and     *)
(* where decoders are (the registry stays consistent, sub-bands never       *)
(* shadow one another, feed()'s count and the placement's weight are true). *)
EXTENDS DecoderManager, TLAPS, FiniteSetTheorems

(* Where a thread is says what it holds.                                    *)
HandOK ==
  /\ \A w \in Workers : wpc[w] \in {"popped", "busy"} => hand[w] \in Blocks
  /\ \A w \in Workers : wpc[w] \notin {"popped", "busy"} => hand[w] = 0
  /\ \A w \in Workers : wpc[w] # "busy" => snap[w] = {}

FeedOK ==
  /\ fpc # "idle" => blk \in Blocks
  /\ fpc = "push" => fw \in Workers

(* Without a pool there are no threads, queues or decoders.                 *)
PoolOK ==
  /\ ~pool => /\ \A w \in Workers : wpc[w] = "off" /\ queue[w] = <<>>
              /\ decoders = {} /\ subbands = {}
              /\ fpc # "push"
              /\ gui \in {"idle", "building"}
  /\ gui = "building" => run /\ ~pool
  /\ gui \in {"idle", "removing"} /\ pool => run

TypeInv == TypeOK /\ HandOK /\ FeedOK /\ PoolOK

LEMMA BoundFacts ==
  /\ NumWorkers \in Nat /\ NumWorkers >= 1
  /\ Workers \subseteq Nat
  /\ MaxId \in Nat /\ MaxBlocks \in Nat
  /\ kMaxQueue \in Nat /\ kMaxQueue >= 1
BY PoolAssumption DEF Workers

LEMMA TypeInit == Init => TypeInv
<1> SUFFICES ASSUME Init PROVE TypeInv
  OBVIOUS
<1> USE BoundFacts
<1>1. RegistryOK
  BY DEF Init, RegistryOK
<1>2. ThreadsOK
  BY DEF Init, ThreadsOK, WorkerStates
<1>3. FeederOK
  BY DEF Init, FeederOK, FeedStates
<1>6. ControlOK
  <2>1. run \in BOOLEAN /\ pool \in BOOLEAN /\ crashed \in BOOLEAN
    BY Zenon DEF Init
  <2>2. gui \in GuiStates /\ gw \in 1 .. NumWorkers + 1
    BY DEF Init, GuiStates
  <2> QED BY <2>1, <2>2 DEF ControlOK
<1>4. HistoryOK
  BY DEF Init, HistoryOK
<1>5. HandOK /\ FeedOK /\ PoolOK
  BY DEF Init, HandOK, FeedOK, PoolOK
<1> QED BY <1>1, <1>2, <1>3, <1>4, <1>5, <1>6 DEF TypeInv, TypeOK

(* What a step leaves alone stays well typed.                               *)
LEMMA StableTypes ==
  ASSUME TypeInv
  PROVE  /\ UNCHANGED registry => RegistryOK'
         /\ UNCHANGED threads => ThreadsOK'
         /\ UNCHANGED feeder => FeederOK'
         /\ UNCHANGED control => ControlOK'
         /\ UNCHANGED history => HistoryOK'
         /\ UNCHANGED threads => HandOK'
         /\ UNCHANGED feeder => FeedOK'
<1> USE DEF TypeInv
<1>1. UNCHANGED registry => RegistryOK'
  BY DEF TypeOK, RegistryOK, registry
<1>2. UNCHANGED threads => ThreadsOK'
  BY DEF TypeOK, ThreadsOK, threads
<1>3. UNCHANGED feeder => FeederOK'
  BY DEF TypeOK, FeederOK, feeder
<1>4. UNCHANGED control => ControlOK'
  BY DEF TypeOK, ControlOK, control
<1>5. UNCHANGED history => HistoryOK'
  BY DEF TypeOK, HistoryOK, history
<1>6. UNCHANGED threads => HandOK'
  BY DEF HandOK, threads
<1>7. UNCHANGED feeder => FeedOK'
  BY DEF FeedOK, feeder
<1> QED BY <1>1, <1>2, <1>3, <1>4, <1>5, <1>6, <1>7

(* Adding to one entry of an integer table keeps it one.                    *)
LEMMA BumpType ==
  ASSUME NEW S, NEW f \in [S -> Int], NEW v \in S, NEW k \in Int
  PROVE  [f EXCEPT ![v] = @ + k] \in [S -> Int]
OBVIOUS

LEMMA InsertType ==
  ASSUME TypeOK, nextId <= MaxId, NEW f \in Freqs, NEW b \in Bauds,
         NEW s \in SubBandRecord, Insert(s, f, b)
  PROVE  /\ decoders' \subseteq DecoderRecord
         /\ count' \in [Workers -> Int]
         /\ weight' \in [Workers -> Int]
         /\ nextId' \in 1 .. MaxId + 1
         /\ since' \in [Ids -> 0 .. MaxBlocks]
         /\ born' \in [Ids -> 0 .. MaxBlocks]
<1> USE BoundFacts
<1>1. nextId \in Ids /\ s.worker \in Workers /\ s.key \in Ids
  BY DEF TypeOK, RegistryOK, Ids, SubBandRecord
<1>2. [id |-> nextId, worker |-> s.worker, sb |-> s.key, freq |-> f, baud |-> b] \in DecoderRecord
  BY <1>1 DEF DecoderRecord
<1>3. decoders' \subseteq DecoderRecord
  BY <1>2 DEF Insert, TypeOK, RegistryOK
<1>4. count' \in [Workers -> Int]
  <2>1. count' = [count EXCEPT ![s.worker] = @ + 1]
    BY DEF Insert
  <2>2. count \in [Workers -> Int]
    BY DEF TypeOK, RegistryOK
  <2>3. 1 \in Int
    OBVIOUS
  <2> QED BY <1>1, <2>1, <2>2, <2>3, BumpType
<1>7. nextId' \in 1 .. MaxId + 1
  BY <1>1 DEF Insert, TypeOK, RegistryOK
<1>5. weight' \in [Workers -> Int]
  <2>1. decoderWeight(b) \in Int
    BY DEF decoderWeight
  <2>2. weight' = [weight EXCEPT ![s.worker] = @ + decoderWeight(b)]
    BY DEF Insert
  <2>3. weight \in [Workers -> Int]
    BY DEF TypeOK, RegistryOK
  <2> QED BY <1>1, <2>1, <2>2, <2>3, BumpType
<1>6. since' \in [Ids -> 0 .. MaxBlocks] /\ born' \in [Ids -> 0 .. MaxBlocks]
  BY <1>1 DEF Insert, TypeOK, HistoryOK, FeederOK
<1> QED BY <1>3, <1>4, <1>5, <1>6, <1>7

-----------------------------------------------------------------------------
(* Every step preserves TypeInv: the GUI's registry calls.                  *)

LEMMA PlainCallTypes ==
  ASSUME TypeInv, UNCHANGED <<threads, feeder, control>>,
         RegistryOK', HistoryOK',
         pool \/ (decoders' = {} /\ subbands' = {})
  PROVE  TypeInv'
<1>1. ThreadsOK' /\ FeederOK' /\ ControlOK' /\ HandOK' /\ FeedOK'
  BY StableTypes
<1>2. PoolOK'
  BY DEF TypeInv, PoolOK, threads, feeder, control
<1> QED BY <1>1, <1>2 DEF TypeInv, TypeOK

LEMMA AddTypes ==
  ASSUME TypeInv, NEW f \in Freqs, NEW b \in Bauds, addDecoder(f, b)
  PROVE  TypeInv'
<1>1. pool /\ nextId <= MaxId /\ UNCHANGED <<threads, feeder, control, wide, processed, cut>>
  BY DEF addDecoder, addToCovering, addWithNewSubBand
<1>2. PICK s \in SubBandRecord :
        Insert(s, f, b) /\ (subbands' = subbands \/ subbands' = subbands \union {s})
  <2>1. CASE addToCovering(f, b)
    BY <2>1 DEF addToCovering, Covering, TypeInv, TypeOK, RegistryOK
  <2>2. CASE addWithNewSubBand(f, b)
    <3>1. PICK w \in Workers :
            LET s == [key |-> nextId, worker |-> w, center |-> f, wide |-> wide]
            IN  subbands' = subbands \union {s} /\ Insert(s, f, b)
      BY <2>2 DEF addWithNewSubBand
    <3>2. nextId \in Ids /\ wide \in Freqs
      BY <1>1, BoundFacts DEF TypeInv, TypeOK, RegistryOK, Ids
    <3>3. [key |-> nextId, worker |-> w, center |-> f, wide |-> wide] \in SubBandRecord
      BY <3>2 DEF SubBandRecord
    <3> QED BY <3>1, <3>3
  <2> QED BY <2>1, <2>2 DEF addDecoder
<1>3. RegistryOK'
  <2>1. subbands' \subseteq SubBandRecord
    BY <1>2 DEF TypeInv, TypeOK, RegistryOK
  <2>2. wide' \in Freqs
    BY <1>1 DEF TypeInv, TypeOK, RegistryOK
  <2> QED BY <1>1, <1>2, <2>1, <2>2, InsertType DEF TypeInv, RegistryOK
<1>4. HistoryOK'
  <2>1. processed' \in [Ids -> Seq(Blocks)] /\ cut' \in [Workers -> 0 .. MaxBlocks]
    BY <1>1 DEF TypeInv, TypeOK, HistoryOK
  <2> QED BY <1>1, <1>2, <2>1, InsertType DEF TypeInv, HistoryOK
<1> QED BY <1>1, <1>3, <1>4, PlainCallTypes

LEMMA RemoveTypes ==
  ASSUME TypeInv, NEW id \in Ids, removeDecoder(id)
  PROVE  TypeInv'
<1>1. PICK d \in decoders :
        /\ decoders' = decoders \ {d}
        /\ subbands' = SubBandsWithout(d)
        /\ count'  = CountWithout(d)
        /\ weight' = WeightWithout(d)
  BY DEF removeDecoder
<1>2. UNCHANGED <<wide, nextId, threads, feeder, control, history>>
  BY DEF removeDecoder
<1>3. d.worker \in Workers
  BY DEF TypeInv, TypeOK, RegistryOK, DecoderRecord
<1>4. count \in [Workers -> Int] /\ weight \in [Workers -> Int]
  BY DEF TypeInv, TypeOK, RegistryOK
<1>5. count' \in [Workers -> Int]
  BY <1>1, <1>3, <1>4 DEF CountWithout
<1>6. weight' \in [Workers -> Int]
  <2>1. decoderWeight(d.baud) \in Int
    BY DEF decoderWeight
  <2> QED BY <1>1, <1>3, <1>4, <2>1 DEF WeightWithout
<1>7. RegistryOK'
  BY <1>1, <1>2, <1>5, <1>6 DEF TypeInv, TypeOK, RegistryOK, SubBandsWithout
<1>8. pool
  BY DEF TypeInv, PoolOK
<1> QED BY <1>2, <1>7, <1>8, StableTypes, PlainCallTypes

LEMMA SetFreqTypes ==
  ASSUME TypeInv, NEW id \in Ids, NEW f \in Freqs, setDecoderFreq(id, f)
  PROVE  TypeInv'
<1>1. PICK d \in decoders : decoders' = (decoders \ {d}) \union {[d EXCEPT !.freq = f]}
  BY DEF setDecoderFreq
<1>2. UNCHANGED <<wide, nextId, subbands, count, weight, threads, feeder, control, history>>
  BY DEF setDecoderFreq
<1>3. [d EXCEPT !.freq = f] \in DecoderRecord
  BY DEF TypeInv, TypeOK, RegistryOK, DecoderRecord
<1>4. RegistryOK'
  BY <1>1, <1>2, <1>3 DEF TypeInv, TypeOK, RegistryOK
<1>5. pool
  BY DEF TypeInv, PoolOK
<1> QED BY <1>2, <1>4, <1>5, StableTypes, PlainCallTypes

LEMMA ConfigureTypes ==
  ASSUME TypeInv, NEW f \in Freqs, configure(f)
  PROVE  TypeInv'
<1>1. UNCHANGED <<nextId, subbands, decoders, count, weight, threads, feeder, control, history>>
  BY DEF configure
<1>2. RegistryOK'
  BY <1>1 DEF configure, TypeInv, TypeOK, RegistryOK
<1>3. pool \/ (decoders' = {} /\ subbands' = {})
  BY <1>1 DEF TypeInv, PoolOK
<1> QED BY <1>1, <1>2, <1>3, StableTypes, PlainCallTypes

-----------------------------------------------------------------------------
(* ... the calls of the GUI that take several steps.                        *)

LEMMA BeginTypes ==
  ASSUME TypeInv, removeAllBegin \/ startBegin \/ stopBegin
  PROVE  TypeInv'
<1>1. UNCHANGED <<pool, crashed, registry, threads, feeder, history>>
  BY DEF removeAllBegin, startBegin, stopBegin
<1>2. RegistryOK' /\ ThreadsOK' /\ FeederOK' /\ HistoryOK' /\ HandOK' /\ FeedOK'
  BY <1>1, StableTypes
<1>3. ControlOK'
  <2>1. run' \in BOOLEAN /\ pool' \in BOOLEAN /\ crashed' \in BOOLEAN
    BY <1>1, Zenon DEF removeAllBegin, startBegin, stopBegin, TypeInv, TypeOK, ControlOK
  <2>2. gui' \in GuiStates /\ gw' \in 1 .. NumWorkers + 1
    BY BoundFacts DEF removeAllBegin, startBegin, stopBegin, TypeInv, TypeOK, ControlOK, GuiStates
  <2> QED BY <2>1, <2>2 DEF ControlOK
<1>4. PoolOK'
  <2>1. CASE removeAllBegin
    BY <2>1 DEF removeAllBegin, GuiIdle, TypeInv, PoolOK, threads, feeder, registry
  <2>2. CASE startBegin
    BY <2>2 DEF startBegin, GuiIdle, TypeInv, PoolOK, threads, feeder, registry
  <2>3. CASE stopBegin
    BY <2>3 DEF stopBegin, GuiIdle, TypeInv, PoolOK, threads, feeder, registry
  <2> QED BY <2>1, <2>2, <2>3
<1> QED BY <1>2, <1>3, <1>4 DEF TypeInv, TypeOK

LEMMA RemoveAllTypes ==
  ASSUME TypeInv, NEW w \in Workers, removeAllFrom(w)
  PROVE  TypeInv'
<1> USE BoundFacts
<1>1. UNCHANGED <<run, pool, crashed, wide, nextId, weight, drops, wpc, hand, snap, feeder,
                  processed, since, born>>
  BY DEF removeAllFrom
<1>2. RegistryOK'
  BY <1>1 DEF removeAllFrom, TypeInv, TypeOK, RegistryOK
<1>3. ThreadsOK'
  BY <1>1 DEF removeAllFrom, BacklogCleared, TypeInv, TypeOK, ThreadsOK
<1>4. FeederOK' /\ FeedOK'
  BY <1>1, StableTypes
<1>5. ControlOK'
  <2>1. run' \in BOOLEAN /\ pool' \in BOOLEAN /\ crashed' \in BOOLEAN
    BY <1>1, Zenon DEF TypeInv, TypeOK, ControlOK
  <2>2. gui' \in GuiStates
    BY DEF removeAllFrom, TypeInv, TypeOK, ControlOK, GuiStates
  <2>3. gw' \in 1 .. NumWorkers + 1
    BY DEF removeAllFrom, Workers
  <2> QED BY <2>1, <2>2, <2>3 DEF ControlOK
<1>6. HistoryOK'
  BY <1>1 DEF removeAllFrom, TypeInv, TypeOK, HistoryOK, FeederOK
<1>7. HandOK'
  BY <1>1 DEF TypeInv, HandOK
<1>8. PoolOK'
  <2>1. pool /\ pool'
    BY <1>1 DEF removeAllFrom, TypeInv, PoolOK
  <2>2. gui' # "building"
    BY DEF removeAllFrom
  <2>3. run'
    BY <1>1 DEF removeAllFrom, TypeInv, PoolOK
  <2> QED BY <2>1, <2>2, <2>3 DEF PoolOK
<1> QED BY <1>2, <1>3, <1>4, <1>5, <1>6, <1>7, <1>8 DEF TypeInv, TypeOK

LEMMA DisturbedTypes ==
  ASSUME TypeInv, WalkDisturbed, UNCHANGED <<fw, blk>>
  PROVE  FeederOK' /\ crashed' \in BOOLEAN /\ FeedOK' /\ fpc' = "idle"
<1>1. FeederOK' /\ FeedOK' /\ fpc' = "idle"
  BY DEF WalkDisturbed, TypeInv, TypeOK, FeederOK, FeedStates, FeedOK
<1>2. crashed' \in BOOLEAN
  BY Zenon DEF WalkDisturbed, TypeInv, TypeOK, ControlOK
<1> QED BY <1>1, <1>2

LEMMA BuildTypes ==
  ASSUME TypeInv, startBuild
  PROVE  TypeInv'
<1> USE BoundFacts
<1>1. UNCHANGED <<run, gw, registry, queue, drops, hand, snap, fw, blk, processed, since, born>>
  BY DEF startBuild
<1>2. RegistryOK' /\ FeederOK' /\ FeedOK' /\ crashed' \in BOOLEAN
  BY <1>1, StableTypes, DisturbedTypes DEF startBuild
<1>3. ThreadsOK'
  BY <1>1 DEF startBuild, TypeInv, TypeOK, ThreadsOK, WorkerStates
<1>4. ControlOK'
  <2>1. run' \in BOOLEAN /\ pool' \in BOOLEAN
    BY <1>1, Zenon DEF startBuild, TypeInv, TypeOK, ControlOK
  <2>2. gui' \in GuiStates /\ gw' \in 1 .. NumWorkers + 1
    BY <1>1 DEF startBuild, TypeInv, TypeOK, ControlOK, GuiStates
  <2> QED BY <1>2, <2>1, <2>2 DEF ControlOK
<1>5. HistoryOK'
  BY <1>1 DEF startBuild, TypeInv, TypeOK, HistoryOK, FeederOK
<1>6. HandOK'
  BY <1>1 DEF startBuild, TypeInv, HandOK, PoolOK
<1>7. PoolOK'
  BY <1>1 DEF startBuild, TypeInv, PoolOK
<1> QED BY <1>2, <1>3, <1>4, <1>5, <1>6, <1>7 DEF TypeInv, TypeOK

LEMMA NotifyTypes ==
  ASSUME TypeInv, stopNotify
  PROVE  TypeInv'
<1>1. UNCHANGED <<run, pool, gw, crashed, registry, queue, drops, hand, snap, feeder, history>>
  BY DEF stopNotify
<1>2. RegistryOK' /\ FeederOK' /\ HistoryOK' /\ FeedOK'
  BY <1>1, StableTypes
<1>3. ThreadsOK'
  BY <1>1 DEF stopNotify, TypeInv, TypeOK, ThreadsOK, WorkerStates
<1>4. ControlOK'
  <2>1. run' \in BOOLEAN /\ pool' \in BOOLEAN /\ crashed' \in BOOLEAN
    BY <1>1, Zenon DEF TypeInv, TypeOK, ControlOK
  <2>2. gui' \in GuiStates /\ gw' \in 1 .. NumWorkers + 1
    BY <1>1 DEF stopNotify, TypeInv, TypeOK, ControlOK, GuiStates
  <2> QED BY <2>1, <2>2 DEF ControlOK
<1>5. HandOK'
  BY <1>1 DEF stopNotify, TypeInv, TypeOK, ThreadsOK, HandOK
<1>6. PoolOK'
  BY <1>1 DEF stopNotify, TypeInv, PoolOK
<1> QED BY <1>2, <1>3, <1>4, <1>5, <1>6 DEF TypeInv, TypeOK

LEMMA JoinTypes ==
  ASSUME TypeInv, stopJoin
  PROVE  TypeInv'
<1> USE BoundFacts
<1>1. UNCHANGED <<run, gw, wide, nextId, drops, hand, snap, fw, blk, history>>
  BY DEF stopJoin
<1>2. HistoryOK' /\ FeederOK' /\ FeedOK' /\ crashed' \in BOOLEAN /\ fpc' = "idle"
  BY <1>1, StableTypes, DisturbedTypes DEF stopJoin
<1>3. RegistryOK'
  BY <1>1 DEF stopJoin, TypeInv, TypeOK, RegistryOK
<1>4. ThreadsOK'
  BY <1>1 DEF stopJoin, TypeInv, TypeOK, ThreadsOK, WorkerStates
<1>5. ControlOK'
  <2>1. run' \in BOOLEAN /\ pool' \in BOOLEAN
    BY <1>1, Zenon DEF stopJoin, TypeInv, TypeOK, ControlOK
  <2>2. gui' \in GuiStates /\ gw' \in 1 .. NumWorkers + 1
    BY <1>1 DEF stopJoin, TypeInv, TypeOK, ControlOK, GuiStates
  <2> QED BY <1>2, <2>1, <2>2 DEF ControlOK
<1>6. HandOK'
  BY <1>1 DEF stopJoin, TypeInv, HandOK
<1>7. PoolOK'
  BY <1>2 DEF stopJoin, PoolOK
<1> QED BY <1>2, <1>3, <1>4, <1>5, <1>6, <1>7 DEF TypeInv, TypeOK

-----------------------------------------------------------------------------
(* ... the SDR thread.                                                      *)

(* Trimming and appending a block keeps a backlog one.                      *)
LEMMA PushedQueue ==
  ASSUME NEW q \in Seq(Blocks), NEW b \in Blocks
  PROVE  /\ Trimmed(q) \in Seq(Blocks)
         /\ Append(Trimmed(q), b) \in Seq(Blocks)
<1>1. Trimmed(q) \in Seq(Blocks)
  BY BoundFacts DEF Trimmed
<1> QED BY <1>1

LEMMA FeedTypes ==
  ASSUME TypeInv, Feed
  PROVE  TypeInv'
<1> USE BoundFacts
<1>1. UNCHANGED <<registry, control, history>>
  BY DEF Feed, feedBegin, feedLook, feedPush, feedEnd
<1>2. RegistryOK' /\ ControlOK' /\ HistoryOK'
  BY <1>1, StableTypes
<1>3. CASE UNCHANGED threads
  <2>1. ThreadsOK' /\ HandOK'
    BY <1>3, StableTypes
  <2>2. FeederOK' /\ FeedOK'
    <3>1. CASE feedBegin
      BY <3>1 DEF feedBegin, TypeInv, TypeOK, FeederOK, FeedStates, FeedOK, Blocks
    <3>2. CASE feedLook
      BY <3>2 DEF feedLook, TypeInv, TypeOK, FeederOK, FeedStates, FeedOK, Workers
    <3>3. CASE feedEnd
      BY <3>3 DEF feedEnd, TypeInv, TypeOK, FeederOK, FeedStates, FeedOK
    <3>4. CASE feedPush
      BY <3>4 DEF feedPush, TypeInv, TypeOK, FeederOK, FeedStates, FeedOK, Workers
    <3> QED BY <3>1, <3>2, <3>3, <3>4 DEF Feed
  <2>3. PoolOK'
    <3>1. fpc' = "push" => pool
      BY DEF Feed, feedBegin, feedLook, feedPush, feedEnd, TypeInv, PoolOK
    <3> QED BY <1>1, <1>3, <3>1 DEF TypeInv, PoolOK, threads, control, registry
  <2> QED BY <1>2, <2>1, <2>2, <2>3 DEF TypeInv, TypeOK
<1>4. CASE feedPush
  <2>1. fw \in Workers /\ blk \in Blocks /\ pool
    BY <1>4 DEF feedPush, TypeInv, FeedOK, PoolOK
  <2>2. FeederOK' /\ FeedOK'
    BY <1>4, <2>1 DEF feedPush, TypeInv, TypeOK, FeederOK, FeedStates, FeedOK, Workers
  <2>3. queue' \in [Workers -> Seq(Blocks)]
    <3>1. queue[fw] \in Seq(Blocks) /\ queue \in [Workers -> Seq(Blocks)]
      BY <2>1 DEF TypeInv, TypeOK, ThreadsOK
    <3>2. Append(Trimmed(queue[fw]), blk) \in Seq(Blocks)
      BY <2>1, <3>1, PushedQueue
    <3>3. queue' = [queue EXCEPT ![fw] = Append(Trimmed(@), blk)]
      BY <1>4 DEF feedPush
    <3> QED BY <2>1, <3>1, <3>2, <3>3
  <2>4. drops' \in Nat
    BY <1>4 DEF feedPush, Dropped, TypeInv, TypeOK, ThreadsOK
  <2>5. wpc' \in [Workers -> WorkerStates]
    BY <1>4 DEF feedPush, Notified, TypeInv, TypeOK, ThreadsOK, WorkerStates
  <2>6. ThreadsOK'
    BY <1>4, <2>3, <2>4, <2>5 DEF feedPush, TypeInv, TypeOK, ThreadsOK
  <2>7. HandOK'
    BY <1>4 DEF feedPush, Notified, TypeInv, TypeOK, ThreadsOK, HandOK
  <2>8. PoolOK'
    BY <1>1, <2>1 DEF TypeInv, PoolOK, control
  <2> QED BY <1>2, <2>2, <2>6, <2>7, <2>8 DEF TypeInv, TypeOK
<1> QED BY <1>3, <1>4 DEF Feed, feedBegin, feedLook, feedEnd

-----------------------------------------------------------------------------
(* ... and a worker.                                                        *)

LEMMA WorkerTypes ==
  ASSUME TypeInv, NEW w \in Workers, worker(w) \/ workerSpurious(w)
  PROVE  TypeInv'
<1> USE BoundFacts
<1>1. UNCHANGED <<registry, feeder, control, drops, cut, since, born>>
  BY DEF worker, workerLeave, workerPop, workerArm, workerSleep, workerSpurious,
         workerSnapshot, workerProcess, history
<1>2. RegistryOK' /\ FeederOK' /\ ControlOK' /\ FeedOK'
  BY <1>1, StableTypes
<1>p. pool
  <2>1. wpc[w] # "off"
    BY DEF worker, workerLeave, workerPop, workerArm, workerSleep, workerSpurious,
           workerSnapshot, workerProcess
  <2> QED BY <2>1 DEF TypeInv, PoolOK
<1>3. PoolOK'
  BY <1>1, <1>p DEF TypeInv, PoolOK, control
<1>4. CASE \E to \in {"check", "armed", "asleep", "done"} :
             /\ wpc[w] \notin {"popped", "busy"}
             /\ Goto(w, to) /\ UNCHANGED <<queue, drops, hand, snap, history>>
  <2>1. HistoryOK'
    BY <1>4, StableTypes
  <2>2. ThreadsOK'
    BY <1>4 DEF Goto, TypeInv, TypeOK, ThreadsOK, WorkerStates
  <2>3. HandOK'
    BY <1>4 DEF Goto, TypeInv, TypeOK, ThreadsOK, HandOK
  <2> QED BY <1>2, <1>3, <2>1, <2>2, <2>3 DEF TypeInv, TypeOK
<1>5. CASE workerPop(w)
  <2>1. queue[w] \in Seq(Blocks) /\ queue[w] # <<>>
    BY <1>5 DEF workerPop, TypeInv, TypeOK, ThreadsOK
  <2>2. Head(queue[w]) \in Blocks /\ Tail(queue[w]) \in Seq(Blocks)
    BY <2>1
  <2>3. ThreadsOK'
    BY <1>5, <2>2 DEF workerPop, HandTaken, FrontBlock, Goto, TypeInv, TypeOK, ThreadsOK,
                      WorkerStates, Blocks
  <2>4. HandOK'
    BY <1>5, <2>2 DEF workerPop, HandTaken, FrontBlock, Goto, TypeInv, TypeOK, ThreadsOK, HandOK
  <2>5. HistoryOK'
    BY <1>5, StableTypes DEF workerPop
  <2> QED BY <1>2, <1>3, <2>3, <2>4, <2>5 DEF TypeInv, TypeOK
<1>6. CASE workerSnapshot(w)
  <2>1. SnapshotOf(w) \subseteq Ids
    BY DEF SnapshotOf, DecodersOn, TypeInv, TypeOK, RegistryOK, DecoderRecord
  <2>2. ThreadsOK'
    BY <1>6, <2>1 DEF workerSnapshot, Goto, TypeInv, TypeOK, ThreadsOK, WorkerStates
  <2>3. HandOK'
    BY <1>6 DEF workerSnapshot, Goto, TypeInv, TypeOK, ThreadsOK, HandOK
  <2>4. HistoryOK'
    BY <1>6, StableTypes DEF workerSnapshot
  <2> QED BY <1>2, <1>3, <2>2, <2>3, <2>4 DEF TypeInv, TypeOK
<1>7. CASE workerProcess(w)
  <2>1. hand[w] \in Blocks
    BY <1>7 DEF workerProcess, TypeInv, HandOK
  <2>2. processed' \in [Ids -> Seq(Blocks)]
    <3>1. \A id \in Ids : Append(processed[id], hand[w]) \in Seq(Blocks)
                         /\ processed[id] \in Seq(Blocks)
      BY <2>1 DEF TypeInv, TypeOK, HistoryOK
    <3> QED BY <1>7, <3>1 DEF workerProcess
  <2>3. HistoryOK'
    BY <1>1, <2>2 DEF TypeInv, TypeOK, HistoryOK
  <2>4. ThreadsOK'
    BY <1>7 DEF workerProcess, Goto, TypeInv, TypeOK, ThreadsOK, WorkerStates
  <2>5. HandOK'
    BY <1>7 DEF workerProcess, Goto, TypeInv, TypeOK, ThreadsOK, HandOK
  <2> QED BY <1>2, <1>3, <2>3, <2>4, <2>5 DEF TypeInv, TypeOK
<1>8. CASE workerLeave(w) \/ workerArm(w) \/ workerSleep(w) \/ workerSpurious(w)
  BY <1>4, <1>8 DEF workerLeave, workerArm, workerSleep, workerSpurious
<1> QED BY <1>5, <1>6, <1>7, <1>8 DEF worker

LEMMA TypeStep == TypeInv /\ [Next]_vars => TypeInv'
<1> SUFFICES ASSUME TypeInv, [Next]_vars PROVE TypeInv'
  OBVIOUS
<1>1. CASE GuiCall
  BY <1>1, ConfigureTypes, AddTypes, RemoveTypes, SetFreqTypes, BeginTypes
     DEF GuiCall, RegistryCall
<1>2. CASE GuiContinue
  BY <1>2, RemoveAllTypes, BuildTypes, NotifyTypes, JoinTypes DEF GuiContinue
<1>3. CASE Feed
  BY <1>3, FeedTypes
<1>4. CASE \E w \in Workers : worker(w) \/ workerSpurious(w)
  BY <1>4, WorkerTypes
<1>5. CASE UNCHANGED vars
  <2>1. TypeOK' /\ HandOK' /\ FeedOK'
    BY <1>5, StableTypes DEF vars, TypeOK
  <2>2. PoolOK'
    BY <1>5 DEF vars, TypeInv, PoolOK, registry, threads, feeder, control
  <2> QED BY <2>1, <2>2 DEF TypeInv
<1> QED BY <1>1, <1>2, <1>3, <1>4, <1>5 DEF Next

(* Every variable keeps its type, whatever calls the GUI, the SDR thread    *)
(* and the workers interleave; with it: a worker holds a block exactly      *)
(* between pop and process, and nothing exists without a running pool.      *)
THEOREM TypeAlways == Spec => []TypeInv
<1>1. Init => TypeInv
  BY TypeInit
<1>2. TypeInv /\ [Next]_vars => TypeInv'
  BY TypeStep
<1> QED BY <1>1, <1>2, PTL DEF Spec

(* TypeOK, the type invariant the runs check, for every pool and every bound. *)
THEOREM TypeCorrect == Spec => []TypeOK
<1>1. TypeInv => TypeOK
  BY DEF TypeInv
<1> QED BY <1>1, TypeAlways, PTL

-----------------------------------------------------------------------------
(* The registry.                                                            *)

(* Ids are fresh: whatever is alive was made before nextId.                 *)
Fresh ==
  /\ \A d \in decoders : d.id < nextId
  /\ \A s \in subbands : s.key < nextId
  /\ \A d \in decoders : d.sb < nextId

RegistryInv == Fresh /\ RegistrySound /\ SubBandsApart

CountInv == IsFiniteSet(decoders) /\ CountExact

RegistryFull == TypeInv /\ RegistryInv /\ CountInv

LEMMA RegistryInit == Init => RegistryInv /\ CountInv
<1> SUFFICES ASSUME Init PROVE RegistryInv /\ CountInv
  OBVIOUS
<1>1. RegistryInv
  BY DEF Init, RegistryInv, Fresh, RegistrySound, SubBandsApart
<1>2. CountInv
  <2>1. IsFiniteSet({}) /\ Cardinality({}) = 0
    BY FS_EmptySet
  <2>2. \A w \in Workers : DecodersOn(w) = {} /\ count[w] = 0
    BY DEF Init, DecodersOn
  <2> QED BY <2>1, <2>2 DEF Init, CountInv, CountExact
<1> QED BY <1>1, <1>2

LEMMA RegistryTypes ==
  ASSUME TypeInv
  PROVE  /\ \A d \in decoders : d.id \in Nat /\ d.worker \in Workers /\ d.sb \in Nat
         /\ \A s \in subbands : s.key \in Nat /\ s.worker \in Workers /\ s.center \in Int
         /\ nextId \in Nat /\ Workers \subseteq Nat
         /\ count \in [Workers -> Int]
<1> USE BoundFacts DEF TypeInv, TypeOK, RegistryOK
<1>1. Ids \subseteq Nat /\ Freqs \subseteq Int
  BY PoolAssumption DEF Ids
<1>2. \A d \in decoders : d.id \in Nat /\ d.worker \in Workers /\ d.sb \in Nat
  BY <1>1 DEF DecoderRecord
<1>3. \A s \in subbands : s.key \in Nat /\ s.worker \in Workers /\ s.center \in Int
  BY <1>1 DEF SubBandRecord
<1> QED BY <1>2, <1>3

(* One more decoder on one worker, or one fewer, and count along with it.   *)
LEMMA CountMore ==
  ASSUME TypeInv, CountInv, NEW n, n \notin decoders, n.worker \in Workers,
         decoders' = decoders \union {n}, count' = [count EXCEPT ![n.worker] = @ + 1]
  PROVE  CountInv'
<1>1. IsFiniteSet(decoders')
  BY FS_AddElement DEF CountInv
<1>2. ASSUME NEW w \in Workers PROVE count'[w] = Cardinality(DecodersOn(w)')
  <2>1. IsFiniteSet(DecodersOn(w)) /\ count[w] = Cardinality(DecodersOn(w))
    BY FS_Subset DEF CountInv, CountExact, DecodersOn
  <2>2. CASE w = n.worker
    <3>1. DecodersOn(w)' = DecodersOn(w) \union {n} /\ n \notin DecodersOn(w)
      BY <2>2 DEF DecodersOn
    <3>2. Cardinality(DecodersOn(w) \union {n}) = Cardinality(DecodersOn(w)) + 1
      BY <2>1, <3>1, FS_AddElement
    <3>3. count'[w] = count[w] + 1
      BY <2>2, RegistryTypes
    <3> QED BY <2>1, <3>1, <3>2, <3>3
  <2>3. CASE w # n.worker
    <3>1. DecodersOn(w)' = DecodersOn(w)
      BY <2>3 DEF DecodersOn
    <3>2. count'[w] = count[w]
      BY <2>3, RegistryTypes
    <3> QED BY <2>1, <3>1, <3>2
  <2> QED BY <2>2, <2>3
<1> QED BY <1>1, <1>2 DEF CountInv, CountExact

LEMMA CountFewer ==
  ASSUME TypeInv, CountInv, NEW d \in decoders,
         decoders' = decoders \ {d}, count' = [count EXCEPT ![d.worker] = @ - 1]
  PROVE  CountInv'
<1>1. IsFiniteSet(decoders')
  BY FS_RemoveElement DEF CountInv
<1>2. ASSUME NEW w \in Workers PROVE count'[w] = Cardinality(DecodersOn(w)')
  <2>1. IsFiniteSet(DecodersOn(w)) /\ count[w] = Cardinality(DecodersOn(w))
    BY FS_Subset DEF CountInv, CountExact, DecodersOn
  <2>2. CASE w = d.worker
    <3>1. DecodersOn(w)' = DecodersOn(w) \ {d} /\ d \in DecodersOn(w)
      BY <2>2 DEF DecodersOn
    <3>2. Cardinality(DecodersOn(w) \ {d}) = Cardinality(DecodersOn(w)) - 1
      BY <2>1, <3>1, FS_RemoveElement
    <3>3. count'[w] = count[w] - 1
      BY <2>2, RegistryTypes
    <3> QED BY <2>1, <3>1, <3>2, <3>3
  <2>3. CASE w # d.worker
    <3>1. DecodersOn(w)' = DecodersOn(w)
      BY <2>3 DEF DecodersOn
    <3>2. count'[w] = count[w]
      BY <2>3, RegistryTypes
    <3> QED BY <2>1, <3>1, <3>2
  <2> QED BY <2>2, <2>3
<1> QED BY <1>1, <1>2 DEF CountInv, CountExact

-----------------------------------------------------------------------------
(* One step per call that changes the registry.                             *)

(* A decoder with a fresh id joins sub-band s.                              *)
LEMMA InsertRegistry ==
  ASSUME RegistryFull, NEW s, NEW f, NEW b, Insert(s, f, b), s.worker \in Workers, s.key \in Nat,
         s.key <= nextId, s \in subbands', subbands' = subbands \union {s},
         SubBandsApart', \A t \in subbands : t.key = s.key => t = s
  PROVE  RegistryInv' /\ CountInv'
<1> USE DEF RegistryFull, RegistryInv
<1> DEFINE n == [id |-> nextId, worker |-> s.worker, sb |-> s.key, freq |-> f, baud |-> b]
<1>1. /\ decoders' = decoders \union {n} /\ nextId' = nextId + 1
      /\ count' = [count EXCEPT ![n.worker] = @ + 1]
      /\ n.id = nextId /\ n.worker = s.worker /\ n.sb = s.key
  BY DEF Insert
<1> HIDE DEF n
<1>2. \A d \in decoders : d.id < nextId /\ d.id \in Nat /\ d.sb < nextId /\ d.sb \in Nat
  BY RegistryTypes DEF Fresh
<1>3. nextId \in Nat /\ \A t \in subbands : t.key < nextId /\ t.key \in Nat
  BY RegistryTypes DEF Fresh
<1>4. n \notin decoders
  BY <1>1, <1>2, <1>3
<1>5. CountInv'
  BY <1>1, <1>4, CountMore
<1>6. Fresh'
  BY <1>1, <1>2, <1>3 DEF Fresh
<1>7. RegistrySound'
  <2>1. \A d, e \in decoders' : d.id = e.id => d = e
    BY <1>1, <1>2, <1>3 DEF RegistrySound
  <2>2. \A t, u \in subbands' : t.key = u.key => t = u
    BY DEF RegistrySound
  <2>3. \A d \in decoders' : \E t \in subbands' : t.key = d.sb /\ t.worker = d.worker
    BY <1>1 DEF RegistrySound
  <2>4. \A t \in subbands' : DecodersIn(t)' # {}
    BY <1>1 DEF RegistrySound, DecodersIn
  <2> QED BY <2>1, <2>2, <2>3, <2>4 DEF RegistrySound
<1> QED BY <1>5, <1>6, <1>7

LEMMA AddRegistry ==
  ASSUME RegistryFull, NEW f \in Freqs, NEW b \in Bauds, addDecoder(f, b)
  PROVE  RegistryInv' /\ CountInv'
<1> USE DEF RegistryFull, RegistryInv
<1>1. CASE addToCovering(f, b)
  <2>1. PICK s \in subbands : Insert(s, f, b)
    BY <1>1 DEF addToCovering, Covering
  <2>2. subbands' = subbands
    BY <1>1 DEF addToCovering
  <2>3. SubBandsApart' /\ \A t \in subbands : t.key = s.key => t = s
    BY <2>2 DEF SubBandsApart, RegistrySound
  <2>4. s.key <= nextId /\ s.key \in Nat /\ s.worker \in Workers
    BY RegistryTypes DEF Fresh
  <2> QED BY <2>1, <2>2, <2>3, <2>4, InsertRegistry
<1>2. CASE addWithNewSubBand(f, b)
  <2>1. PICK w \in Workers :
          LET s == [key |-> nextId, worker |-> w, center |-> f, wide |-> wide]
          IN  subbands' = subbands \union {s} /\ Insert(s, f, b)
    BY <1>2 DEF addWithNewSubBand
  <2> DEFINE s == [key |-> nextId, worker |-> w, center |-> f, wide |-> wide]
  <2>2. s.key = nextId /\ s.worker = w /\ s.center = f
    OBVIOUS
  <2>3. subbands' = subbands \union {s} /\ Insert(s, f, b)
    BY <2>1
  <2> HIDE DEF s
  <2>4. \A t \in subbands : ~Within(f, t.center, HalfWidth)
    BY <1>2 DEF addWithNewSubBand, Covering, Covers
  <2>5. f \in Int /\ HalfWidth \in Int /\ HalfWidth > 0
    BY PoolAssumption
  <2>6. SubBandsApart'
    <3>1. ASSUME NEW t \in subbands PROVE ~Within(s.center, t.center, HalfWidth) /\
                                           ~Within(t.center, s.center, HalfWidth)
      BY <2>2, <2>4, <2>5, RegistryTypes DEF Within
    <3> QED BY <2>3, <3>1 DEF SubBandsApart
  <2>7. \A t \in subbands : t.key = s.key => t = s
    BY <2>2, RegistryTypes DEF Fresh
  <2>8. s.key <= nextId /\ s.key \in Nat /\ s.worker \in Workers
    BY <2>2, RegistryTypes
  <2> QED BY <2>3, <2>6, <2>7, <2>8, InsertRegistry
<1> QED BY <1>1, <1>2 DEF addDecoder

LEMMA RemoveRegistry ==
  ASSUME RegistryFull, NEW id \in Ids, removeDecoder(id)
  PROVE  RegistryInv' /\ CountInv'
<1> USE DEF RegistryFull, RegistryInv
<1>1. PICK d \in decoders :
        /\ decoders' = decoders \ {d} /\ subbands' = SubBandsWithout(d)
        /\ count' = [count EXCEPT ![d.worker] = @ - 1]
  BY DEF removeDecoder, CountWithout
<1>2. nextId' = nextId
  BY DEF removeDecoder
<1>3. CountInv'
  BY <1>1, CountFewer
<1>4. subbands' = {s \in subbands : s.key # d.sb \/ DecodersIn(s) # {d}}
  BY <1>1 DEF SubBandsWithout
<1>5. Fresh' /\ SubBandsApart'
  BY <1>1, <1>2, <1>4 DEF Fresh, SubBandsApart
<1>6. RegistrySound'
  <2>1. /\ \A c, e \in decoders' : c.id = e.id => c = e
        /\ \A s, t \in subbands' : s.key = t.key => s = t
    BY <1>1, <1>4 DEF RegistrySound
  <2>2. ASSUME NEW e \in decoders' PROVE \E s \in subbands' : s.key = e.sb /\ s.worker = e.worker
    <3>1. PICK s \in subbands : s.key = e.sb /\ s.worker = e.worker
      BY <1>1 DEF RegistrySound
    <3>2. e \in DecodersIn(s) /\ e # d
      BY <1>1, <3>1 DEF DecodersIn
    <3> QED BY <1>4, <3>1, <3>2
  <2>3. ASSUME NEW s \in subbands' PROVE DecodersIn(s)' # {}
    <3>1. DecodersIn(s)' = DecodersIn(s) \ {d} /\ DecodersIn(s) # {} /\ s \in subbands
      BY <1>1, <1>4 DEF DecodersIn, RegistrySound
    <3>2. s.key # d.sb => d \notin DecodersIn(s)
      BY DEF DecodersIn
    <3> QED BY <1>4, <3>1, <3>2
  <2> QED BY <2>1, <2>2, <2>3 DEF RegistrySound
<1> QED BY <1>3, <1>5, <1>6

LEMMA SetFreqRegistry ==
  ASSUME RegistryFull, NEW id \in Ids, NEW f \in Freqs, setDecoderFreq(id, f)
  PROVE  RegistryInv' /\ CountInv'
<1> USE DEF RegistryFull, RegistryInv
<1>1. PICK d \in decoders : decoders' = (decoders \ {d}) \union {[d EXCEPT !.freq = f]}
  BY DEF setDecoderFreq
<1> DEFINE n == [d EXCEPT !.freq = f]
<1>2. n.id = d.id /\ n.worker = d.worker /\ n.sb = d.sb
  BY DEF TypeInv, TypeOK, RegistryOK, DecoderRecord
<1>3. decoders' = (decoders \ {d}) \union {n}
  BY <1>1
<1> HIDE DEF n
<1>4. UNCHANGED <<subbands, nextId, count>>
  BY DEF setDecoderFreq
<1>5. \A e \in decoders \ {d} : e.id # d.id
  BY DEF RegistrySound
<1>6. CountInv'
  <2>1. IsFiniteSet(decoders')
    BY <1>3, FS_AddElement, FS_RemoveElement DEF CountInv
  <2>2. ASSUME NEW w \in Workers PROVE count'[w] = Cardinality(DecodersOn(w)')
    <3>1. IsFiniteSet(DecodersOn(w)) /\ count[w] = Cardinality(DecodersOn(w))
      BY FS_Subset DEF CountInv, CountExact, DecodersOn
    <3>2. CASE w = d.worker
      <4>1. DecodersOn(w)' = (DecodersOn(w) \ {d}) \union {n}
        BY <1>2, <1>3, <3>2 DEF DecodersOn
      <4>2. n \notin DecodersOn(w) \ {d} /\ d \in DecodersOn(w)
        BY <1>2, <1>5, <3>2 DEF DecodersOn
      <4>3. /\ IsFiniteSet(DecodersOn(w) \ {d})
            /\ Cardinality(DecodersOn(w) \ {d}) = Cardinality(DecodersOn(w)) - 1
        BY <3>1, <4>2, FS_RemoveElement
      <4>4. Cardinality((DecodersOn(w) \ {d}) \union {n}) = Cardinality(DecodersOn(w) \ {d}) + 1
        BY <4>2, <4>3, FS_AddElement
      <4>5. Cardinality(DecodersOn(w)) \in Nat
        BY <3>1, FS_CardinalityType
      <4> QED BY <1>4, <3>1, <4>1, <4>3, <4>4, <4>5
    <3>3. CASE w # d.worker
      <4>1. DecodersOn(w)' = DecodersOn(w)
        BY <1>2, <1>3, <3>3 DEF DecodersOn
      <4> QED BY <1>4, <3>1, <4>1
    <3> QED BY <3>2, <3>3
  <2> QED BY <2>1, <2>2 DEF CountInv, CountExact
<1>7. Fresh' /\ SubBandsApart'
  BY <1>2, <1>3, <1>4 DEF Fresh, SubBandsApart
<1>8. RegistrySound'
  <2>1. \A c, e \in decoders' : c.id = e.id => c = e
    BY <1>2, <1>3, <1>5 DEF RegistrySound
  <2>2. \A e \in decoders' : \E s \in subbands' : s.key = e.sb /\ s.worker = e.worker
    BY <1>2, <1>3, <1>4 DEF RegistrySound
  <2>3. \A s \in subbands' : DecodersIn(s)' # {}
    BY <1>2, <1>3, <1>4 DEF RegistrySound, DecodersIn
  <2> QED BY <1>4, <2>1, <2>2, <2>3 DEF RegistrySound
<1> QED BY <1>6, <1>7, <1>8

LEMMA RemoveAllRegistry ==
  ASSUME RegistryFull, NEW w \in Workers, removeAllFrom(w)
  PROVE  RegistryInv' /\ CountInv'
<1> USE DEF RegistryFull, RegistryInv
<1>1. /\ subbands' = {s \in subbands : s.worker # w}
      /\ decoders' = {d \in decoders : d.worker # w}
      /\ count' = [count EXCEPT ![w] = 0] /\ nextId' = nextId
  BY DEF removeAllFrom, SubBandsOf, DecodersOn
<1>2. Fresh' /\ SubBandsApart'
  BY <1>1 DEF Fresh, SubBandsApart
<1>3. RegistrySound'
  <2>1. ASSUME NEW s \in subbands' PROVE DecodersIn(s)' # {}
    <3>1. PICK d \in decoders : d.sb = s.key
      BY <1>1 DEF RegistrySound, DecodersIn
    <3>2. d.worker = s.worker
      BY <1>1, <3>1 DEF RegistrySound
    <3> QED BY <1>1, <3>1, <3>2 DEF DecodersIn
  <2>2. \A d \in decoders' : \E s \in subbands' : s.key = d.sb /\ s.worker = d.worker
    BY <1>1 DEF RegistrySound
  <2> QED BY <1>1, <2>1, <2>2 DEF RegistrySound
<1>4. CountInv'
  <2>1. IsFiniteSet(decoders')
    BY <1>1, FS_Subset DEF CountInv
  <2>2. ASSUME NEW v \in Workers PROVE count'[v] = Cardinality(DecodersOn(v)')
    <3>1. CASE v = w
      <4>1. DecodersOn(v)' = {}
        BY <1>1, <3>1 DEF DecodersOn
      <4>2. count'[v] = 0
        BY <1>1, <3>1, RegistryTypes
      <4> QED BY <4>1, <4>2, FS_EmptySet
    <3>2. CASE v # w
      <4>1. DecodersOn(v)' = DecodersOn(v)
        BY <1>1, <3>2 DEF DecodersOn
      <4>2. count'[v] = count[v]
        BY <1>1, <3>2, RegistryTypes
      <4> QED BY <4>1, <4>2 DEF CountInv, CountExact
    <3> QED BY <3>1, <3>2
  <2> QED BY <2>1, <2>2 DEF CountInv, CountExact
<1> QED BY <1>2, <1>3, <1>4

LEMMA JoinRegistry ==
  ASSUME RegistryFull, stopJoin
  PROVE  RegistryInv' /\ CountInv'
<1>1. decoders' = {} /\ subbands' = {} /\ \A w \in Workers : count'[w] = 0
  BY DEF stopJoin
<1>2. RegistryInv'
  BY <1>1 DEF RegistryInv, Fresh, RegistrySound, SubBandsApart
<1>3. \A w \in Workers : DecodersOn(w)' = {}
  BY <1>1 DEF DecodersOn
<1>4. CountInv'
  BY <1>1, <1>3, FS_EmptySet DEF CountInv, CountExact
<1> QED BY <1>2, <1>4

LEMMA RegistryStep == RegistryFull /\ [Next]_vars => RegistryInv' /\ CountInv'
<1> SUFFICES ASSUME RegistryFull, [Next]_vars PROVE RegistryInv' /\ CountInv'
  OBVIOUS
<1>1. CASE UNCHANGED <<nextId, subbands, decoders, count>>
  BY <1>1 DEF RegistryFull, RegistryInv, Fresh, RegistrySound, SubBandsApart, DecodersIn,
              CountInv, CountExact, DecodersOn
<1>2. CASE RegistryCall
  <2>1. removeAllBegin => UNCHANGED <<nextId, subbands, decoders, count>>
    BY DEF removeAllBegin, registry
  <2> QED BY <1>1, <1>2, <2>1, AddRegistry, RemoveRegistry, SetFreqRegistry DEF RegistryCall
<1>3. CASE GuiContinue
  <2>1. startBuild \/ stopNotify => UNCHANGED <<nextId, subbands, decoders, count>>
    BY DEF startBuild, stopNotify, registry
  <2> QED BY <1>1, <1>3, <2>1, RemoveAllRegistry, JoinRegistry DEF GuiContinue
<1>4. CASE (\E f \in Freqs : configure(f)) \/ startBegin \/ stopBegin
  BY <1>1, <1>4 DEF configure, startBegin, stopBegin, registry
<1>5. CASE Feed
  BY <1>1, <1>5 DEF Feed, feedBegin, feedLook, feedPush, feedEnd, registry
<1>6. CASE \E w \in Workers : worker(w) \/ workerSpurious(w)
  BY <1>1, <1>6 DEF worker, workerLeave, workerPop, workerArm, workerSleep, workerSpurious,
                    workerSnapshot, workerProcess, registry
<1>7. CASE UNCHANGED vars
  BY <1>1, <1>7 DEF vars, registry
<1> QED BY <1>2, <1>3, <1>4, <1>5, <1>6, <1>7 DEF Next, GuiCall

LEMMA RegistryAlways == Spec => []RegistryFull
<1>1. Init => RegistryFull
  BY TypeInit, RegistryInit DEF RegistryFull
<1>2. RegistryFull /\ [Next]_vars => RegistryFull'
  BY TypeStep, RegistryStep DEF RegistryFull
<1> QED BY <1>1, <1>2, PTL DEF Spec

(* count, which feed() alone consults (l.68), is at every moment the number *)
(* of decoders of the worker: addDecoder, removeDecoder, removeAll and stop *)
(* keep it exact in every order of calls.                                   *)
THEOREM CountAlwaysExact == Spec => []CountExact
<1>1. RegistryFull => CountExact
  BY DEF RegistryFull, CountInv
<1> QED BY <1>1, RegistryAlways, PTL

(* Ids are unique, every decoder sits in a sub-band of its own worker and   *)
(* no sub-band is empty, however decoders come and go.                      *)
THEOREM RegistryAlwaysSound == Spec => []RegistrySound
<1>1. RegistryFull => RegistrySound
  BY DEF RegistryFull, RegistryInv
<1> QED BY <1>1, RegistryAlways, PTL

(* No sub-band ever lies within the coverage of another: the search of      *)
(* addDecoder (l.94-132) never makes the shadow sub-band its comments (l.95,*)
(* 110, 150) speak of.                                                      *)
THEOREM NoShadowSubBand == Spec => []SubBandsApart
<1>1. RegistryFull => SubBandsApart
  BY DEF RegistryFull, RegistryInv
<1> QED BY <1>1, RegistryAlways, PTL

-----------------------------------------------------------------------------
(* The weight the placement compares.                                       *)

LEMMA AtLeastMore ==
  ASSUME NEW D, IsFiniteSet(D), NEW n, n \notin D, NEW k \in {1, 2, 3}
  PROVE  /\ Cardinality(AtLeast(D, k)) \in Nat
         /\ Cardinality(AtLeast(D \union {n}, k)) =
              Cardinality(AtLeast(D, k)) + (IF decoderWeight(n.baud) >= k THEN 1 ELSE 0)
<1> DEFINE A == AtLeast(D, k)
           B == AtLeast(D \union {n}, k)
<1>1. A \in SUBSET D /\ n \notin A
  BY DEF AtLeast
<1>2. /\ decoderWeight(n.baud) >= k => B = A \union {n}
      /\ ~(decoderWeight(n.baud) >= k) => B = A
  BY DEF AtLeast
<1> HIDE DEF A, B
<1>3. IsFiniteSet(A)
  BY <1>1, FS_Subset, Zenon
<1>4. Cardinality(A) \in Nat
  BY <1>3, FS_CardinalityType
<1>5. CASE decoderWeight(n.baud) >= k
  <2>1. Cardinality(A \union {n}) = Cardinality(A) + 1
    BY <1>1, <1>3, FS_AddElement
  <2>2. Cardinality(B) = Cardinality(A) + 1
    BY <1>2, <1>5, <2>1, Zenon
  <2> QED BY <1>4, <1>5, <2>2 DEF A, B
<1>6. CASE ~(decoderWeight(n.baud) >= k)
  <2>1. Cardinality(B) = Cardinality(A)
    BY <1>2, <1>6, Zenon
  <2>2. Cardinality(B) = Cardinality(A) + (IF decoderWeight(n.baud) >= k THEN 1 ELSE 0)
    BY <1>4, <1>6, <2>1
  <2> QED BY <1>4, <2>2 DEF A, B
<1> QED BY <1>5, <1>6

(* A decoder adds its own weight to that of the others.                     *)
LEMMA WeightMore ==
  ASSUME NEW D, IsFiniteSet(D), NEW n, n \notin D
  PROVE  /\ WeightOf(D) \in Nat
         /\ WeightOf(D \union {n}) = WeightOf(D) + decoderWeight(n.baud)
<1> DEFINE c(k) == Cardinality(AtLeast(D, k))
           e(k) == Cardinality(AtLeast(D \union {n}, k))
           g == decoderWeight(n.baud)
<1>1. /\ c(1) \in Nat /\ e(1) = c(1) + (IF g >= 1 THEN 1 ELSE 0)
      /\ c(2) \in Nat /\ e(2) = c(2) + (IF g >= 2 THEN 1 ELSE 0)
      /\ c(3) \in Nat /\ e(3) = c(3) + (IF g >= 3 THEN 1 ELSE 0)
  BY AtLeastMore
<1>2. g \in {1, 2, 3}
  BY DEF decoderWeight
<1>3. WeightOf(D) = c(1) + c(2) + c(3) /\ WeightOf(D \union {n}) = e(1) + e(2) + e(3)
  BY DEF WeightOf
<1> HIDE DEF c, e, g
<1>4. /\ WeightOf(D) \in Nat
      /\ WeightOf(D \union {n}) = WeightOf(D) + g
  BY <1>1, <1>2, <1>3
<1> QED BY <1>4 DEF g

LEMMA WeightNat ==
  ASSUME NEW D, IsFiniteSet(D)
  PROVE  WeightOf(D) \in Nat
<1>1. ASSUME NEW k \in {1, 2, 3} PROVE Cardinality(AtLeast(D, k)) \in Nat
  <2> DEFINE A == AtLeast(D, k)
  <2>1. A \in SUBSET D
    BY DEF AtLeast
  <2> HIDE DEF A
  <2>2. IsFiniteSet(A)
    BY <2>1, FS_Subset, Zenon
  <2>3. Cardinality(A) \in Nat
    BY <2>2, FS_CardinalityType
  <2> QED BY <2>3 DEF A
<1> QED BY <1>1 DEF WeightOf

LEMMA WeightFewer ==
  ASSUME NEW D, IsFiniteSet(D), NEW d \in D
  PROVE  /\ WeightOf(D \ {d}) \in Nat
         /\ WeightOf(D) = WeightOf(D \ {d}) + decoderWeight(d.baud)
<1> DEFINE E == D \ {d}
<1>1. IsFiniteSet(E)
  BY FS_RemoveElement
<1>2. d \notin E /\ D = E \union {d}
  OBVIOUS
<1> HIDE DEF E
<1>3. WeightOf(E) \in Nat /\ WeightOf(E \union {d}) = WeightOf(E) + decoderWeight(d.baud)
  BY <1>1, <1>2, WeightMore
<1>4. WeightOf(D) = WeightOf(E) + decoderWeight(d.baud)
  BY <1>2, <1>3, Zenon
<1> QED BY <1>3, <1>4 DEF E

LEMMA WeightEmpty == WeightOf({}) = 0
<1>1. \A k \in {1, 2, 3} : AtLeast({}, k) = {}
  BY DEF AtLeast
<1>2. \A k \in {1, 2, 3} : Cardinality(AtLeast({}, k)) = 0
  BY <1>1, FS_EmptySet
<1> QED BY <1>2 DEF WeightOf

LEMMA WeightTypes ==
  ASSUME RegistryFull
  PROVE  /\ weight \in [Workers -> Int]
         /\ \A w \in Workers : IsFiniteSet(DecodersOn(w))
<1>1. weight \in [Workers -> Int]
  BY DEF RegistryFull, TypeInv, TypeOK, RegistryOK
<1>2. ASSUME NEW w \in Workers PROVE IsFiniteSet(DecodersOn(w))
  <2>1. DecodersOn(w) \in SUBSET decoders
    BY DEF DecodersOn
  <2> QED BY <2>1, FS_Subset DEF RegistryFull, CountInv
<1> QED BY <1>1, <1>2

LEMMA AddWeight ==
  ASSUME RegistryFull, WeightNeverUnder, NEW f \in Freqs, NEW b \in Bauds, addDecoder(f, b)
  PROVE  WeightNeverUnder'
<1>1. PICK s : s.worker \in Workers /\ Insert(s, f, b)
  <2>1. \A s \in subbands : s.worker \in Workers
    BY RegistryTypes DEF RegistryFull
  <2>2. CASE addToCovering(f, b)
    BY <2>1, <2>2 DEF addToCovering, Covering
  <2>3. CASE addWithNewSubBand(f, b)
    <3>1. PICK w \in Workers : Insert([key |-> nextId, worker |-> w, center |-> f, wide |-> wide], f, b)
      BY <2>3 DEF addWithNewSubBand
    <3> QED BY <3>1
  <2> QED BY <2>2, <2>3 DEF addDecoder
<1> DEFINE n == [id |-> nextId, worker |-> s.worker, sb |-> s.key, freq |-> f, baud |-> b]
<1>2. /\ decoders' = decoders \union {n} /\ n.worker = s.worker /\ n.baud = b /\ n.id = nextId
      /\ weight' = [weight EXCEPT ![s.worker] = @ + decoderWeight(b)]
  BY <1>1 DEF Insert
<1> HIDE DEF n
<1>3. n \notin decoders
  BY <1>2, RegistryTypes DEF RegistryFull, RegistryInv, Fresh
<1> SUFFICES ASSUME NEW w \in Workers PROVE weight'[w] >= WeightOf(DecodersOn(w)')
  BY DEF WeightNeverUnder
<1>4. CASE w = s.worker
  <2>1. DecodersOn(w)' = DecodersOn(w) \union {n} /\ n \notin DecodersOn(w)
    BY <1>2, <1>3, <1>4 DEF DecodersOn
  <2>2. /\ WeightOf(DecodersOn(w)) \in Nat
        /\ WeightOf(DecodersOn(w) \union {n}) = WeightOf(DecodersOn(w)) + decoderWeight(b)
    BY <1>2, <2>1, WeightTypes, WeightMore
  <2>3. WeightOf(DecodersOn(w)') = WeightOf(DecodersOn(w)) + decoderWeight(b)
    BY <2>1, <2>2, Zenon
  <2>4. weight'[w] = weight[w] + decoderWeight(b) /\ weight[w] \in Int
    BY <1>2, <1>4, WeightTypes
  <2>5. decoderWeight(b) \in Int /\ weight[w] >= WeightOf(DecodersOn(w))
    BY DEF decoderWeight, WeightNeverUnder
  <2> QED BY <2>2, <2>3, <2>4, <2>5
<1>5. CASE w # s.worker
  <2>1. DecodersOn(w)' = DecodersOn(w) /\ weight'[w] = weight[w]
    BY <1>2, <1>5, WeightTypes DEF DecodersOn
  <2>2. WeightOf(DecodersOn(w)') = WeightOf(DecodersOn(w))
    BY <2>1, Zenon
  <2> QED BY <2>1, <2>2 DEF WeightNeverUnder
<1> QED BY <1>4, <1>5

LEMMA RemoveWeight ==
  ASSUME RegistryFull, WeightNeverUnder, NEW id \in Ids, removeDecoder(id)
  PROVE  WeightNeverUnder'
<1>1. PICK d \in decoders :
        /\ decoders' = decoders \ {d}
        /\ weight' = [weight EXCEPT ![d.worker] = @ - decoderWeight(d.baud)]
  BY DEF removeDecoder, WeightWithout
<1> SUFFICES ASSUME NEW w \in Workers PROVE weight'[w] >= WeightOf(DecodersOn(w)')
  BY DEF WeightNeverUnder
<1>2. CASE w = d.worker
  <2>1. DecodersOn(w)' = DecodersOn(w) \ {d} /\ d \in DecodersOn(w)
    BY <1>1, <1>2 DEF DecodersOn
  <2>2. /\ WeightOf(DecodersOn(w) \ {d}) \in Nat
        /\ WeightOf(DecodersOn(w)) = WeightOf(DecodersOn(w) \ {d}) + decoderWeight(d.baud)
    BY <2>1, WeightTypes, WeightFewer
  <2>3. WeightOf(DecodersOn(w)') = WeightOf(DecodersOn(w) \ {d})
    BY <2>1, Zenon
  <2>4. weight'[w] = weight[w] - decoderWeight(d.baud) /\ weight[w] \in Int
    BY <1>1, <1>2, WeightTypes
  <2>5. decoderWeight(d.baud) \in Int /\ weight[w] >= WeightOf(DecodersOn(w))
    BY DEF decoderWeight, WeightNeverUnder
  <2> QED BY <2>2, <2>3, <2>4, <2>5
<1>3. CASE w # d.worker
  <2>1. DecodersOn(w)' = DecodersOn(w) /\ weight'[w] = weight[w]
    BY <1>1, <1>3, WeightTypes DEF DecodersOn
  <2>2. WeightOf(DecodersOn(w)') = WeightOf(DecodersOn(w))
    BY <2>1, Zenon
  <2> QED BY <2>1, <2>2 DEF WeightNeverUnder
<1> QED BY <1>2, <1>3

LEMMA SetFreqWeight ==
  ASSUME RegistryFull, WeightNeverUnder, NEW id \in Ids, NEW f \in Freqs, setDecoderFreq(id, f)
  PROVE  WeightNeverUnder'
<1>1. PICK d \in decoders : decoders' = (decoders \ {d}) \union {[d EXCEPT !.freq = f]}
  BY DEF setDecoderFreq
<1> DEFINE n == [d EXCEPT !.freq = f]
<1>2. n.id = d.id /\ n.worker = d.worker /\ n.baud = d.baud
  BY DEF RegistryFull, TypeInv, TypeOK, RegistryOK, DecoderRecord
<1>3. decoders' = (decoders \ {d}) \union {n} /\ weight' = weight
  BY <1>1 DEF setDecoderFreq
<1> HIDE DEF n
<1>4. n \notin decoders \ {d}
  BY <1>2 DEF RegistryFull, RegistryInv, RegistrySound
<1> SUFFICES ASSUME NEW w \in Workers PROVE WeightOf(DecodersOn(w)') = WeightOf(DecodersOn(w))
  BY <1>3 DEF WeightNeverUnder
<1>5. CASE w = d.worker
  <2> DEFINE E == DecodersOn(w) \ {d}
  <2>1. DecodersOn(w)' = E \union {n} /\ n \notin E /\ d \in DecodersOn(w)
    BY <1>2, <1>3, <1>4, <1>5 DEF DecodersOn
  <2>2. WeightOf(E) \in Nat /\ WeightOf(DecodersOn(w)) = WeightOf(E) + decoderWeight(d.baud)
    BY <2>1, WeightTypes, WeightFewer
  <2>3. IsFiniteSet(E)
    BY WeightTypes, FS_RemoveElement
  <2> HIDE DEF E
  <2>4. WeightOf(E \union {n}) = WeightOf(E) + decoderWeight(n.baud)
    BY <2>1, <2>3, WeightMore
  <2>5. WeightOf(DecodersOn(w)') = WeightOf(E) + decoderWeight(n.baud)
    BY <2>1, <2>4, Zenon
  <2> QED BY <1>2, <2>2, <2>5
<1>6. CASE w # d.worker
  <2>1. DecodersOn(w)' = DecodersOn(w)
    BY <1>2, <1>3, <1>6 DEF DecodersOn
  <2> QED BY <2>1, Zenon
<1> QED BY <1>5, <1>6

LEMMA EmptyWeight ==
  ASSUME RegistryFull, WeightNeverUnder, (\E w \in Workers : removeAllFrom(w)) \/ stopJoin
  PROVE  WeightNeverUnder'
<1>1. \A w \in Workers : weight[w] \in Int /\ weight[w] >= WeightOf(DecodersOn(w))
  BY WeightTypes DEF WeightNeverUnder
<1> SUFFICES ASSUME NEW v \in Workers PROVE weight'[v] >= WeightOf(DecodersOn(v)')
  BY DEF WeightNeverUnder
<1>2. CASE stopJoin
  <2>1. DecodersOn(v)' = {} /\ weight'[v] = 0
    BY <1>2 DEF stopJoin, DecodersOn
  <2>2. WeightOf(DecodersOn(v)') = 0
    BY <2>1, WeightEmpty, Zenon
  <2> QED BY <2>1, <2>2
<1>3. ASSUME NEW w \in Workers, removeAllFrom(w) PROVE weight'[v] >= WeightOf(DecodersOn(v)')
  <2>1. decoders' = {d \in decoders : d.worker # w} /\ weight' = weight
    BY <1>3 DEF removeAllFrom, DecodersOn
  <2>2. CASE v = w
    <3>1. DecodersOn(v)' = {}
      BY <2>1, <2>2 DEF DecodersOn
    <3>2. WeightOf(DecodersOn(v)') = 0
      BY <3>1, WeightEmpty, Zenon
    <3>3. WeightOf(DecodersOn(v)) \in Nat
      BY WeightTypes, WeightNat
    <3> QED BY <1>1, <2>1, <3>2, <3>3
  <2>3. CASE v # w
    <3>1. DecodersOn(v)' = DecodersOn(v)
      BY <2>1, <2>3 DEF DecodersOn
    <3>2. WeightOf(DecodersOn(v)') = WeightOf(DecodersOn(v))
      BY <3>1, Zenon
    <3> QED BY <1>1, <2>1, <3>2
  <2> QED BY <2>2, <2>3
<1> QED BY <1>2, <1>3

LEMMA WeightStep == RegistryFull /\ WeightNeverUnder /\ [Next]_vars => WeightNeverUnder'
<1> SUFFICES ASSUME RegistryFull, WeightNeverUnder, [Next]_vars PROVE WeightNeverUnder'
  OBVIOUS
<1>1. CASE UNCHANGED <<decoders, weight>>
  <2>1. \A w \in Workers : DecodersOn(w)' = DecodersOn(w)
    BY <1>1 DEF DecodersOn
  <2>2. \A w \in Workers : WeightOf(DecodersOn(w)') = WeightOf(DecodersOn(w))
    BY <2>1, Zenon
  <2> QED BY <1>1, <2>2 DEF WeightNeverUnder
<1>2. CASE RegistryCall
  <2>1. removeAllBegin => UNCHANGED <<decoders, weight>>
    BY DEF removeAllBegin, registry
  <2> QED BY <1>1, <1>2, <2>1, AddWeight, RemoveWeight, SetFreqWeight DEF RegistryCall
<1>3. CASE GuiContinue
  <2>1. startBuild \/ stopNotify => UNCHANGED <<decoders, weight>>
    BY DEF startBuild, stopNotify, registry
  <2> QED BY <1>1, <1>3, <2>1, EmptyWeight DEF GuiContinue
<1>4. CASE (\E f \in Freqs : configure(f)) \/ startBegin \/ stopBegin
  BY <1>1, <1>4 DEF configure, startBegin, stopBegin, registry
<1>5. CASE Feed
  BY <1>1, <1>5 DEF Feed, feedBegin, feedLook, feedPush, feedEnd, registry
<1>6. CASE \E w \in Workers : worker(w) \/ workerSpurious(w)
  BY <1>1, <1>6 DEF worker, workerLeave, workerPop, workerArm, workerSleep, workerSpurious,
                    workerSnapshot, workerProcess, registry
<1>7. CASE UNCHANGED vars
  BY <1>1, <1>7 DEF vars, registry
<1> QED BY <1>2, <1>3, <1>4, <1>5, <1>6, <1>7 DEF Next, GuiCall

(* The weight addDecoder compares workers by (l.98-132) is never below the  *)
(* weight of the decoders a worker really has, although removeAll (l.208)   *)
(* leaves it behind.                                                        *)
THEOREM WeightNeverUnderAlways == Spec => []WeightNeverUnder
<1>1. Init => RegistryFull /\ WeightNeverUnder
  <2> SUFFICES ASSUME Init PROVE RegistryFull /\ WeightNeverUnder
    OBVIOUS
  <2>1. RegistryFull
    BY TypeInit, RegistryInit DEF RegistryFull
  <2>2. \A w \in Workers : DecodersOn(w) = {} /\ weight[w] = 0
    BY DEF Init, DecodersOn
  <2>3. \A w \in Workers : WeightOf(DecodersOn(w)) = 0
    BY <2>2, WeightEmpty, Zenon
  <2> QED BY <2>1, <2>2, <2>3 DEF WeightNeverUnder
<1>2. (RegistryFull /\ WeightNeverUnder) /\ [Next]_vars => (RegistryFull /\ WeightNeverUnder)'
  BY TypeStep, RegistryStep, WeightStep DEF RegistryFull
<1> QED BY <1>1, <1>2, PTL DEF Spec
=============================================================================
