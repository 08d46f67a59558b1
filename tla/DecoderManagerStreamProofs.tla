--------------------- MODULE DecoderManagerStreamProofs ----------------------
(* What reaches a decoder, for every pool: the backlog of a worker is       *)
(* bounded and in order, every decoder sees the stream in order, on one     *)
(* thread at a time, meets two stale blocks at most after a retune, and     *)
(* misses none that is not counted.                                         *)
EXTENDS DecoderManagerProofs, SequenceTheorems

(* A block worker w may have seen: feed() in flight has yet to reach w, or  *)
(* has passed it.                                                           *)
Seen(w, b) == IF fpc # "idle" /\ fw <= w THEN b < blk ELSE b <= blk

BacklogOf(w) ==
  /\ Len(queue[w]) <= kMaxQueue
  /\ Increasing(queue[w])
  /\ \A i \in DOMAIN queue[w] : hand[w] < queue[w][i] /\ Seen(w, queue[w][i])
  /\ Seen(w, hand[w])

BacklogInv == \A w \in Workers : BacklogOf(w)

LEMMA ThreadTypes ==
  ASSUME TypeInv, NEW w \in Workers
  PROVE  /\ queue[w] \in Seq(Nat) /\ hand[w] \in Nat /\ w \in Nat
         /\ blk \in Nat /\ fw \in Nat
<1> USE BoundFacts
<1>1. queue[w] \in Seq(Blocks)
  BY DEF TypeInv, TypeOK, ThreadsOK
<1>2. Blocks \subseteq Nat
  BY DEF Blocks
<1>3. queue[w] \in Seq(Nat)
  BY <1>1, <1>2, SeqMonotonic
<1>4. hand[w] \in Nat /\ blk \in Nat /\ fw \in Nat
  BY DEF TypeInv, TypeOK, ThreadsOK, FeederOK
<1> QED BY <1>3, <1>4

LEMMA BacklogInit == Init => BacklogInv
BY BoundFacts DEF Init, BacklogInv, BacklogOf, Seen, Increasing

(* A step that neither pushes, pops, nor begins a block can only forget.    *)
LEMMA BacklogQuiet ==
  ASSUME TypeInv, BacklogInv, blk' = blk,
         fpc' = "idle" \/ (fpc' = fpc /\ fw' = fw) \/ (fpc # "idle" /\ fw' >= fw),
         fw' \in Int,
         \A w \in Workers : queue'[w] = queue[w] \/ queue'[w] = <<>>,
         \A w \in Workers : hand'[w] = hand[w] \/ hand'[w] = 0
  PROVE  BacklogInv'
<1> SUFFICES ASSUME NEW w \in Workers PROVE BacklogOf(w)'
  BY DEF BacklogInv
<1> USE BoundFacts
<1>1. BacklogOf(w)
  BY DEF BacklogInv
<1>2. /\ blk \in Nat /\ fw \in Nat /\ w \in Nat
      /\ queue[w] \in Seq(Blocks) /\ hand[w] \in Nat
      /\ fpc # "idle" => blk > 0
  BY DEF TypeInv, TypeOK, ThreadsOK, FeederOK, FeedOK, Blocks
<1>3. \A b \in Nat : Seen(w, b) => Seen(w, b)'
  BY <1>2 DEF Seen
<1>4. Seen(w, 0)'
  BY <1>2 DEF Seen
<1>5. Seen(w, hand[w])'
  BY <1>1, <1>2, <1>3, <1>4 DEF BacklogOf
<1>6. CASE queue'[w] = <<>>
  BY <1>5, <1>6 DEF BacklogOf, Increasing
<1>7. CASE queue'[w] = queue[w]
  <2>1. \A i \in DOMAIN queue[w] : queue[w][i] \in Nat
    BY <1>2 DEF Blocks
  <2>2. \A i \in DOMAIN queue[w] : hand'[w] < queue[w][i]
    <3>1. \A i \in DOMAIN queue[w] : hand[w] < queue[w][i]
      BY <1>1 DEF BacklogOf
    <3> QED BY <1>2, <2>1, <3>1
  <2>3. \A i \in DOMAIN queue[w] : Seen(w, queue[w][i])'
    BY <1>1, <1>3, <1>7, <2>1 DEF BacklogOf
  <2> QED BY <1>1, <1>5, <1>7, <2>2, <2>3 DEF BacklogOf
<1> QED BY <1>6, <1>7

(* Dropping the front of an ordered backlog keeps it one.                   *)
LEMMA TailOrdered ==
  ASSUME NEW q \in Seq(Nat), q # <<>>, Increasing(q)
  PROVE  /\ Tail(q) \in Seq(Nat)
         /\ Len(Tail(q)) = Len(q) - 1
         /\ Increasing(Tail(q))
         /\ \A i \in DOMAIN Tail(q) : Tail(q)[i] = q[i + 1] /\ i + 1 \in DOMAIN q
         /\ \A i \in DOMAIN Tail(q) : Head(q) < Tail(q)[i]
<1>1. /\ Tail(q) \in Seq(Nat) /\ Len(Tail(q)) = Len(q) - 1
      /\ \A i \in DOMAIN Tail(q) : Tail(q)[i] = q[i + 1] /\ i + 1 \in DOMAIN q
  OBVIOUS
<1>2. Increasing(Tail(q))
  BY <1>1 DEF Increasing
<1>3. \A i \in DOMAIN Tail(q) : Head(q) < Tail(q)[i]
  BY <1>1 DEF Increasing
<1> QED BY <1>1, <1>2, <1>3

(* Appending a block newer than all of an ordered sequence keeps it one.    *)
LEMMA AppendOrdered ==
  ASSUME NEW q \in Seq(Nat), NEW b \in Nat, Increasing(q),
         \A i \in DOMAIN q : q[i] < b
  PROVE  Increasing(Append(q, b))
BY DEF Increasing

LEMMA BeginBacklog ==
  ASSUME TypeInv, BacklogInv, feedBegin
  PROVE  BacklogInv'
<1> SUFFICES ASSUME NEW w \in Workers PROVE BacklogOf(w)'
  BY DEF BacklogInv
<1>1. BacklogOf(w) /\ UNCHANGED <<queue, hand>> /\ blk' = blk + 1
  BY DEF BacklogInv, feedBegin, threads
<1>2. blk \in Nat /\ queue[w] \in Seq(Nat) /\ hand[w] \in Nat
  BY ThreadTypes
<1>3. \A b \in Nat : Seen(w, b) => Seen(w, b)'
  BY <1>1, <1>2 DEF Seen, feedBegin
<1> QED BY <1>1, <1>2, <1>3 DEF BacklogOf

LEMMA PushBacklog ==
  ASSUME TypeInv, BacklogInv, feedPush
  PROVE  BacklogInv'
<1> SUFFICES ASSUME NEW w \in Workers PROVE BacklogOf(w)'
  BY DEF BacklogInv
<1> USE BoundFacts
<1>1. BacklogOf(w) /\ blk' = blk /\ hand' = hand /\ fpc' = "look" /\ fw' = fw + 1 /\ fpc = "push"
  BY DEF BacklogInv, feedPush
<1>2. blk \in Nat /\ queue[w] \in Seq(Nat) /\ hand[w] \in Nat /\ w \in Nat /\ fw \in Workers
  <2>1. fw \in Workers
    BY <1>1 DEF TypeInv, FeedOK
  <2> QED BY <2>1, ThreadTypes
<1>3. CASE w # fw
  <2>1. queue'[w] = queue[w]
    BY <1>2, <1>3 DEF feedPush, TypeInv, TypeOK, ThreadsOK
  <2>2. \A b \in Nat : Seen(w, b) => Seen(w, b)'
    BY <1>1, <1>2 DEF Seen
  <2> QED BY <1>1, <1>2, <2>1, <2>2 DEF BacklogOf
<1>4. CASE w = fw
  <2> DEFINE t == Trimmed(queue[w])
  <2>1. queue'[w] = Append(t, blk)
    BY <1>2, <1>4 DEF feedPush, TypeInv, TypeOK, ThreadsOK
  <2>2. /\ t \in Seq(Nat) /\ Increasing(t) /\ Len(t) < kMaxQueue
        /\ \A i \in DOMAIN t : hand[w] < t[i] /\ t[i] < blk
    <3>1. /\ Increasing(queue[w]) /\ Len(queue[w]) <= kMaxQueue
          /\ \A i \in DOMAIN queue[w] : hand[w] < queue[w][i] /\ queue[w][i] < blk
      BY <1>1, <1>2, <1>4 DEF BacklogOf, Seen
    <3>2. CASE Len(queue[w]) >= kMaxQueue
      <4>1. queue[w] # <<>> /\ t = Tail(queue[w])
        BY <1>2, <3>2 DEF Trimmed
      <4> HIDE DEF t
      <4>2. /\ t \in Seq(Nat) /\ Increasing(t) /\ Len(t) = Len(queue[w]) - 1
            /\ \A i \in DOMAIN t : t[i] = queue[w][i + 1] /\ i + 1 \in DOMAIN queue[w]
        BY <1>2, <3>1, <4>1, TailOrdered
      <4>3. \A i \in DOMAIN t : hand[w] < t[i] /\ t[i] < blk
        BY <3>1, <4>2
      <4>4. Len(t) < kMaxQueue
        BY <1>2, <3>1, <4>2
      <4> QED BY <4>2, <4>3, <4>4
    <3>3. CASE ~(Len(queue[w]) >= kMaxQueue)
      <4>1. t = queue[w] /\ Len(queue[w]) < kMaxQueue
        BY <1>2, <3>3 DEF Trimmed
      <4> HIDE DEF t
      <4> QED BY <1>2, <3>1, <4>1
    <3> QED BY <3>2, <3>3
  <2>3. hand[w] < blk
    BY <1>1, <1>2, <1>4 DEF BacklogOf, Seen
  <2> HIDE DEF t
  <2>4. Increasing(Append(t, blk))
    BY <1>2, <2>2, AppendOrdered
  <2>5. /\ Len(Append(t, blk)) <= kMaxQueue
        /\ \A i \in DOMAIN Append(t, blk) :
             hand[w] < Append(t, blk)[i] /\ Append(t, blk)[i] <= blk
    BY <1>2, <2>2, <2>3
  <2>6. \A b \in Nat : b <= blk => Seen(w, b)'
    BY <1>1, <1>2, <1>4 DEF Seen
  <2>7. \A i \in DOMAIN Append(t, blk) : Append(t, blk)[i] \in Nat
    <3>1. Append(t, blk) \in Seq(Nat)
      BY <1>2, <2>2
    <3> QED BY <3>1
  <2> QED BY <1>1, <1>2, <2>1, <2>3, <2>4, <2>5, <2>6, <2>7 DEF BacklogOf
<1> QED BY <1>3, <1>4

LEMMA PopBacklog ==
  ASSUME TypeInv, BacklogInv, NEW v \in Workers, workerPop(v)
  PROVE  BacklogInv'
<1> SUFFICES ASSUME NEW w \in Workers PROVE BacklogOf(w)'
  BY DEF BacklogInv
<1> USE BoundFacts
<1>1. BacklogOf(w) /\ UNCHANGED <<fpc, fw, blk>>
  BY DEF BacklogInv, workerPop, feeder
<1>2. queue[w] \in Seq(Nat) /\ hand[w] \in Nat
  BY ThreadTypes
<1>3. \A b : Seen(w, b)' <=> Seen(w, b)
  BY <1>1 DEF Seen
<1>4. CASE w # v
  <2>1. queue'[w] = queue[w] /\ hand'[w] = hand[w]
    BY <1>4 DEF workerPop, HandTaken, TypeInv, TypeOK, ThreadsOK
  <2> QED BY <1>1, <1>3, <2>1 DEF BacklogOf
<1>5. CASE w = v
  <2>1. queue[w] # <<>> /\ queue'[w] = Tail(queue[w]) /\ hand'[w] = Head(queue[w])
    BY <1>5 DEF workerPop, HandTaken, FrontBlock, TypeInv, TypeOK, ThreadsOK
  <2>2. 1 \in DOMAIN queue[w] /\ Head(queue[w]) = queue[w][1]
    BY <1>2, <2>1
  <2>3. /\ Len(Tail(queue[w])) <= kMaxQueue
        /\ Increasing(Tail(queue[w]))
        /\ \A i \in DOMAIN Tail(queue[w]) :
             Tail(queue[w])[i] = queue[w][i + 1] /\ i + 1 \in DOMAIN queue[w]
        /\ \A i \in DOMAIN Tail(queue[w]) : Head(queue[w]) < Tail(queue[w])[i]
    <3> DEFINE q == queue[w]
    <3>1. q \in Seq(Nat) /\ q # <<>> /\ Len(q) <= kMaxQueue /\ Increasing(q)
      BY <1>1, <1>2, <2>1 DEF BacklogOf
    <3> HIDE DEF q
    <3>2. Len(Tail(q)) = Len(q) - 1 /\ Len(q) \in Nat
      BY <3>1
    <3>3. Len(Tail(q)) <= kMaxQueue
      BY <3>1, <3>2
    <3>4. /\ Increasing(Tail(q))
          /\ \A i \in DOMAIN Tail(q) : Tail(q)[i] = q[i + 1] /\ i + 1 \in DOMAIN q
          /\ \A i \in DOMAIN Tail(q) : Head(q) < Tail(q)[i]
      BY <3>1, TailOrdered
    <3> QED BY <3>3, <3>4 DEF q
  <2> QED BY <1>1, <1>3, <2>1, <2>2, <2>3 DEF BacklogOf
<1> QED BY <1>4, <1>5

LEMMA BacklogStep == TypeInv /\ BacklogInv /\ [Next]_vars => BacklogInv'
<1> SUFFICES ASSUME TypeInv, BacklogInv, [Next]_vars PROVE BacklogInv'
  OBVIOUS
<1> USE BoundFacts
<1>t. /\ fw \in Int
      /\ queue \in [Workers -> Seq(Blocks)] /\ hand \in [Workers -> 0 .. MaxBlocks]
  BY DEF TypeInv, TypeOK, ThreadsOK, FeederOK
<1>1. CASE GuiCall \/ UNCHANGED vars
  <2>1. UNCHANGED <<threads, feeder>>
    BY <1>1 DEF GuiCall, configure, RegistryCall, addDecoder, addToCovering, addWithNewSubBand,
                removeDecoder, setDecoderFreq, removeAllBegin, startBegin, stopBegin, vars
  <2> QED BY <1>t, <2>1, BacklogQuiet DEF threads, feeder
<1>2. CASE \E w \in Workers : removeAllFrom(w)
  <2>1. PICK w \in Workers : removeAllFrom(w)
    BY <1>2
  <2>2. UNCHANGED <<hand, feeder>> /\ queue' = [queue EXCEPT ![w] = <<>>]
    BY <2>1 DEF removeAllFrom, BacklogCleared
  <2> QED BY <1>t, <2>2, BacklogQuiet DEF feeder
<1>3. CASE startBuild \/ stopJoin
  <2>1. UNCHANGED <<hand, blk, fw>> /\ fpc' = "idle"
    BY <1>3 DEF startBuild, stopJoin, WalkDisturbed
  <2>2. \A w \in Workers : queue'[w] = queue[w] \/ queue'[w] = <<>>
    BY <1>3 DEF startBuild, stopJoin
  <2> QED BY <1>t, <2>1, <2>2, BacklogQuiet
<1>4. CASE stopNotify
  BY <1>4, <1>t, BacklogQuiet DEF stopNotify, feeder
<1>5. CASE feedLook \/ feedEnd
  <2>1. UNCHANGED <<queue, hand, blk>> /\ fpc # "idle" /\ fw' \in Int /\ fw' >= fw
    BY <1>5, <1>t DEF feedLook, feedEnd, threads
  <2> QED BY <1>t, <2>1, BacklogQuiet
<1>6. CASE \E w \in Workers : (worker(w) \/ workerSpurious(w)) /\ ~workerPop(w)
  <2>1. PICK w \in Workers : (worker(w) \/ workerSpurious(w)) /\ ~workerPop(w)
    BY <1>6
  <2>2. UNCHANGED <<queue, feeder>> /\ (hand' = hand \/ hand' = [hand EXCEPT ![w] = 0])
    BY <2>1 DEF worker, workerLeave, workerArm, workerSleep, workerSpurious, workerSnapshot,
                workerProcess
  <2> QED BY <1>t, <2>2, BacklogQuiet DEF feeder
<1> QED BY <1>1, <1>2, <1>3, <1>4, <1>5, <1>6, BeginBacklog, PushBacklog, PopBacklog
        DEF Next, GuiContinue, Feed

(* A worker's backlog never exceeds kMaxQueue, is in stream order, newer    *)
(* than the block the worker is on and no newer than the block being fed    *)
(* (feed, l.68-79; workerLoop, l.281-291), for every pool and queue limit.  *)
THEOREM BacklogCorrect == Spec => []BacklogOrdered
<1>1. Init => TypeInv /\ BacklogInv
  BY TypeInit, BacklogInit
<1>2. (TypeInv /\ BacklogInv) /\ [Next]_vars => (TypeInv /\ BacklogInv)'
  BY TypeStep, BacklogStep
<1>3. TypeInv /\ BacklogInv => BacklogOrdered
  <2> SUFFICES ASSUME TypeInv, BacklogInv, NEW w \in Workers
               PROVE  /\ Len(queue[w]) <= kMaxQueue
                      /\ Increasing(queue[w])
                      /\ \A i \in DOMAIN queue[w] : hand[w] < queue[w][i] /\ queue[w][i] <= blk
    BY DEF BacklogOrdered
  <2>1. blk \in Nat /\ queue[w] \in Seq(Nat)
    BY ThreadTypes
  <2> QED BY <2>1 DEF BacklogInv, BacklogOf, Seen
<1> QED BY <1>1, <1>2, <1>3, PTL DEF Spec

-----------------------------------------------------------------------------
(* The stream each decoder sees.                                            *)

After(id, b) == \A i \in DOMAIN processed[id] : processed[id][i] < b

IdsInv ==
  /\ \A d \in decoders : d.id < nextId
  /\ \A d, e \in decoders : d.id = e.id => d = e
  /\ \A id \in Ids : id >= nextId => processed[id] = <<>>

(* A living decoder stays on the worker whose snapshot may hold it.         *)
SnapInv ==
  /\ \A w \in Workers : \A id \in snap[w] : id < nextId
  /\ \A w \in Workers : \A id \in snap[w] : \A d \in decoders : d.id = id => d.worker = w
  /\ OneProcessor

(* What worker w has in hand and in its backlog is newer than all that the  *)
(* decoders it holds, or is to serve, have processed.                       *)
Served(id, w) ==
  /\ wpc[w] = "popped" => After(id, hand[w])
  /\ \A j \in DOMAIN queue[w] : After(id, queue[w][j])
  /\ \A i \in DOMAIN processed[id] : Seen(w, processed[id][i])

PastInv ==
  /\ StreamInOrder
  /\ \A w \in Workers : \A id \in snap[w] : After(id, hand[w])
  /\ \A d \in decoders : Served(d.id, d.worker)

StreamInv == IdsInv /\ SnapInv /\ PastInv

FullInv == TypeInv /\ BacklogInv /\ StreamInv

LEMMA StreamInit == Init => StreamInv
<1> SUFFICES ASSUME Init PROVE StreamInv
  OBVIOUS
<1>1. IdsInv
  BY DEF Init, IdsInv
<1>2. SnapInv
  BY DEF Init, SnapInv, OneProcessor
<1>3. PastInv
  BY DEF Init, PastInv, StreamInOrder, Increasing, After
<1> QED BY <1>1, <1>2, <1>3 DEF StreamInv

LEMMA DecoderTypes ==
  ASSUME TypeInv
  PROVE  /\ \A d \in decoders : d.id \in Ids /\ d.worker \in Workers
         /\ \A id \in Ids : processed[id] \in Seq(Nat)
         /\ \A w \in Workers : snap[w] \subseteq Ids
         /\ \A w \in Workers : wpc[w] # "busy" => snap[w] = {}
<1>1. \A d \in decoders : d.id \in Ids /\ d.worker \in Workers
  BY DEF TypeInv, TypeOK, RegistryOK, DecoderRecord
<1>2. ASSUME NEW id \in Ids PROVE processed[id] \in Seq(Nat)
  <2>1. processed[id] \in Seq(Blocks) /\ Blocks \subseteq Nat
    BY BoundFacts DEF TypeInv, TypeOK, HistoryOK, Blocks
  <2> QED BY <2>1, SeqMonotonic
<1>3. \A w \in Workers : snap[w] \subseteq Ids
  BY DEF TypeInv, TypeOK, ThreadsOK
<1>4. \A w \in Workers : wpc[w] # "busy" => snap[w] = {}
  BY DEF TypeInv, HandOK
<1> QED BY <1>1, <1>2, <1>3, <1>4

(* feed() only ever moves on, except when it pushes.                        *)
LEMMA SeenMonotonic ==
  ASSUME TypeInv, [Next]_vars, ~feedPush
  PROVE  \A w \in Workers, b \in Nat : Seen(w, b) => Seen(w, b)'
<1>1. /\ blk \in Nat /\ fw \in Nat /\ Workers \subseteq Nat
  BY BoundFacts DEF TypeInv, TypeOK, FeederOK
<1>2. \/ UNCHANGED <<fpc, fw, blk>>
      \/ fpc' = "idle" /\ UNCHANGED <<fw, blk>>
      \/ fpc # "idle" /\ blk' = blk /\ fw' \in Nat /\ fw' >= fw
      \/ fpc = "idle" /\ blk' = blk + 1
  <2>1. CASE GuiCall \/ UNCHANGED vars
    BY <2>1 DEF GuiCall, configure, RegistryCall, addDecoder, addToCovering, addWithNewSubBand,
                removeDecoder, setDecoderFreq, removeAllBegin, startBegin, stopBegin, vars, feeder
  <2>2. CASE GuiContinue
    BY <2>2 DEF GuiContinue, removeAllFrom, startBuild, stopNotify, stopJoin, WalkDisturbed, feeder
  <2>3. CASE Feed
    BY <1>1, <2>3 DEF Feed, feedBegin, feedLook, feedEnd
  <2>4. CASE \E w \in Workers : worker(w) \/ workerSpurious(w)
    BY <2>4 DEF worker, workerLeave, workerPop, workerArm, workerSleep, workerSpurious,
                workerSnapshot, workerProcess, feeder
  <2> QED BY <2>1, <2>2, <2>3, <2>4 DEF Next
<1> SUFFICES ASSUME NEW w \in Workers, NEW b \in Nat, Seen(w, b) PROVE Seen(w, b)'
  OBVIOUS
<1>3. w \in Nat
  BY <1>1
<1> QED BY <1>1, <1>2, <1>3 DEF Seen

LEMMA StreamQuiet ==
  ASSUME TypeInv, StreamInv,
         UNCHANGED <<snap, processed, nextId, hand>>,
         \A e \in decoders' : \E d \in decoders : d.id = e.id /\ d.worker = e.worker,
         \A d, e \in decoders' : d.id = e.id => d = e,
         \A w \in Workers : queue'[w] = queue[w] \/ queue'[w] = <<>>,
         \A w \in Workers : wpc'[w] = "popped" => wpc[w] = "popped",
         \A w \in Workers, b \in Nat : Seen(w, b) => Seen(w, b)'
  PROVE  StreamInv'
<1>1. IdsInv'
  BY DEF StreamInv, IdsInv
<1>2. SnapInv'
  BY DEF StreamInv, SnapInv, OneProcessor
<1>3. ASSUME NEW e \in decoders' PROVE Served(e.id, e.worker)'
  <2>1. PICK d \in decoders : d.id = e.id /\ d.worker = e.worker
    OBVIOUS
  <2>2. Served(d.id, d.worker)
    BY DEF StreamInv, PastInv
  <2>3. d.id \in Ids /\ d.worker \in Workers /\ processed[d.id] \in Seq(Nat)
    BY DecoderTypes
  <2>4. \A i \in DOMAIN processed[d.id] : processed[d.id][i] \in Nat
    BY <2>3
  <2> QED BY <2>1, <2>2, <2>3, <2>4 DEF Served, After
<1>4. PastInv'
  BY <1>3 DEF StreamInv, PastInv, StreamInOrder, Increasing, After
<1> QED BY <1>1, <1>2, <1>4 DEF StreamInv

LEMMA AddStream ==
  ASSUME FullInv, NEW f \in Freqs, NEW b \in Bauds, addDecoder(f, b)
  PROVE  StreamInv'
<1> USE DEF FullInv
<1>1. /\ nextId \in Ids /\ UNCHANGED <<threads, feeder, control, processed>>
      /\ nextId' = nextId + 1
  <2>1. nextId <= MaxId /\ UNCHANGED <<threads, feeder, control, processed>>
    BY DEF addDecoder, addToCovering, addWithNewSubBand
  <2>2. nextId \in Ids
    BY <2>1, BoundFacts DEF TypeInv, TypeOK, RegistryOK, Ids
  <2>3. nextId' = nextId + 1
    BY DEF addDecoder, addToCovering, addWithNewSubBand, Insert
  <2> QED BY <2>1, <2>2, <2>3
<1>2. PICK n : n.id = nextId /\ decoders' = decoders \union {n}
  BY DEF addDecoder, addToCovering, addWithNewSubBand, Insert
<1>3. nextId \in Nat /\ Ids \subseteq Nat
  BY <1>1, BoundFacts DEF Ids
<1>4. processed[nextId] = <<>>
  BY <1>1, <1>3 DEF StreamInv, IdsInv
<1>5. IdsInv'
  <2>1. \A d \in decoders : d.id < nextId /\ d.id \in Nat
    BY <1>3, DecoderTypes DEF StreamInv, IdsInv
  <2>2. \A d \in decoders' : d.id < nextId'
    BY <1>1, <1>2, <1>3, <2>1
  <2>3. \A d, e \in decoders' : d.id = e.id => d = e
    BY <1>2, <1>3, <2>1 DEF StreamInv, IdsInv
  <2>4. ASSUME NEW id \in Ids, id >= nextId' PROVE processed'[id] = <<>>
    <3>1. id >= nextId
      BY <1>1, <1>3, <2>4
    <3> QED BY <1>1, <3>1 DEF StreamInv, IdsInv
  <2> QED BY <2>2, <2>3, <2>4 DEF IdsInv
<1>6. SnapInv'
  <2>1. \A w \in Workers : \A id \in snap[w] : id < nextId /\ id \in Nat
    BY <1>3, DecoderTypes DEF StreamInv, SnapInv
  <2> QED BY <1>1, <1>2, <1>3, <2>1 DEF StreamInv, SnapInv, OneProcessor, threads
<1>7. PastInv'
  <2>1. Served(n.id, n.worker)'
    BY <1>1, <1>2, <1>4 DEF Served, After
  <2>2. \A d \in decoders : Served(d.id, d.worker)'
    BY <1>1 DEF StreamInv, PastInv, Served, After, Seen, threads, feeder
  <2>3. StreamInOrder' /\ \A w \in Workers : \A id \in snap'[w] : After(id, hand[w])'
    BY <1>1 DEF StreamInv, PastInv, StreamInOrder, Increasing, After, threads
  <2> QED BY <1>2, <2>1, <2>2, <2>3 DEF PastInv
<1> QED BY <1>5, <1>6, <1>7 DEF StreamInv

LEMMA PushStream ==
  ASSUME FullInv, feedPush
  PROVE  StreamInv'
<1> USE BoundFacts DEF FullInv
<1>1. /\ UNCHANGED <<blk, hand, snap, registry, control, history>>
      /\ fpc = "push" /\ fpc' = "look" /\ fw' = fw + 1 /\ wpc' = Notified(fw)
      /\ queue' = [queue EXCEPT ![fw] = Append(Trimmed(@), blk)]
  BY DEF feedPush
<1>2. fw \in Workers /\ queue \in [Workers -> Seq(Blocks)] /\ wpc \in [Workers -> WorkerStates]
      /\ blk \in Nat /\ Workers \subseteq Nat
  BY <1>1 DEF TypeInv, FeedOK, TypeOK, ThreadsOK, FeederOK
<1>3. \A w \in Workers : wpc'[w] = "popped" => wpc[w] = "popped"
  BY <1>1, <1>2 DEF Notified
<1>4. \A w \in Workers, b \in Nat : Seen(w, b) => Seen(w, b)'
  BY <1>1, <1>2 DEF Seen
<1>5. IdsInv' /\ SnapInv'
  BY <1>1 DEF StreamInv, IdsInv, SnapInv, OneProcessor, registry, history
<1>6. ASSUME NEW d \in decoders, NEW w \in Workers, w = d.worker PROVE Served(d.id, w)'
  <2>1. Served(d.id, w) /\ processed[d.id] \in Seq(Nat) /\ processed' = processed
    BY <1>1, <1>6, DecoderTypes DEF StreamInv, PastInv, history
  <2>2. \A i \in DOMAIN processed[d.id] : processed[d.id][i] \in Nat
    BY <2>1
  <2>3. \A j \in DOMAIN queue'[w] : After(d.id, queue'[w][j])
    <3>1. CASE w # fw
      BY <1>1, <1>2, <2>1, <3>1 DEF Served
    <3>2. CASE w = fw
      <4>1. After(d.id, blk)
        BY <1>1, <1>2, <2>1, <2>2, <3>2 DEF Served, Seen, After
      <4>2. queue[w] \in Seq(Nat)
        BY <2>1, ThreadTypes
      <4>3. \A j \in DOMAIN Trimmed(queue[w]) : After(d.id, Trimmed(queue[w])[j])
        <5>1. CASE Len(queue[w]) >= kMaxQueue
          <6>1. queue[w] # <<>> /\ Trimmed(queue[w]) = Tail(queue[w])
            BY <4>2, <5>1 DEF Trimmed
          <6>2. \A j \in DOMAIN Tail(queue[w]) :
                  Tail(queue[w])[j] = queue[w][j + 1] /\ j + 1 \in DOMAIN queue[w]
            BY <4>2, <6>1
          <6> QED BY <2>1, <6>1, <6>2 DEF Served
        <5>2. CASE ~(Len(queue[w]) >= kMaxQueue)
          BY <2>1, <5>2 DEF Served, Trimmed
        <5> QED BY <5>1, <5>2
      <4>4. Trimmed(queue[w]) \in Seq(Nat)
        BY <4>2 DEF Trimmed
      <4>5. queue'[w] = Append(Trimmed(queue[w]), blk)
        BY <1>1, <1>2, <3>2
      <4> HIDE DEF Trimmed
      <4>6. \A j \in DOMAIN Append(Trimmed(queue[w]), blk) :
              \/ j \in DOMAIN Trimmed(queue[w])
                 /\ Append(Trimmed(queue[w]), blk)[j] = Trimmed(queue[w])[j]
              \/ Append(Trimmed(queue[w]), blk)[j] = blk
        BY <1>2, <4>4
      <4> QED BY <4>1, <4>3, <4>5, <4>6
    <3> QED BY <3>1, <3>2
  <2> QED BY <1>1, <1>3, <1>4, <2>1, <2>2, <2>3 DEF Served, After
<1>7. PastInv'
  <2>1. \A d \in decoders' : Served(d.id, d.worker)'
    BY <1>1, <1>6, DecoderTypes DEF registry
  <2> QED BY <1>1, <2>1 DEF StreamInv, PastInv, StreamInOrder, Increasing, After, history
<1> QED BY <1>5, <1>7 DEF StreamInv

LEMMA PopStream ==
  ASSUME FullInv, NEW v \in Workers, workerPop(v)
  PROVE  StreamInv'
<1> USE DEF FullInv
<1>1. /\ UNCHANGED <<drops, snap, registry, feeder, control, history>>
      /\ wpc[v] = "check" /\ queue[v] # <<>>
      /\ hand' = [hand EXCEPT ![v] = Head(queue[v])]
      /\ queue' = [queue EXCEPT ![v] = Tail(@)]
      /\ wpc' = [wpc EXCEPT ![v] = "popped"]
  BY DEF workerPop, HandTaken, FrontBlock, Goto
<1>2. /\ queue \in [Workers -> Seq(Blocks)] /\ wpc \in [Workers -> WorkerStates]
      /\ hand \in [Workers -> 0 .. MaxBlocks]
  BY DEF TypeInv, TypeOK, ThreadsOK
<1>3. IdsInv' /\ SnapInv'
  BY <1>1 DEF StreamInv, IdsInv, SnapInv, OneProcessor, registry, history
<1>4. ASSUME NEW d \in decoders, NEW w \in Workers, w = d.worker PROVE Served(d.id, w)'
  <2>1. Served(d.id, w)
    BY <1>4 DEF StreamInv, PastInv
  <2>2. CASE w # v
    BY <1>1, <1>2, <2>1, <2>2 DEF Served, After, Seen, feeder, history
  <2>3. CASE w = v
    <3>1. queue[w] \in Seq(Nat) /\ queue[w] # <<>>
      BY <1>1, <2>1, <2>3, ThreadTypes
    <3>2. /\ 1 \in DOMAIN queue[w] /\ Head(queue[w]) = queue[w][1]
          /\ \A j \in DOMAIN Tail(queue[w]) :
               Tail(queue[w])[j] = queue[w][j + 1] /\ j + 1 \in DOMAIN queue[w]
      BY <3>1
    <3>3. queue'[w] = Tail(queue[w]) /\ hand'[w] = Head(queue[w])
      BY <1>1, <1>2, <2>3
    <3>4. After(d.id, hand'[w]) /\ \A j \in DOMAIN queue'[w] : After(d.id, queue'[w][j])
      BY <2>1, <3>2, <3>3 DEF Served
    <3> QED BY <1>1, <2>1, <3>4 DEF Served, After, Seen, feeder, history
  <2> QED BY <2>2, <2>3
<1>5. ASSUME NEW w \in Workers, NEW id \in snap[w] PROVE After(id, hand[w])'
  <2>1. w # v
    BY <1>1, DecoderTypes
  <2>2. hand'[w] = hand[w] /\ processed' = processed
    BY <1>1, <1>2, <2>1 DEF history
  <2> QED BY <2>2 DEF StreamInv, PastInv, After
<1>6. StreamInOrder'
  BY <1>1 DEF StreamInv, PastInv, StreamInOrder, Increasing, history
<1>7. PastInv'
  <2>1. \A d \in decoders' : Served(d.id, d.worker)'
    BY <1>1, <1>4, DecoderTypes DEF registry
  <2>2. \A w \in Workers : \A id \in snap'[w] : After(id, hand[w])'
    BY <1>1, <1>5
  <2> QED BY <1>6, <2>1, <2>2 DEF PastInv
<1> QED BY <1>3, <1>7 DEF StreamInv

LEMMA SnapshotStream ==
  ASSUME FullInv, NEW v \in Workers, workerSnapshot(v)
  PROVE  StreamInv'
<1> USE DEF FullInv
<1>1. /\ UNCHANGED <<queue, hand, registry, feeder, history>>
      /\ wpc[v] = "popped" /\ wpc' = [wpc EXCEPT ![v] = "busy"]
      /\ snap' = [snap EXCEPT ![v] = SnapshotOf(v)]
  BY DEF workerSnapshot, Goto
<1>2. snap \in [Workers -> SUBSET Ids] /\ wpc \in [Workers -> WorkerStates]
  BY DEF TypeInv, TypeOK, ThreadsOK
<1>3. \A id \in SnapshotOf(v) : \E d \in decoders : d.id = id /\ d.worker = v
  BY DEF SnapshotOf, DecodersOn
<1>4. IdsInv'
  BY <1>1 DEF StreamInv, IdsInv, registry, history
<1>5. SnapInv'
  <2>1. \A w \in Workers : \A id \in snap'[w] : id < nextId
    BY <1>1, <1>2, <1>3 DEF StreamInv, IdsInv, SnapInv
  <2>2. \A w \in Workers : \A id \in snap'[w] : \A d \in decoders : d.id = id => d.worker = w
    BY <1>1, <1>2, <1>3 DEF StreamInv, IdsInv, SnapInv
  <2>3. OneProcessor'
    BY <1>1, <1>2, <1>3 DEF StreamInv, SnapInv, OneProcessor
  <2> QED BY <1>1, <2>1, <2>2, <2>3 DEF SnapInv, registry
<1>6. PastInv'
  <2>1. ASSUME NEW d \in decoders PROVE Served(d.id, d.worker)'
    <3>1. Served(d.id, d.worker) /\ d.worker \in Workers
      BY DecoderTypes DEF StreamInv, PastInv
    <3>2. wpc'[d.worker] = "popped" => wpc[d.worker] = "popped"
      BY <1>1, <1>2, <3>1
    <3> QED BY <1>1, <3>1, <3>2 DEF Served, After, Seen, feeder, history
  <2>2. ASSUME NEW w \in Workers, NEW id \in snap'[w] PROVE After(id, hand[w])
    <3>1. CASE w # v
      BY <1>1, <1>2, <2>2, <3>1 DEF StreamInv, PastInv
    <3>2. CASE w = v
      <4>1. PICK d \in decoders : d.id = id /\ d.worker = v
        BY <1>1, <1>2, <1>3, <2>2, <3>2
      <4>2. Served(d.id, v)
        BY <4>1 DEF StreamInv, PastInv
      <4> QED BY <1>1, <3>2, <4>1, <4>2 DEF Served
    <3> QED BY <3>1, <3>2
  <2>3. StreamInOrder'
    BY <1>1 DEF StreamInv, PastInv, StreamInOrder, Increasing, history
  <2> QED BY <1>1, <2>1, <2>2, <2>3 DEF PastInv, After, registry, history
<1> QED BY <1>4, <1>5, <1>6 DEF StreamInv

LEMMA ProcessStream ==
  ASSUME FullInv, NEW v \in Workers, workerProcess(v)
  PROVE  StreamInv'
<1> USE DEF FullInv
<1>1. /\ UNCHANGED <<queue, registry, feeder>>
      /\ wpc[v] = "busy" /\ wpc' = [wpc EXCEPT ![v] = "check"]
      /\ hand' = [hand EXCEPT ![v] = 0]
      /\ snap' = [snap EXCEPT ![v] = {}]
      /\ \A id \in Ids : id \in snap[v] => processed'[id] = Append(processed[id], hand[v])
      /\ \A id \in Ids : id \notin snap[v] => processed'[id] = processed[id]
  BY DEF workerProcess, Goto
<1>2. /\ snap \in [Workers -> SUBSET Ids] /\ wpc \in [Workers -> WorkerStates]
      /\ hand \in [Workers -> 0 .. MaxBlocks]
  BY DEF TypeInv, TypeOK, ThreadsOK
<1>3. hand[v] \in Nat
  BY ThreadTypes
<1>4. SnapInv'
  <2>1. \A w \in Workers : snap'[w] \subseteq snap[w]
    BY <1>1, <1>2
  <2> QED BY <1>1, <2>1 DEF StreamInv, SnapInv, OneProcessor, registry
<1>5. IdsInv'
  <2>1. ASSUME NEW id \in Ids, id >= nextId PROVE processed'[id] = <<>>
    <3>1. id \notin snap[v]
      <4>1. id \in Nat /\ nextId \in Nat
        BY BoundFacts DEF Ids, TypeInv, TypeOK, RegistryOK
      <4> QED BY <2>1, <4>1 DEF StreamInv, SnapInv
    <3> QED BY <1>1, <2>1, <3>1 DEF StreamInv, IdsInv
  <2> QED BY <1>1, <2>1 DEF StreamInv, IdsInv, registry
<1>6. StreamInOrder'
  <2> SUFFICES ASSUME NEW id \in Ids PROVE Increasing(processed'[id])
    BY DEF StreamInOrder, Increasing
  <2>1. processed[id] \in Seq(Nat) /\ Increasing(processed[id])
    BY DecoderTypes DEF StreamInv, PastInv, StreamInOrder
  <2>2. CASE id \in snap[v]
    BY <1>1, <1>3, <2>1, <2>2, AppendOrdered DEF StreamInv, PastInv, After
  <2>3. CASE id \notin snap[v]
    BY <1>1, <2>1, <2>3
  <2> QED BY <2>2, <2>3
<1>7. ASSUME NEW w \in Workers, NEW id \in snap'[w] PROVE After(id, hand[w])'
  <2>1. w # v /\ id \in snap[w] /\ id \in Ids
    BY <1>1, <1>2, <1>7
  <2>2. id \notin snap[v]
    BY <2>1 DEF StreamInv, SnapInv, OneProcessor
  <2>3. processed'[id] = processed[id] /\ hand'[w] = hand[w]
    BY <1>1, <1>2, <2>1, <2>2
  <2> QED BY <2>1, <2>3 DEF StreamInv, PastInv, After
<1>8. ASSUME NEW d \in decoders, NEW w \in Workers, w = d.worker PROVE Served(d.id, w)'
  <2>1. Served(d.id, w) /\ d.id \in Ids /\ processed[d.id] \in Seq(Nat)
    BY <1>8, DecoderTypes DEF StreamInv, PastInv
  <2>2. wpc'[w] = "popped" => wpc[w] = "popped" /\ w # v
    BY <1>1, <1>2
  <2>3. CASE d.id \notin snap[v]
    <3>1. processed'[d.id] = processed[d.id] /\ (w # v => hand'[w] = hand[w])
      BY <1>1, <1>2, <2>1, <2>3
    <3> QED BY <1>1, <2>1, <2>2, <3>1 DEF Served, After, Seen, feeder
  <2>4. CASE d.id \in snap[v]
    <3>1. w = v
      BY <1>8, <2>4 DEF StreamInv, SnapInv
    <3>2. processed'[d.id] = Append(processed[d.id], hand[w])
      BY <1>1, <2>1, <2>4, <3>1
    <3>3. /\ \A j \in DOMAIN queue[w] : hand[w] < queue[w][j]
          /\ Seen(w, hand[w])
      BY DEF BacklogInv, BacklogOf
    <3>4. \A i \in DOMAIN processed'[d.id] :
            \/ i \in DOMAIN processed[d.id] /\ processed'[d.id][i] = processed[d.id][i]
            \/ processed'[d.id][i] = hand[w]
      BY <1>3, <2>1, <3>1, <3>2
    <3>5. wpc'[w] # "popped"
      BY <2>2, <3>1
    <3> QED BY <1>1, <2>1, <3>3, <3>4, <3>5 DEF Served, After, Seen, feeder
  <2> QED BY <2>3, <2>4
<1>9. PastInv'
  <2>1. \A d \in decoders' : Served(d.id, d.worker)'
    BY <1>1, <1>8, DecoderTypes DEF registry
  <2>2. \A w \in Workers : \A id \in snap'[w] : After(id, hand[w])'
    BY <1>7
  <2> QED BY <1>6, <2>1, <2>2 DEF PastInv
<1> QED BY <1>4, <1>5, <1>9 DEF StreamInv

LEMMA StreamStep == FullInv /\ [Next]_vars => StreamInv'
<1> SUFFICES ASSUME FullInv, [Next]_vars PROVE StreamInv'
  OBVIOUS
<1> DEFINE Quiet ==
      /\ UNCHANGED <<snap, processed, nextId, hand>>
      /\ \A e \in decoders' : \E d \in decoders : d.id = e.id /\ d.worker = e.worker
      /\ \A d, e \in decoders' : d.id = e.id => d = e
      /\ \A w \in Workers : queue'[w] = queue[w] \/ queue'[w] = <<>>
      /\ \A w \in Workers : wpc'[w] = "popped" => wpc[w] = "popped"
<1>1. ASSUME Quiet, ~feedPush PROVE StreamInv'
  BY <1>1, SeenMonotonic, StreamQuiet DEF FullInv
<1>2. /\ \A d, e \in decoders : d.id = e.id => d = e
      /\ queue \in [Workers -> Seq(Blocks)] /\ wpc \in [Workers -> WorkerStates]
      /\ hand \in [Workers -> 0 .. MaxBlocks] /\ decoders \subseteq DecoderRecord
  BY DEF FullInv, StreamInv, IdsInv, TypeInv, TypeOK, ThreadsOK, RegistryOK
<1>n. CASE feedPush
  BY <1>n, PushStream
<1>m. SUFFICES ASSUME ~feedPush PROVE StreamInv'
  BY <1>n
<1>3. CASE UNCHANGED <<nextId, decoders, threads, processed>>
  BY <1>1, <1>2, <1>3, <1>m DEF threads
<1>4. CASE \E id \in Ids : removeDecoder(id)
  BY <1>1, <1>2, <1>4, <1>m DEF removeDecoder, threads, history
<1>5. CASE \E id \in Ids, f \in Freqs : setDecoderFreq(id, f)
  <2>1. PICK d \in decoders, f \in Freqs :
          decoders' = (decoders \ {d}) \union {[d EXCEPT !.freq = f]}
    BY <1>5 DEF setDecoderFreq
  <2>2. [d EXCEPT !.freq = f].id = d.id /\ [d EXCEPT !.freq = f].worker = d.worker
    BY <1>2 DEF DecoderRecord
  <2>3. UNCHANGED <<nextId, threads, history>>
    BY <1>5 DEF setDecoderFreq
  <2> QED BY <1>1, <1>2, <2>1, <2>2, <2>3, <1>m DEF threads, history
<1>6. CASE \E w \in Workers : removeAllFrom(w)
  BY <1>1, <1>2, <1>6, <1>m DEF removeAllFrom, BacklogCleared
<1>7. CASE startBuild \/ stopNotify \/ stopJoin
  BY <1>1, <1>2, <1>7, <1>m DEF startBuild, stopNotify, stopJoin, registry, history
<1>8. CASE \E w \in Workers : workerLeave(w) \/ workerArm(w) \/ workerSleep(w) \/ workerSpurious(w)
  BY <1>1, <1>2, <1>8, <1>m
     DEF workerLeave, workerArm, workerSleep, workerSpurious, Goto, registry, history
<1>9. CASE \E f \in Freqs, b \in Bauds : addDecoder(f, b)
  BY <1>9, AddStream
<1>10. CASE \E w \in Workers : workerPop(w) \/ workerSnapshot(w) \/ workerProcess(w)
  BY <1>10, PopStream, SnapshotStream, ProcessStream
<1>11. CASE feedBegin \/ feedLook \/ feedEnd
  BY <1>3, <1>11 DEF feedBegin, feedLook, feedEnd, registry, history
<1>12. CASE (\E f \in Freqs : configure(f)) \/ removeAllBegin \/ startBegin \/ stopBegin
  BY <1>3, <1>12 DEF configure, removeAllBegin, startBegin, stopBegin, registry, history
<1>13. CASE UNCHANGED vars
  BY <1>3, <1>13 DEF vars, registry, history
<1> HIDE DEF Quiet
<1> QED BY <1>4, <1>5, <1>6, <1>7, <1>8, <1>9, <1>10, <1>11, <1>12, <1>13, <1>m
        DEF Next, GuiCall, RegistryCall, GuiContinue, Feed, worker

LEMMA FullAlways == Spec => []FullInv
<1>1. Init => FullInv
  BY TypeInit, BacklogInit, StreamInit DEF FullInv
<1>2. FullInv /\ [Next]_vars => FullInv'
  BY TypeStep, BacklogStep, StreamStep DEF FullInv
<1> QED BY <1>1, <1>2, PTL DEF Spec

(* No decoder is in process() on two worker threads at once, although the   *)
(* workers process outside every lock (l.299-316) and the GUI removes,      *)
(* rebuilds and re-creates decoders at any moment.                          *)
THEOREM OneProcessorAlways == Spec => []OneProcessor
<1>1. FullInv => OneProcessor
  BY DEF FullInv, StreamInv, SnapInv
<1> QED BY <1>1, FullAlways, PTL

(* Every decoder processes the stream in order and no block twice, across   *)
(* dropped blocks, retunes and restarts of the pool.                        *)
THEOREM StreamInOrderAlways == Spec => []StreamInOrder
<1>1. FullInv => StreamInOrder
  BY DEF FullInv, StreamInv, PastInv
<1> QED BY <1>1, FullAlways, PTL

-----------------------------------------------------------------------------
(* Stale blocks.                                                            *)

(* The stale blocks a decoder may meet are the one its worker had in hand   *)
(* when the queue was emptied, and the one feed() was about to push.        *)
StaleInv ==
  /\ \A w \in Workers : cut[w] <= blk
  /\ \A w \in Workers : \A i \in DOMAIN queue[w] : queue[w][i] >= cut[w]
  /\ \A d \in decoders : since[d.id] = cut[d.worker]
  /\ \A d \in decoders :
       wpc[d.worker] = "popped" /\ processed[d.id] # <<>> => hand[d.worker] >= since[d.id]
  /\ \A w \in Workers : \A id \in snap[w] : processed[id] # <<>> => hand[w] >= since[id]
  /\ \A id \in Ids : \A i \in DOMAIN processed[id] : i > 1 => processed[id][i] >= since[id]

LEMMA LossTypes ==
  ASSUME TypeInv
  PROVE  /\ blk \in Nat /\ drops \in Nat /\ fw \in Nat /\ nextId \in Nat
         /\ Workers \subseteq Nat /\ Ids \subseteq Nat /\ Blocks \subseteq Nat
         /\ cut \in [Workers -> Nat] /\ since \in [Ids -> Nat] /\ born \in [Ids -> Nat]
         /\ hand \in [Workers -> Nat] /\ queue \in [Workers -> Seq(Blocks)]
         /\ wpc \in [Workers -> WorkerStates] /\ snap \in [Workers -> SUBSET Ids]
         /\ processed \in [Ids -> Seq(Blocks)]
         /\ \A d \in decoders : d.id \in Ids /\ d.worker \in Workers
<1> USE BoundFacts
<1>1. Ids \subseteq Nat /\ Blocks \subseteq Nat /\ 0 .. MaxBlocks \subseteq Nat
  BY DEF Ids, Blocks
<1>2. blk \in Nat /\ drops \in Nat /\ fw \in Nat /\ nextId \in Nat
  BY DEF TypeInv, TypeOK, RegistryOK, ThreadsOK, FeederOK
<1>3. /\ hand \in [Workers -> Nat] /\ queue \in [Workers -> Seq(Blocks)]
      /\ wpc \in [Workers -> WorkerStates] /\ snap \in [Workers -> SUBSET Ids]
  BY <1>1 DEF TypeInv, TypeOK, ThreadsOK
<1>4. /\ cut \in [Workers -> Nat] /\ since \in [Ids -> Nat] /\ born \in [Ids -> Nat]
      /\ processed \in [Ids -> Seq(Blocks)]
  BY <1>1 DEF TypeInv, TypeOK, HistoryOK
<1> QED BY <1>1, <1>2, <1>3, <1>4, DecoderTypes

LEMMA StaleInit == Init => StaleInv
BY BoundFacts DEF Init, StaleInv

(* A step that empties no queue of its stale blocks can only forget.        *)
LEMMA StaleQuiet ==
  ASSUME TypeInv, StaleInv, UNCHANGED <<processed, snap, hand, since, cut>>,
         blk' \in Nat, blk' >= blk,
         \A w \in Workers : queue'[w] = queue[w] \/ queue'[w] = <<>>,
         \A e \in decoders' : \E d \in decoders : d.id = e.id /\ d.worker = e.worker,
         \A w \in Workers : wpc'[w] = "popped" => wpc[w] = "popped"
  PROVE  StaleInv'
<1>1. \A w \in Workers : cut'[w] <= blk'
  BY LossTypes DEF StaleInv
<1>2. \A w \in Workers : \A i \in DOMAIN queue'[w] : queue'[w][i] >= cut'[w]
  BY DEF StaleInv
<1>3. ASSUME NEW e \in decoders'
      PROVE  /\ since'[e.id] = cut'[e.worker]
             /\ wpc'[e.worker] = "popped" /\ processed'[e.id] # <<>> => hand'[e.worker] >= since'[e.id]
  <2>1. PICK d \in decoders : d.id = e.id /\ d.worker = e.worker
    OBVIOUS
  <2>2. d.worker \in Workers
    BY LossTypes
  <2> QED BY <2>1, <2>2 DEF StaleInv
<1> QED BY <1>1, <1>2, <1>3 DEF StaleInv

LEMMA AddStale ==
  ASSUME FullInv, StaleInv, NEW f \in Freqs, NEW b \in Bauds, addDecoder(f, b)
  PROVE  StaleInv'
<1> USE DEF FullInv
<1>1. PICK s : s.worker \in Workers /\ Insert(s, f, b) /\ nextId <= MaxId
              /\ UNCHANGED <<threads, feeder, control, processed, cut>>
  <2>1. \A s \in subbands : s.worker \in Workers
    BY DEF TypeInv, TypeOK, RegistryOK, SubBandRecord
  <2>2. CASE addToCovering(f, b)
    BY <2>1, <2>2 DEF addToCovering, Covering
  <2>3. CASE addWithNewSubBand(f, b)
    <3>1. PICK w \in Workers : Insert([key |-> nextId, worker |-> w, center |-> f, wide |-> wide], f, b)
      BY <2>3 DEF addWithNewSubBand
    <3> QED BY <2>3, <3>1 DEF addWithNewSubBand
  <2> QED BY <2>2, <2>3 DEF addDecoder
<1> DEFINE n == [id |-> nextId, worker |-> s.worker, sb |-> s.key, freq |-> f, baud |-> b]
<1>2. /\ decoders' = decoders \union {n}
      /\ since' = [since EXCEPT ![nextId] = cut[s.worker]]
  BY <1>1 DEF Insert
<1>3. nextId \in Ids /\ processed[nextId] = <<>>
  BY <1>1, LossTypes, BoundFacts DEF StreamInv, IdsInv, TypeInv, TypeOK, RegistryOK, Ids
<1>4. /\ \A d \in decoders : d.id # nextId /\ d.id \in Ids /\ d.worker \in Workers
      /\ \A w \in Workers : nextId \notin snap[w]
  BY LossTypes DEF StreamInv, IdsInv, SnapInv
<1>5. \A id \in Ids : id # nextId => since'[id] = since[id]
  BY <1>2, LossTypes
<1>6. since'[nextId] = cut[s.worker]
  BY <1>2, <1>3, LossTypes
<1>7. \A w \in Workers : snap[w] \subseteq Ids
  BY LossTypes
<1>8. \A d \in decoders' : since'[d.id] = cut'[d.worker]
  BY <1>1, <1>2, <1>4, <1>5, <1>6 DEF StaleInv
<1>9. \A d \in decoders' :
        wpc'[d.worker] = "popped" /\ processed'[d.id] # <<>> => hand'[d.worker] >= since'[d.id]
  <2>1. processed'[n.id] = <<>>
    BY <1>1, <1>3
  <2>2. \A d \in decoders :
          wpc'[d.worker] = "popped" /\ processed'[d.id] # <<>> => hand'[d.worker] >= since'[d.id]
    BY <1>1, <1>4, <1>5 DEF StaleInv, threads
  <2> QED BY <1>2, <2>1, <2>2
<1>10. \A w \in Workers : \A id \in snap'[w] : processed'[id] # <<>> => hand'[w] >= since'[id]
  BY <1>1, <1>4, <1>5, <1>7 DEF StaleInv, threads
<1>11. \A id \in Ids : \A i \in DOMAIN processed'[id] : i > 1 => processed'[id][i] >= since'[id]
  BY <1>1, <1>3, <1>5 DEF StaleInv
<1>12. /\ \A w \in Workers : cut'[w] <= blk'
       /\ \A w \in Workers : \A i \in DOMAIN queue'[w] : queue'[w][i] >= cut'[w]
  BY <1>1 DEF StaleInv, threads, feeder
<1> QED BY <1>8, <1>9, <1>10, <1>11, <1>12 DEF StaleInv

LEMMA PushStale ==
  ASSUME TypeInv, StaleInv, feedPush
  PROVE  StaleInv'
<1>1. /\ UNCHANGED <<blk, hand, snap, decoders, processed, since, cut>>
      /\ queue' = [queue EXCEPT ![fw] = Append(Trimmed(@), blk)] /\ wpc' = Notified(fw)
      /\ fw \in Workers
  BY DEF feedPush, registry, history, TypeInv, FeedOK
<1>2. \A w \in Workers : wpc'[w] = "popped" => wpc[w] = "popped"
  BY <1>1, LossTypes DEF Notified
<1>3. ASSUME NEW w \in Workers, NEW i \in DOMAIN queue'[w] PROVE queue'[w][i] >= cut[w]
  <2>1. \A j \in DOMAIN queue[w] : queue[w][j] >= cut[w]
    BY DEF StaleInv
  <2>2. queue[w] \in Seq(Nat) /\ blk >= cut[w]
    BY ThreadTypes DEF StaleInv
  <2>3. CASE w # fw
    BY <1>1, <1>3, <2>1, <2>3, LossTypes
  <2>4. CASE w = fw
    <3>1. queue'[w] = Append(Trimmed(queue[w]), blk)
      BY <1>1, <2>4, LossTypes
    <3>2. /\ Trimmed(queue[w]) \in Seq(Nat)
          /\ \A j \in DOMAIN Trimmed(queue[w]) : Trimmed(queue[w])[j] >= cut[w]
      <4>1. CASE Trimmed(queue[w]) = queue[w]
        BY <2>1, <2>2, <4>1
      <4>2. CASE queue[w] # <<>> /\ Trimmed(queue[w]) = Tail(queue[w])
        BY <2>1, <2>2, <4>2
      <4> QED BY <2>2, <4>1, <4>2, BoundFacts DEF Trimmed
    <3>3. CASE i = Len(Trimmed(queue[w])) + 1
      BY <2>2, <3>1, <3>2, <3>3, LossTypes
    <3>4. CASE i \in DOMAIN Trimmed(queue[w])
      BY <3>1, <3>2, <3>4, LossTypes
    <3> QED BY <1>3, <3>1, <3>2, <3>3, <3>4, LossTypes
  <2> QED BY <2>3, <2>4
<1>4. \A w \in Workers : cut'[w] <= blk'
  BY <1>1 DEF StaleInv
<1>5. \A d \in decoders' :
        wpc'[d.worker] = "popped" /\ processed'[d.id] # <<>> => hand'[d.worker] >= since'[d.id]
  BY <1>1, <1>2, LossTypes DEF StaleInv
<1> QED BY <1>1, <1>3, <1>4, <1>5 DEF StaleInv

LEMMA PopStale ==
  ASSUME FullInv, StaleInv, NEW v \in Workers, workerPop(v)
  PROVE  StaleInv'
<1> USE DEF FullInv
<1>1. /\ UNCHANGED <<blk, snap, decoders, processed, since, cut>>
      /\ wpc[v] = "check" /\ queue[v] # <<>>
      /\ hand' = [hand EXCEPT ![v] = Head(queue[v])]
      /\ queue' = [queue EXCEPT ![v] = Tail(@)]
      /\ wpc' = [wpc EXCEPT ![v] = "popped"]
  BY DEF workerPop, HandTaken, FrontBlock, Goto, registry, feeder, history
<1>2. queue[v] \in Seq(Nat) /\ \A j \in DOMAIN queue[v] : queue[v][j] >= cut[v]
  BY ThreadTypes DEF StaleInv
<1>3. Head(queue[v]) >= cut[v] /\ \A j \in DOMAIN Tail(queue[v]) : Tail(queue[v])[j] >= cut[v]
  BY <1>1, <1>2
<1>4. snap[v] = {}
  BY <1>1 DEF TypeInv, HandOK
<1>5. \A w \in Workers : \A i \in DOMAIN queue'[w] : queue'[w][i] >= cut'[w]
  BY <1>1, <1>3, LossTypes DEF StaleInv
<1>6. ASSUME NEW d \in decoders, wpc'[d.worker] = "popped", processed[d.id] # <<>>
      PROVE  hand'[d.worker] >= since[d.id]
  <2>1. since[d.id] = cut[d.worker] /\ d.worker \in Workers
    BY LossTypes DEF StaleInv
  <2> QED BY <1>1, <1>3, <1>6, <2>1, LossTypes DEF StaleInv
<1>7. \A w \in Workers : \A id \in snap'[w] : processed'[id] # <<>> => hand'[w] >= since'[id]
  BY <1>1, <1>4, LossTypes DEF StaleInv
<1> QED BY <1>1, <1>5, <1>6, <1>7 DEF StaleInv

LEMMA SnapshotStale ==
  ASSUME FullInv, StaleInv, NEW v \in Workers, workerSnapshot(v)
  PROVE  StaleInv'
<1> USE DEF FullInv
<1>1. /\ UNCHANGED <<queue, hand, blk, decoders, processed, since, cut>>
      /\ wpc[v] = "popped" /\ wpc' = [wpc EXCEPT ![v] = "busy"]
      /\ snap' = [snap EXCEPT ![v] = SnapshotOf(v)]
  BY DEF workerSnapshot, Goto, registry, feeder, history
<1>2. ASSUME NEW w \in Workers, NEW id \in snap'[w], processed[id] # <<>>
      PROVE  hand[w] >= since[id]
  <2>1. CASE w = v
    <3>1. PICK d \in decoders : d.id = id /\ d.worker = v
      BY <1>1, <1>2, <2>1, LossTypes DEF SnapshotOf, DecodersOn
    <3> QED BY <1>1, <1>2, <2>1, <3>1 DEF StaleInv
  <2>2. CASE w # v
    BY <1>1, <1>2, <2>2, LossTypes DEF StaleInv
  <2> QED BY <2>1, <2>2
<1>3. \A d \in decoders :
        wpc'[d.worker] = "popped" /\ processed[d.id] # <<>> => hand[d.worker] >= since[d.id]
  BY <1>1, LossTypes DEF StaleInv
<1> QED BY <1>1, <1>2, <1>3 DEF StaleInv

LEMMA ProcessStale ==
  ASSUME FullInv, StaleInv, NEW v \in Workers, workerProcess(v)
  PROVE  StaleInv'
<1> USE DEF FullInv
<1>1. /\ UNCHANGED <<queue, decoders, blk, since, cut>>
      /\ wpc[v] = "busy" /\ wpc' = [wpc EXCEPT ![v] = "check"]
      /\ hand' = [hand EXCEPT ![v] = 0]
      /\ snap' = [snap EXCEPT ![v] = {}]
      /\ \A id \in Ids : id \in snap[v] => processed'[id] = Append(processed[id], hand[v])
      /\ \A id \in Ids : id \notin snap[v] => processed'[id] = processed[id]
  BY DEF workerProcess, Goto, registry, feeder
<1>2. ASSUME NEW d \in decoders, wpc'[d.worker] = "popped", processed'[d.id] # <<>>
      PROVE  hand'[d.worker] >= since[d.id]
  <2>1. d.id \in Ids /\ d.worker \in Workers /\ d.worker # v
    BY <1>1, <1>2, LossTypes
  <2>2. d.id \notin snap[v]
    BY <2>1 DEF StreamInv, SnapInv
  <2> QED BY <1>1, <1>2, <2>1, <2>2, LossTypes DEF StaleInv
<1>3. ASSUME NEW w \in Workers, NEW id \in snap'[w], processed'[id] # <<>>
      PROVE  hand'[w] >= since[id]
  <2>1. w # v /\ id \in snap[w] /\ id \in Ids
    BY <1>1, <1>3, LossTypes
  <2>2. id \notin snap[v]
    BY <2>1 DEF StreamInv, SnapInv, OneProcessor
  <2> QED BY <1>1, <1>3, <2>1, <2>2, LossTypes DEF StaleInv
<1>4. ASSUME NEW id \in Ids, NEW i \in DOMAIN processed'[id], i > 1
      PROVE  processed'[id][i] >= since[id]
  <2>1. processed[id] \in Seq(Nat) /\ hand[v] \in Nat
    BY ThreadTypes, DecoderTypes
  <2>2. CASE i \in DOMAIN processed[id] /\ processed'[id][i] = processed[id][i]
    BY <1>1, <1>4, <2>2 DEF StaleInv
  <2>3. CASE id \in snap[v] /\ i \notin DOMAIN processed[id]
    <3>1. processed'[id][i] = hand[v] /\ processed[id] # <<>>
      BY <1>1, <1>4, <2>1, <2>3
    <3> QED BY <1>1, <2>3, <3>1 DEF StaleInv
  <2>4. CASE id \notin snap[v]
    BY <1>1, <1>4, <2>2, <2>4
  <2>5. CASE id \in snap[v] /\ i \in DOMAIN processed[id]
    <3>1. processed'[id] = Append(processed[id], hand[v])
      BY <1>1, <2>5
    <3>2. processed'[id][i] = processed[id][i]
      BY <2>1, <2>5, <3>1
    <3> QED BY <2>2, <2>5, <3>2
  <2> QED BY <2>3, <2>4, <2>5
<1> QED BY <1>1, <1>2, <1>3, <1>4 DEF StaleInv

LEMMA EmptyStale ==
  ASSUME FullInv, StaleInv,
         (\E w \in Workers : removeAllFrom(w)) \/ startBuild
  PROVE  StaleInv'
<1> USE DEF FullInv
<1>1. UNCHANGED <<processed, snap, hand, since, blk>> /\ decoders' \subseteq decoders
  <2>1. CASE startBuild
    BY <2>1 DEF startBuild, registry
  <2>2. CASE \E w \in Workers : removeAllFrom(w)
    BY <2>2 DEF removeAllFrom, feeder
  <2> QED BY <2>1, <2>2
<1>2. CASE startBuild
  <2>1. /\ decoders = {} /\ decoders' = {} /\ \A w \in Workers : queue[w] = <<>>
        /\ queue' = queue /\ \A w \in Workers : cut'[w] = blk
    BY <1>1, <1>2 DEF startBuild, TypeInv, PoolOK
  <2> QED BY <1>1, <2>1, LossTypes DEF StaleInv
<1>3. ASSUME NEW w \in Workers, removeAllFrom(w) PROVE StaleInv'
  <2>1. /\ decoders' = decoders \ DecodersOn(w) /\ wpc' = wpc
        /\ queue' = [queue EXCEPT ![w] = <<>>] /\ cut' = [cut EXCEPT ![w] = blk]
    BY <1>3 DEF removeAllFrom, BacklogCleared
  <2>2. \A d \in decoders' : d \in decoders /\ d.worker # w /\ d.worker \in Workers
    BY <2>1, LossTypes DEF DecodersOn
  <2>3. \A d \in decoders' : cut'[d.worker] = cut[d.worker]
    BY <2>1, <2>2, LossTypes
  <2>4. \A u \in Workers : cut'[u] <= blk
    BY <2>1, LossTypes DEF StaleInv
  <2>5. \A u \in Workers : \A i \in DOMAIN queue'[u] : queue'[u][i] >= cut'[u]
    BY <2>1, LossTypes DEF StaleInv
  <2> QED BY <1>1, <2>1, <2>2, <2>3, <2>4, <2>5 DEF StaleInv
<1> QED BY <1>2, <1>3

LEMMA StaleStep == FullInv /\ StaleInv /\ [Next]_vars => StaleInv'
<1> SUFFICES ASSUME FullInv, StaleInv, [Next]_vars PROVE StaleInv'
  OBVIOUS
<1> DEFINE Quiet ==
      /\ UNCHANGED <<processed, snap, hand, since, cut>>
      /\ blk' \in Nat /\ blk' >= blk
      /\ \A w \in Workers : queue'[w] = queue[w] \/ queue'[w] = <<>>
      /\ \A e \in decoders' : \E d \in decoders : d.id = e.id /\ d.worker = e.worker
      /\ \A w \in Workers : wpc'[w] = "popped" => wpc[w] = "popped"
<1>1. ASSUME Quiet PROVE StaleInv'
  BY <1>1, StaleQuiet DEF FullInv
<1>2. /\ blk \in Nat /\ wpc \in [Workers -> WorkerStates] /\ decoders \subseteq DecoderRecord
  BY LossTypes DEF FullInv, TypeInv, TypeOK, RegistryOK
<1>3. CASE UNCHANGED <<decoders, threads, blk, history>>
  BY <1>1, <1>2, <1>3 DEF threads, history
<1>4. CASE \E id \in Ids : removeDecoder(id)
  BY <1>1, <1>2, <1>4 DEF removeDecoder, threads, feeder, history
<1>5. CASE \E id \in Ids, f \in Freqs : setDecoderFreq(id, f)
  <2>1. PICK d \in decoders, f \in Freqs :
          decoders' = (decoders \ {d}) \union {[d EXCEPT !.freq = f]}
    BY <1>5 DEF setDecoderFreq
  <2>2. [d EXCEPT !.freq = f].id = d.id /\ [d EXCEPT !.freq = f].worker = d.worker
    BY <1>2 DEF DecoderRecord
  <2>3. UNCHANGED <<threads, feeder, history>>
    BY <1>5 DEF setDecoderFreq
  <2>4. \A e \in decoders' : \E c \in decoders : c.id = e.id /\ c.worker = e.worker
    BY <2>1, <2>2
  <2> QED BY <1>1, <1>2, <2>3, <2>4 DEF threads, feeder, history
<1>6. CASE stopNotify \/ stopJoin
  BY <1>1, <1>2, <1>6 DEF stopNotify, stopJoin, registry, feeder, history
<1>7. CASE \E w \in Workers : workerLeave(w) \/ workerArm(w) \/ workerSleep(w) \/ workerSpurious(w)
  BY <1>1, <1>2, <1>7
     DEF workerLeave, workerArm, workerSleep, workerSpurious, Goto, registry, feeder, history
<1>8. CASE feedBegin \/ feedLook \/ feedEnd
  BY <1>1, <1>2, <1>8 DEF feedBegin, feedLook, feedEnd, registry, threads, history
<1>9. CASE (\E f \in Freqs : configure(f)) \/ removeAllBegin \/ startBegin \/ stopBegin
  BY <1>3, <1>9 DEF configure, removeAllBegin, startBegin, stopBegin, registry, feeder
<1>10. CASE UNCHANGED vars
  BY <1>3, <1>10 DEF vars, registry, feeder
<1>11. CASE (\E w \in Workers : removeAllFrom(w)) \/ startBuild
  BY <1>11, EmptyStale
<1>12. CASE \E f \in Freqs, b \in Bauds : addDecoder(f, b)
  BY <1>12, AddStale
<1>13. CASE feedPush
  BY <1>13, PushStale DEF FullInv
<1>14. CASE \E w \in Workers : workerPop(w) \/ workerSnapshot(w) \/ workerProcess(w)
  BY <1>14, PopStale, SnapshotStale, ProcessStale
<1> HIDE DEF Quiet
<1> QED BY <1>3, <1>4, <1>5, <1>6, <1>7, <1>8, <1>9, <1>10, <1>11, <1>12, <1>13, <1>14
        DEF Next, GuiCall, RegistryCall, GuiContinue, Feed, worker

(* In a strictly increasing sequence one element at most has a given value: *)
(* if only the first may lie below a bound, two at most do not exceed it.   *)
LEMMA TwoAtMost ==
  ASSUME NEW q \in Seq(Nat), NEW b \in Nat, Increasing(q),
         \A i \in DOMAIN q : i > 1 => q[i] >= b
  PROVE  Cardinality({i \in DOMAIN q : q[i] <= b}) <= 2
<1> DEFINE S == {i \in DOMAIN q : q[i] <= b}
<1>1. PICK k : S \subseteq {1} \union {k}
  <2>1. CASE \E k \in S : k > 1
    <3>1. PICK k \in S : k > 1
      BY <2>1
    <3>2. ASSUME NEW i \in S, i # 1 PROVE i = k
      <4>1. i \in Nat /\ k \in Nat /\ i > 1 /\ i \in DOMAIN q /\ k \in DOMAIN q
        BY <3>1, <3>2
      <4>2. q[i] = b /\ q[k] = b
        <5>1. q[i] \in Nat /\ q[k] \in Nat
          BY <4>1
        <5> QED BY <3>1, <4>1, <5>1
      <4> QED BY <4>1, <4>2 DEF Increasing
    <3>3. S \subseteq {1} \union {k}
      BY <3>2
    <3> QED BY <3>3
  <2>2. CASE \A k \in S : ~(k > 1)
    <3>1. S \subseteq {1} \union {1}
      BY <2>2
    <3> QED BY <3>1
  <2> QED BY <2>1, <2>2
<1> DEFINE One == {1}
           Two == One \union {k}
<1>2. IsFiniteSet(One) /\ Cardinality(One) = 1
  BY FS_Singleton
<1>3. S \in SUBSET Two
  BY <1>1
<1> HIDE DEF One
<1>4. IsFiniteSet(Two) /\ Cardinality(Two) <= 2
  <2>1. /\ IsFiniteSet(Two)
        /\ Cardinality(Two) = IF k \in One THEN Cardinality(One) ELSE Cardinality(One) + 1
    BY <1>2, FS_AddElement, Zenon
  <2> HIDE DEF Two
  <2> QED BY <1>2, <2>1
<1> HIDE DEF Two, S
<1>5. IsFiniteSet(S) /\ Cardinality(S) <= Cardinality(Two)
  BY <1>3, <1>4, FS_Subset, Zenon
<1>6. Cardinality(S) \in Nat /\ Cardinality(Two) \in Nat
  BY <1>4, <1>5, FS_CardinalityType
<1>7. Cardinality(S) <= 2
  BY <1>4, <1>5, <1>6
<1> QED BY <1>7 DEF S

(* A decoder made after removeAll() (every retune is one) processes at most *)
(* two blocks captured before it, however feed(), the workers and the GUI   *)
(* interleave (removeAll, l.208-224; feed, l.60-83; workerLoop, l.266-317). *)
THEOREM AtMostTwoStaleAlways == Spec => []AtMostTwoStale
<1>1. Init => FullInv /\ StaleInv
  BY TypeInit, BacklogInit, StreamInit, StaleInit DEF FullInv
<1>2. (FullInv /\ StaleInv) /\ [Next]_vars => (FullInv /\ StaleInv)'
  BY TypeStep, BacklogStep, StreamStep, StaleStep DEF FullInv
<1>3. FullInv /\ StaleInv => AtMostTwoStale
  <2> SUFFICES ASSUME FullInv, StaleInv, NEW id \in Ids
               PROVE  Cardinality({i \in DOMAIN processed[id] : processed[id][i] <= since[id]}) <= 2
    BY DEF AtMostTwoStale
  <2>1. processed[id] \in Seq(Nat) /\ since[id] \in Nat
    BY LossTypes, DecoderTypes DEF FullInv
  <2>2. Increasing(processed[id]) /\ \A i \in DOMAIN processed[id] : i > 1 => processed[id][i] >= since[id]
    BY DEF FullInv, StreamInv, PastInv, StreamInOrder, StaleInv
  <2> QED BY <2>1, <2>2, TwoAtMost
<1> QED BY <1>1, <1>2, <1>3, PTL DEF Spec

-----------------------------------------------------------------------------
(* No block is lost silently.                                               *)

(* How many of the first n elements of q lie above b; the blocks decoder id *)
(* has processed since it exists; the last block that could have reached    *)
(* worker w's queue; whether the block in its hand is newer than b.         *)
Above(q, b, n) == Cardinality({j \in 1 .. n : q[j] > b})
Done(id) == Above(processed[id], born[id], Len(processed[id]))
Top(w) == IF fpc # "idle" /\ fw <= w THEN blk - 1 ELSE blk
InHand(h, b) == IF h > b THEN 1 ELSE 0

(* A queue that ends at block t holds, back to block b, every block.        *)
Contiguous(q, t, b) == \A i \in DOMAIN q :
  IF q[i] > b THEN q[i] = t - Len(q) + i ELSE t - b <= Len(q) - i

(* What was fed since decoder id exists is queued, in hand, done or counted *)
(* in drops.                                                                *)
Accounted(id, w) ==
  /\ born[id] <= blk
  /\ Contiguous(queue[w], Top(w), born[id])
  /\ Top(w) - Len(queue[w]) - born[id] - Done(id) - InHand(hand[w], born[id]) <= drops
  /\ wpc[w] = "busy" /\ hand[w] > born[id] => id \in snap[w]

Gap(id, i) == processed[id][i] - born[id] - Above(processed[id], born[id], i)

GapsCounted == \A id \in Ids : \A i \in DOMAIN processed[id] :
  processed[id][i] > born[id] => Gap(id, i) <= drops

LossInv ==
  /\ \A d \in decoders : Accounted(d.id, d.worker)
  /\ \A w \in Workers : \A id \in snap[w] :
       hand[w] > born[id] => hand[w] - born[id] - (Done(id) + 1) <= drops
  /\ GapsCounted

LossFull == FullInv /\ CountInv /\ LossInv

LEMMA LossInit == Init => LossInv
BY BoundFacts DEF Init, LossInv, GapsCounted

LEMMA AboveNat ==
  ASSUME NEW q, NEW b, NEW n \in Nat
  PROVE  Above(q, b, n) \in Nat
<1> DEFINE S == {j \in 1 .. n : q[j] > b}
           D == 1 .. n
<1>1. IsFiniteSet(D)
  BY FS_Interval
<1>2. S \in SUBSET D
  OBVIOUS
<1> HIDE DEF S, D
<1>3. IsFiniteSet(S)
  BY <1>1, <1>2, FS_Subset, Zenon
<1>4. Cardinality(S) \in Nat
  BY <1>3, FS_CardinalityType
<1> QED BY <1>4 DEF S, Above

(* One more element, and what comes before it.                              *)
LEMMA AboveAppend ==
  ASSUME NEW q \in Seq(Nat), NEW b \in Nat, NEW h \in Nat
  PROVE  /\ Above(Append(q, h), b, Len(q) + 1) = Above(q, b, Len(q)) + InHand(h, b)
         /\ \A i \in DOMAIN q : Above(Append(q, h), b, i) = Above(q, b, i)
<1> DEFINE p == Append(q, h)
           n == Len(q) + 1
           S == {j \in 1 .. Len(q) : q[j] > b}
           T == {j \in 1 .. n : p[j] > b}
           D == 1 .. Len(q)
<1>1. /\ \A j \in 1 .. Len(q) : p[j] = q[j]
      /\ \A j \in 1 .. n : j \in 1 .. Len(q) \/ j = n
      /\ \A j \in 1 .. Len(q) : j \in 1 .. n
      /\ n \in 1 .. n /\ p[n] = h /\ n \notin 1 .. Len(q)
      /\ DOMAIN q = 1 .. Len(q) /\ Len(q) \in Nat
  OBVIOUS
<1> HIDE DEF p, n
<1>2. ASSUME NEW i \in DOMAIN q PROVE Above(p, b, i) = Above(q, b, i)
  <2>1. \A j \in 1 .. i : j \in 1 .. Len(q)
    BY <1>1
  <2>2. {j \in 1 .. i : p[j] > b} = {j \in 1 .. i : q[j] > b}
    BY <1>1, <2>1
  <2> QED BY <2>2, Zenon DEF Above
<1>3. IsFiniteSet(S) /\ Cardinality(S) \in Nat
  <2>1. IsFiniteSet(D)
    BY <1>1, FS_Interval
  <2>2. S \in SUBSET D
    OBVIOUS
  <2> HIDE DEF S, D
  <2>3. IsFiniteSet(S)
    BY <2>1, <2>2, FS_Subset, Zenon
  <2> QED BY <2>3, FS_CardinalityType
<1>4. Cardinality(T) = Cardinality(S) + InHand(h, b)
  <2>1. CASE h > b
    <3>1. T = S \union {n} /\ n \notin S
      BY <1>1, <2>1
    <3> HIDE DEF S, T
    <3>2. Cardinality(S \union {n}) = Cardinality(S) + 1
      BY <1>3, <3>1, FS_AddElement
    <3>3. Cardinality(T) = Cardinality(S) + 1
      BY <3>1, <3>2, Zenon
    <3> QED BY <2>1, <3>3 DEF InHand
  <2>2. CASE ~(h > b)
    <3>1. T = S
      BY <1>1, <2>2
    <3> HIDE DEF S, T
    <3>2. Cardinality(T) = Cardinality(S)
      BY <3>1, Zenon
    <3> QED BY <1>3, <2>2, <3>2 DEF InHand
  <2> QED BY <2>1, <2>2
<1>5. Above(p, b, n) = Cardinality(T) /\ Above(q, b, Len(q)) = Cardinality(S)
  BY Zenon DEF Above
<1> HIDE DEF S, T
<1>6. Above(p, b, n) = Above(q, b, Len(q)) + InHand(h, b)
  BY <1>4, <1>5
<1> QED BY <1>2, <1>6 DEF p, n

LEMMA LossNumbers ==
  ASSUME TypeInv
  PROVE  /\ \A id \in Ids : /\ Done(id) \in Nat /\ born[id] \in Nat
                            /\ processed[id] \in Seq(Nat)
                            /\ \A i \in DOMAIN processed[id] : Gap(id, i) \in Int
         /\ \A w \in Workers : /\ Top(w) \in Int /\ Top(w) <= blk
                               /\ hand[w] \in Nat /\ queue[w] \in Seq(Nat)
                               /\ w \in Nat
         /\ blk \in Nat /\ drops \in Nat /\ fw \in Nat
         /\ \A h, b : InHand(h, b) \in {0, 1}
<1>1. ASSUME NEW id \in Ids
      PROVE  /\ Done(id) \in Nat /\ born[id] \in Nat /\ processed[id] \in Seq(Nat)
             /\ \A i \in DOMAIN processed[id] : Gap(id, i) \in Int
  <2>1. processed[id] \in Seq(Nat) /\ born[id] \in Nat
    BY LossTypes, DecoderTypes
  <2>2. Done(id) \in Nat
    BY <2>1, AboveNat DEF Done
  <2>3. ASSUME NEW i \in DOMAIN processed[id] PROVE Gap(id, i) \in Int
    <3>1. i \in Nat /\ processed[id][i] \in Nat
      BY <2>1
    <3>2. Above(processed[id], born[id], i) \in Nat
      BY <3>1, AboveNat
    <3> QED BY <2>1, <3>1, <3>2 DEF Gap
  <2> QED BY <2>1, <2>2, <2>3
<1>2. ASSUME NEW w \in Workers
      PROVE  /\ Top(w) \in Int /\ Top(w) <= blk
             /\ hand[w] \in Nat /\ queue[w] \in Seq(Nat) /\ w \in Nat
  BY ThreadTypes DEF Top
<1>3. \A h, b : InHand(h, b) \in {0, 1}
  BY DEF InHand
<1> QED BY <1>1, <1>2, <1>3, LossTypes

(* A step that moves no block of a living decoder.                          *)
LEMMA LossQuiet ==
  ASSUME TypeInv, LossInv, UNCHANGED <<processed, snap, born, hand, drops>>, blk' \in Nat, blk' >= blk,
         \A e \in decoders' : \E d \in decoders :
           /\ d.id = e.id /\ d.worker = e.worker
           /\ queue'[e.worker] = queue[e.worker] /\ Top(e.worker)' = Top(e.worker)
           /\ wpc'[e.worker] = "busy" => wpc[e.worker] = "busy"
  PROVE  LossInv'
<1>1. \A id : Done(id)' = Done(id)
  BY DEF Done
<1>2. ASSUME NEW e \in decoders' PROVE Accounted(e.id, e.worker)'
  <2>1. PICK d \in decoders :
           /\ d.id = e.id /\ d.worker = e.worker
           /\ queue'[e.worker] = queue[e.worker] /\ Top(e.worker)' = Top(e.worker)
           /\ wpc'[e.worker] = "busy" => wpc[e.worker] = "busy"
    OBVIOUS
  <2>2. Accounted(e.id, e.worker)
    BY <2>1 DEF LossInv
  <2>3. e.id \in Ids /\ born[e.id] \in Nat /\ blk \in Nat
    BY <2>1, DecoderTypes, LossNumbers
  <2> QED BY <1>1, <2>1, <2>2, <2>3 DEF Accounted
<1>3. GapsCounted'
  BY DEF LossInv, GapsCounted, Gap
<1>4. \A w \in Workers : \A id \in snap'[w] :
        hand'[w] > born'[id] => hand'[w] - born'[id] - (Done(id)' + 1) <= drops'
  BY <1>1 DEF LossInv
<1> QED BY <1>2, <1>3, <1>4 DEF LossInv

LEMMA AddLoss ==
  ASSUME FullInv, LossInv, NEW f \in Freqs, NEW b \in Bauds, addDecoder(f, b)
  PROVE  LossInv'
<1> USE DEF FullInv
<1>1. /\ nextId <= MaxId /\ UNCHANGED <<threads, feeder, control, processed>>
      /\ born' = [born EXCEPT ![nextId] = blk]
  BY DEF addDecoder, addToCovering, addWithNewSubBand, Insert
<1>2. PICK n : /\ n.id = nextId /\ n.worker \in Workers
               /\ decoders' = decoders \union {n}
  <2>1. \A s \in subbands : s.worker \in Workers
    BY DEF TypeInv, TypeOK, RegistryOK, SubBandRecord
  <2> QED BY <2>1 DEF addDecoder, addToCovering, addWithNewSubBand, Insert, Covering
<1>3. n.id \in Ids /\ processed[n.id] = <<>>
  BY <1>1, <1>2, LossTypes, BoundFacts DEF StreamInv, IdsInv, TypeInv, TypeOK, RegistryOK, Ids
<1>4. /\ \A d \in decoders : d.id # n.id /\ d.id \in Ids /\ d.worker \in Workers
      /\ \A w \in Workers : n.id \notin snap[w] /\ snap[w] \subseteq Ids
  BY <1>2, LossTypes DEF StreamInv, IdsInv, SnapInv
<1>5. \A id \in Ids : id # n.id => born'[id] = born[id]
  BY <1>1, <1>2, LossTypes
<1>6. born'[n.id] = blk
  BY <1>1, <1>2, <1>3, LossTypes
<1>7. \A id \in Ids : id # n.id => Done(id)' = Done(id)
  BY <1>1, <1>5 DEF Done
<1>8. \A w : Top(w)' = Top(w)
  BY <1>1 DEF Top, feeder
<1>9. ASSUME NEW d \in decoders PROVE Accounted(d.id, d.worker)'
  <2>1. Accounted(d.id, d.worker)
    BY DEF LossInv
  <2>2. born'[d.id] = born[d.id] /\ Done(d.id)' = Done(d.id)
    BY <1>4, <1>5, <1>7
  <2> QED BY <1>1, <1>8, <2>1, <2>2 DEF Accounted, threads, feeder
<1>10. Accounted(n.id, n.worker)'
  <2>1. /\ hand[n.worker] <= blk /\ \A i \in DOMAIN queue[n.worker] : queue[n.worker][i] <= blk
    <3>1. BacklogOf(n.worker)
      BY <1>2 DEF BacklogInv
    <3>2. \A i \in DOMAIN queue[n.worker] : queue[n.worker][i] \in Nat
      BY <1>2, LossNumbers
    <3> QED BY <1>2, <3>1, <3>2, LossNumbers DEF BacklogOf, Seen
  <2>2. /\ Top(n.worker) \in Int /\ Top(n.worker) <= blk /\ blk \in Nat /\ drops \in Nat
        /\ hand[n.worker] \in Nat /\ queue[n.worker] \in Seq(Nat)
    BY <1>2, LossNumbers
  <2>3. Done(n.id)' \in Nat
    BY <1>1, <1>3, AboveNat DEF Done
  <2>4. Contiguous(queue[n.worker], Top(n.worker), blk)
    <3>1. \A i \in DOMAIN queue[n.worker] :
            /\ queue[n.worker][i] \in Nat /\ i \in Nat /\ i <= Len(queue[n.worker])
            /\ Len(queue[n.worker]) \in Nat
      BY <2>2
    <3> QED BY <2>1, <2>2, <3>1 DEF Contiguous
  <2>5. InHand(hand[n.worker], blk) \in {0, 1} /\ Len(queue[n.worker]) \in Nat
    BY <2>2 DEF InHand
  <2>6. UNCHANGED <<blk, hand, queue, drops, wpc, snap>>
    BY <1>1 DEF threads, feeder
  <2>7. Top(n.worker) - Len(queue[n.worker]) - blk - Done(n.id)' - InHand(hand[n.worker], blk) <= drops
    BY <2>2, <2>3, <2>5
  <2>8. ~(hand[n.worker] > blk)
    BY <2>1, <2>2
  <2> QED BY <1>6, <1>8, <2>2, <2>4, <2>6, <2>7, <2>8 DEF Accounted
<1>11. \A w \in Workers : \A id \in snap'[w] :
         hand'[w] > born'[id] => hand'[w] - born'[id] - (Done(id)' + 1) <= drops'
  <2> SUFFICES ASSUME NEW w \in Workers, NEW id \in snap'[w], hand'[w] > born'[id]
               PROVE  hand'[w] - born'[id] - (Done(id)' + 1) <= drops'
    OBVIOUS
  <2>1. id # n.id /\ id \in Ids /\ id \in snap[w] /\ UNCHANGED <<hand, drops>>
    BY <1>1, <1>4 DEF threads
  <2> QED BY <1>5, <1>7, <2>1 DEF LossInv
<1>12. GapsCounted'
  <2> SUFFICES ASSUME NEW id \in Ids, NEW i \in DOMAIN processed'[id], processed'[id][i] > born'[id]
               PROVE  Gap(id, i)' <= drops'
    BY DEF GapsCounted
  <2>1. id # n.id /\ processed' = processed /\ drops' = drops
    BY <1>1, <1>3 DEF threads
  <2> QED BY <1>5, <2>1 DEF LossInv, GapsCounted, Gap
<1>13. \A d \in decoders' : Accounted(d.id, d.worker)'
  BY <1>2, <1>9, <1>10
<1> QED BY <1>11, <1>12, <1>13 DEF LossInv

(* What feed() does to one queue: the oldest block makes room for the next. *)
LEMMA PushedOne ==
  ASSUME NEW q \in Seq(Nat), NEW x \in Nat, NEW b \in Nat,
         b <= x, Len(q) <= kMaxQueue, Contiguous(q, x - 1, b)
  PROVE  /\ Contiguous(Append(Trimmed(q), x), x, b)
         /\ x - Len(Append(Trimmed(q), x)) = (x - 1) - Len(q) + Dropped(q)
         /\ Dropped(q) \in {0, 1}
<1> USE BoundFacts
<1> DEFINE r == Trimmed(q)
           k == Dropped(q)
<1>1. /\ r \in Seq(Nat) /\ Len(r) = Len(q) - k /\ k \in {0, 1} /\ Len(q) \in Nat
      /\ \A i \in DOMAIN r : r[i] = q[i + k] /\ i + k \in DOMAIN q
  <2>1. CASE Len(q) >= kMaxQueue
    <3>1. q # <<>> /\ r = Tail(q) /\ k = 1
      BY <2>1 DEF Trimmed, Dropped
    <3> HIDE DEF r, k
    <3>2. Len(Tail(q)) = Len(q) - 1 /\ Tail(q) \in Seq(Nat)
          /\ \A i \in DOMAIN Tail(q) : Tail(q)[i] = q[i + 1] /\ i + 1 \in DOMAIN q
      BY <3>1
    <3> QED BY <3>1, <3>2
  <2>2. CASE ~(Len(q) >= kMaxQueue)
    <3>1. r = q /\ k = 0
      BY <2>2 DEF Trimmed, Dropped
    <3> HIDE DEF r, k
    <3> QED BY <3>1
  <2> QED BY <2>1, <2>2
<1> HIDE DEF r, k
<1> DEFINE p == Append(r, x)
<1>2. /\ p \in Seq(Nat) /\ Len(p) = Len(r) + 1 /\ Len(r) \in Nat
      /\ \A i \in DOMAIN p : (i \in DOMAIN r /\ p[i] = r[i]) \/ (i = Len(p) /\ p[i] = x)
  BY <1>1
<1> HIDE DEF p
<1>3. /\ x - Len(p) = (x - 1) - Len(q) + k /\ Len(p) \in Nat
      /\ Len(p) = Len(q) - k + 1 /\ k \in Int
  BY <1>1, <1>2
<1>4. ASSUME NEW i \in DOMAIN p
      PROVE  IF p[i] > b THEN p[i] = x - Len(p) + i ELSE x - b <= Len(p) - i
  <2>1. i \in Nat
    BY <1>2
  <2>2. CASE i = Len(p) /\ p[i] = x
    BY <1>3, <2>1, <2>2
  <2>3. CASE i \in DOMAIN r /\ p[i] = r[i]
    <3>1. PICK m \in DOMAIN q : m = i + k /\ p[i] = q[m]
      BY <1>1, <2>3
    <3>2. IF q[m] > b THEN q[m] = (x - 1) - Len(q) + m ELSE (x - 1) - b <= Len(q) - m
      BY DEF Contiguous
    <3>3. q[m] \in Nat /\ m \in Nat /\ Len(q) \in Nat
      OBVIOUS
    <3>4. Len(p) - i = Len(q) + 1 - m
      BY <1>3, <2>1, <3>1, <3>3
    <3>5. CASE q[m] > b
      <4>1. q[m] = (x - 1) - Len(q) + m
        BY <3>2, <3>5
      <4>2. q[m] = x - (Len(p) - i)
        BY <1>3, <2>1, <3>3, <3>4, <4>1
      <4> QED BY <1>3, <2>1, <3>1, <3>3, <3>5, <4>2
    <3>6. CASE ~(q[m] > b)
      <4>1. (x - 1) - b <= Len(q) - m
        BY <3>2, <3>6
      <4>2. x - b <= Len(p) - i
        BY <1>3, <2>1, <3>3, <3>4, <4>1
      <4> QED BY <3>1, <3>6, <4>2
    <3> QED BY <3>5, <3>6
  <2> QED BY <1>2, <2>2, <2>3
<1> QED BY <1>1, <1>3, <1>4 DEF p, r, k, Contiguous

LEMMA PushLoss ==
  ASSUME FullInv, LossInv, feedPush
  PROVE  LossInv'
<1> USE DEF FullInv
<1>1. /\ UNCHANGED <<blk, hand, snap, decoders, processed, born>>
      /\ fpc = "push" /\ fpc' = "look" /\ fw' = fw + 1 /\ fw \in Workers
      /\ queue' = [queue EXCEPT ![fw] = Append(Trimmed(@), blk)]
      /\ drops' = drops + Dropped(queue[fw]) /\ wpc' = Notified(fw)
  BY DEF feedPush, registry, history, TypeInv, FeedOK
<1>2. drops' >= drops /\ drops \in Nat /\ drops' \in Nat
  BY <1>1, LossNumbers DEF Dropped
<1>3. \A id : Done(id)' = Done(id)
  BY <1>1 DEF Done
<1>4. \A w \in Workers : wpc'[w] = "busy" => wpc[w] = "busy"
  BY <1>1, LossTypes DEF Notified
<1>5. ASSUME NEW d \in decoders, NEW w \in Workers, w = d.worker,
             NEW b \in Nat, b = born[d.id]
      PROVE  Accounted(d.id, w)'
  <2>1. /\ Accounted(d.id, w) /\ d.id \in Ids
        /\ Done(d.id) \in Nat /\ blk \in Nat /\ InHand(hand[w], b) \in {0, 1}
        /\ queue[w] \in Seq(Nat) /\ fw \in Nat /\ w \in Nat /\ Top(w) \in Int
    BY <1>5, DecoderTypes, LossNumbers DEF LossInv
  <2>2. /\ b <= blk /\ Contiguous(queue[w], Top(w), b)
        /\ Top(w) - Len(queue[w]) - b - Done(d.id) - InHand(hand[w], b) <= drops
        /\ wpc[w] = "busy" /\ hand[w] > b => d.id \in snap[w]
    BY <1>5, <2>1 DEF Accounted
  <2> DEFINE Q == queue'[w]
             T == Top(w)'
  <2>3. Contiguous(Q, T, b) /\ T - Len(Q) - b - Done(d.id) - InHand(hand[w], b) <= drops'
    <3>1. CASE w # fw
      <4>1. Q = queue[w]
        BY <1>1, <3>1, LossTypes
      <4>2. T = Top(w)
        BY <1>1, <2>1, <3>1 DEF Top
      <4> HIDE DEF Q, T
      <4>3. Len(Q) \in Nat
        BY <2>1, <4>1
      <4> QED BY <1>2, <2>1, <2>2, <4>1, <4>2, <4>3
    <3>2. CASE w = fw
      <4>1. Q = Append(Trimmed(queue[w]), blk)
        BY <1>1, <3>2, LossTypes
      <4>2. T = blk /\ Top(w) = blk - 1
        BY <1>1, <2>1, <3>2 DEF Top
      <4>3. Len(queue[w]) <= kMaxQueue /\ Len(queue[w]) \in Nat
        BY <2>1 DEF BacklogInv, BacklogOf
      <4> HIDE DEF Q, T
      <4>4. /\ Contiguous(Q, T, b) /\ Dropped(queue[w]) \in {0, 1}
            /\ T - Len(Q) = (blk - 1) - Len(queue[w]) + Dropped(queue[w])
        BY <2>1, <2>2, <4>1, <4>2, <4>3, PushedOne
      <4>5. T - Len(Q) - b - Done(d.id) - InHand(hand[w], b) <= drops'
        <5>1. drops' = drops + Dropped(queue[w])
          BY <1>1, <3>2
        <5>2. (blk - 1) - Len(queue[w]) - b - Done(d.id) - InHand(hand[w], b) <= drops
          BY <2>2, <4>2
        <5> DEFINE k == Dropped(queue[w])
                   n == Len(queue[w])
                   c == Done(d.id)
                   h == InHand(hand[w], b)
        <5>3. k \in Int /\ n \in Int /\ c \in Int /\ h \in Int
          BY <2>1, <4>3, <4>4
        <5>4. T - Len(Q) = (blk - 1) - n + k /\ (blk - 1) - n - b - c - h <= drops /\ drops' = drops + k
          BY <4>4, <5>1, <5>2
        <5> HIDE DEF k, n, c, h
        <5>5. ((blk - 1) - n + k) - b - c - h <= drops'
          BY <1>2, <2>1, <5>3, <5>4
        <5> QED BY <5>4, <5>5 DEF c, h
      <4> QED BY <4>4, <4>5
    <3> QED BY <3>1, <3>2
  <2> QED BY <1>1, <1>3, <1>4, <1>5, <2>2, <2>3 DEF Accounted
<1>6. \A d \in decoders' : Accounted(d.id, d.worker)'
  BY <1>1, <1>5, DecoderTypes, LossNumbers
<1>7. \A w \in Workers : \A id \in snap'[w] :
        hand'[w] > born'[id] => hand'[w] - born'[id] - (Done(id)' + 1) <= drops'
  <2> SUFFICES ASSUME NEW w \in Workers, NEW id \in snap[w], hand[w] > born[id]
               PROVE  hand[w] - born[id] - (Done(id) + 1) <= drops'
    BY <1>1, <1>3
  <2>1. /\ hand[w] - born[id] - (Done(id) + 1) <= drops
        /\ hand[w] \in Nat /\ born[id] \in Nat /\ Done(id) \in Nat
    BY DecoderTypes, LossNumbers DEF LossInv
  <2> QED BY <1>2, <2>1
<1>8. GapsCounted'
  <2> SUFFICES ASSUME NEW id \in Ids, NEW i \in DOMAIN processed[id], processed[id][i] > born[id]
               PROVE  Gap(id, i) <= drops'
    BY <1>1 DEF GapsCounted, Gap
  <2>1. Gap(id, i) <= drops /\ Gap(id, i) \in Int
    BY LossNumbers DEF LossInv, GapsCounted
  <2> QED BY <1>2, <2>1
<1> QED BY <1>6, <1>7, <1>8 DEF LossInv

LEMMA PopLoss ==
  ASSUME FullInv, LossInv, NEW v \in Workers, workerPop(v)
  PROVE  LossInv'
<1> USE DEF FullInv
<1>1. /\ UNCHANGED <<drops, snap, decoders, fpc, fw, blk, processed, born>>
      /\ wpc[v] = "check" /\ queue[v] # <<>>
      /\ hand' = [hand EXCEPT ![v] = Head(queue[v])]
      /\ queue' = [queue EXCEPT ![v] = Tail(@)]
      /\ wpc' = [wpc EXCEPT ![v] = "popped"]
  BY DEF workerPop, HandTaken, FrontBlock, Goto, registry, feeder, history
<1>2. snap[v] = {} /\ hand[v] = 0
  BY <1>1 DEF TypeInv, HandOK
<1>3. /\ \A id : Done(id)' = Done(id)
      /\ \A w : Top(w)' = Top(w)
  BY <1>1 DEF Done, Top
<1>4. ASSUME NEW d \in decoders, NEW w \in Workers, w = d.worker,
             NEW b \in Nat, b = born[d.id]
      PROVE  Accounted(d.id, w)'
  <2>1. /\ Accounted(d.id, w) /\ Done(d.id) \in Nat /\ Top(w) \in Int
        /\ queue[w] \in Seq(Nat) /\ hand[w] \in Nat /\ drops \in Nat
    BY <1>4, DecoderTypes, LossNumbers DEF LossInv
  <2>2. /\ b <= blk /\ Contiguous(queue[w], Top(w), b)
        /\ Top(w) - Len(queue[w]) - b - Done(d.id) - InHand(hand[w], b) <= drops
        /\ wpc[w] = "busy" /\ hand[w] > b => d.id \in snap[w]
    BY <1>4, <2>1 DEF Accounted
  <2>3. CASE w # v
    <3>1. queue'[w] = queue[w] /\ hand'[w] = hand[w] /\ wpc'[w] = wpc[w]
      BY <1>1, <2>3, LossTypes
    <3> QED BY <1>1, <1>3, <1>4, <2>2, <3>1 DEF Accounted
  <2>4. CASE w = v
    <3> DEFINE q == queue[w]
               n == Len(q)
               h == q[1]
    <3>1. /\ queue'[w] = Tail(q) /\ hand'[w] = h /\ wpc'[w] = "popped" /\ hand[w] = 0
          /\ 1 \in DOMAIN q /\ h \in Nat /\ n \in Nat
      BY <1>1, <1>2, <2>1, <2>4, LossTypes
    <3>2. /\ Tail(q) \in Seq(Nat) /\ Len(Tail(q)) = n - 1
          /\ \A i \in DOMAIN Tail(q) : Tail(q)[i] = q[i + 1] /\ i + 1 \in DOMAIN q /\ i \in Nat
      BY <1>1, <2>1, <2>4
    <3>3. Contiguous(Tail(q), Top(w), b)
      <4> SUFFICES ASSUME NEW i \in DOMAIN Tail(q)
                   PROVE  IF Tail(q)[i] > b THEN Tail(q)[i] = Top(w) - Len(Tail(q)) + i
                                            ELSE Top(w) - b <= Len(Tail(q)) - i
        BY DEF Contiguous
      <4>1. IF q[i + 1] > b THEN q[i + 1] = Top(w) - n + (i + 1) ELSE Top(w) - b <= n - (i + 1)
        BY <2>2, <3>2 DEF Contiguous
      <4>2. Tail(q)[i] = q[i + 1] /\ i \in Nat
        BY <3>2
      <4>3. Len(Tail(q)) = n - 1 /\ n \in Int /\ b \in Int /\ Top(w) \in Int
        BY <2>1, <3>1, <3>2
      <4> HIDE DEF q, n
      <4>4. CASE q[i + 1] > b
        BY <4>1, <4>2, <4>3, <4>4
      <4>5. CASE ~(q[i + 1] > b)
        BY <4>1, <4>2, <4>3, <4>5
      <4> QED BY <4>4, <4>5
    <3>4. IF h > b THEN h = Top(w) - n + 1 ELSE Top(w) - b <= n - 1
      BY <2>2, <3>1 DEF Contiguous
    <3>5. Top(w) - n - b - Done(d.id) <= drops
      BY <2>1, <2>2, <3>1 DEF InHand
    <3> HIDE DEF q, n, h
    <3>6. Top(w) - (n - 1) - b - Done(d.id) - InHand(h, b) <= drops
      BY <2>1, <3>1, <3>4, <3>5 DEF InHand
    <3>7. /\ Contiguous(queue'[w], Top(w)', b) /\ b = born'[d.id] /\ b <= blk'
          /\ Top(w)' - Len(queue'[w]) - b - Done(d.id)' - InHand(hand'[w], b) <= drops'
          /\ ~(wpc'[w] = "busy")
      BY <1>1, <1>3, <1>4, <2>2, <3>1, <3>2, <3>3, <3>6
    <3> QED BY <3>7 DEF Accounted
  <2> QED BY <2>3, <2>4
<1>5. \A d \in decoders' : Accounted(d.id, d.worker)'
  BY <1>1, <1>4, DecoderTypes, LossNumbers
<1>6. \A w \in Workers : \A id \in snap'[w] :
        hand'[w] > born'[id] => hand'[w] - born'[id] - (Done(id)' + 1) <= drops'
  BY <1>1, <1>2, <1>3, LossTypes DEF LossInv
<1>7. GapsCounted'
  BY <1>1 DEF LossInv, GapsCounted, Gap
<1> QED BY <1>5, <1>6, <1>7 DEF LossInv

LEMMA SnapshotLoss ==
  ASSUME FullInv, LossInv, NEW v \in Workers, workerSnapshot(v)
  PROVE  LossInv'
<1> USE DEF FullInv
<1>1. /\ UNCHANGED <<queue, hand, drops, decoders, fpc, fw, blk, processed, born>>
      /\ wpc[v] = "popped" /\ wpc' = [wpc EXCEPT ![v] = "busy"]
      /\ snap' = [snap EXCEPT ![v] = SnapshotOf(v)]
  BY DEF workerSnapshot, Goto, registry, feeder, history
<1>2. /\ \A id : Done(id)' = Done(id)
      /\ \A w : Top(w)' = Top(w)
  BY <1>1 DEF Done, Top
<1>3. ASSUME NEW d \in decoders PROVE Accounted(d.id, d.worker)'
  <2>1. Accounted(d.id, d.worker) /\ d.worker \in Workers
    BY DecoderTypes DEF LossInv
  <2>2. wpc'[d.worker] = "busy" /\ hand[d.worker] > born[d.id] => d.id \in snap'[d.worker]
    <3>1. CASE d.worker = v
      <4>1. d.id \in SnapshotOf(v) /\ snap'[v] = SnapshotOf(v)
        BY <1>1, <3>1, LossTypes DEF SnapshotOf, DecodersOn
      <4> QED BY <3>1, <4>1
    <3>2. CASE d.worker # v
      BY <1>1, <2>1, <3>2, LossTypes DEF Accounted
    <3> QED BY <3>1, <3>2
  <2> QED BY <1>1, <1>2, <2>1, <2>2 DEF Accounted
<1>4. \A w \in Workers : \A id \in snap'[w] :
        hand'[w] > born'[id] => hand'[w] - born'[id] - (Done(id)' + 1) <= drops'
  <2> SUFFICES ASSUME NEW w \in Workers, NEW id \in snap'[w], hand[w] > born[id]
               PROVE  hand[w] - born[id] - (Done(id) + 1) <= drops
    BY <1>1, <1>2
  <2>1. CASE w # v
    BY <1>1, <2>1, LossTypes DEF LossInv
  <2>2. CASE w = v
    <3>1. PICK d \in decoders : d.id = id /\ d.worker = w
      BY <1>1, <2>2, LossTypes DEF SnapshotOf, DecodersOn
    <3>2. /\ Top(w) \in Int /\ hand[w] \in Nat /\ queue[w] \in Seq(Nat) /\ Len(queue[w]) \in Nat
          /\ born[id] \in Nat /\ Done(id) \in Nat /\ drops \in Nat /\ blk \in Nat
          /\ InHand(hand[w], born[id]) \in {0, 1}
      BY <3>1, DecoderTypes, LossNumbers
    <3>3. /\ Contiguous(queue[w], Top(w), born[id])
          /\ Top(w) - Len(queue[w]) - born[id] - Done(id) - InHand(hand[w], born[id]) <= drops
      BY <3>1 DEF LossInv, Accounted
    <3>4. hand[w] <= Top(w) - Len(queue[w])
      <4>1. /\ \A i \in DOMAIN queue[w] : hand[w] < queue[w][i]
            /\ hand[w] <= Top(w)
        <5>1. Seen(w, hand[w]) /\ \A i \in DOMAIN queue[w] : hand[w] < queue[w][i]
          BY DEF BacklogInv, BacklogOf
        <5> QED BY <3>2, <5>1 DEF Seen, Top
      <4>2. CASE Len(queue[w]) = 0
        BY <3>2, <4>1, <4>2
      <4>3. CASE Len(queue[w]) # 0
        <5>1. 1 \in DOMAIN queue[w] /\ queue[w][1] \in Nat
          BY <3>2, <4>3
        <5>2. queue[w][1] > born[id]
          BY <3>2, <4>1, <5>1
        <5>3. queue[w][1] = Top(w) - Len(queue[w]) + 1
          BY <3>3, <5>1, <5>2 DEF Contiguous
        <5> QED BY <3>2, <4>1, <5>1, <5>3
      <4> QED BY <4>2, <4>3
    <3> QED BY <3>2, <3>3, <3>4
  <2> QED BY <2>1, <2>2
<1>5. GapsCounted'
  BY <1>1 DEF LossInv, GapsCounted, Gap
<1> QED BY <1>1, <1>3, <1>4, <1>5 DEF LossInv

LEMMA ProcessLoss ==
  ASSUME FullInv, LossInv, NEW v \in Workers, workerProcess(v)
  PROVE  LossInv'
<1> USE DEF FullInv
<1>1. /\ UNCHANGED <<queue, drops, decoders, fpc, fw, blk, born>>
      /\ wpc[v] = "busy" /\ wpc' = [wpc EXCEPT ![v] = "check"]
      /\ hand' = [hand EXCEPT ![v] = 0]
      /\ snap' = [snap EXCEPT ![v] = {}]
      /\ \A id \in Ids : id \in snap[v] => processed'[id] = Append(processed[id], hand[v])
      /\ \A id \in Ids : id \notin snap[v] => processed'[id] = processed[id]
  BY DEF workerProcess, Goto, registry, feeder
<1>2. \A w : Top(w)' = Top(w)
  BY <1>1 DEF Top
<1>3. \A id \in Ids : id \notin snap[v] => Done(id)' = Done(id)
  BY <1>1 DEF Done
<1>4. ASSUME NEW id \in Ids, id \in snap[v]
      PROVE  /\ Done(id)' = Done(id) + InHand(hand[v], born[id])
             /\ Len(processed'[id]) = Len(processed[id]) + 1
             /\ \A i \in DOMAIN processed[id] :
                  /\ processed'[id][i] = processed[id][i]
                  /\ Above(processed[id], born[id], i)' = Above(processed[id], born[id], i)
  <2>1. processed[id] \in Seq(Nat) /\ born[id] \in Nat /\ hand[v] \in Nat
    BY LossNumbers
  <2>2. processed'[id] = Append(processed[id], hand[v]) /\ born'[id] = born[id]
    BY <1>1, <1>4
  <2>3. /\ Len(processed'[id]) = Len(processed[id]) + 1
        /\ \A i \in DOMAIN processed[id] : processed'[id][i] = processed[id][i]
    BY <2>1, <2>2
  <2>4. /\ Above(processed'[id], born'[id], Len(processed[id]) + 1) = Done(id) + InHand(hand[v], born[id])
        /\ \A i \in DOMAIN processed[id] :
             Above(processed'[id], born'[id], i) = Above(processed[id], born[id], i)
    BY <2>1, <2>2, AboveAppend DEF Done
  <2>5. \A i : Above(processed[id], born[id], i)' = Above(processed'[id], born'[id], i)
    BY DEF Above
  <2> QED BY <2>3, <2>4, <2>5 DEF Done
<1>5. ASSUME NEW d \in decoders PROVE Accounted(d.id, d.worker)'
  <2>1. /\ Accounted(d.id, d.worker) /\ d.worker \in Workers /\ d.id \in Ids
        /\ born[d.id] \in Nat /\ Done(d.id) \in Nat
    BY DecoderTypes, LossNumbers DEF LossInv
  <2>2. CASE d.worker # v
    <3>1. d.id \notin snap[v]
      BY <2>2 DEF StreamInv, SnapInv
    <3>2. /\ Done(d.id)' = Done(d.id) /\ hand'[d.worker] = hand[d.worker]
          /\ wpc'[d.worker] = wpc[d.worker] /\ snap'[d.worker] = snap[d.worker]
      BY <1>1, <1>3, <2>1, <2>2, <3>1, LossTypes
    <3> QED BY <1>1, <1>2, <2>1, <3>2 DEF Accounted
  <2>3. CASE d.worker = v
    <3>1. /\ hand'[v] = 0 /\ wpc'[v] = "check" /\ InHand(0, born[d.id]) = 0
      BY <1>1, <2>1, LossTypes DEF InHand
    <3>2. /\ Top(v) \in Int /\ queue[v] \in Seq(Nat) /\ Len(queue[v]) \in Nat /\ drops \in Nat
          /\ hand[v] \in Nat /\ InHand(hand[v], born[d.id]) \in {0, 1}
      BY LossNumbers
    <3>3. Top(v) - Len(queue[v]) - born[d.id] - Done(d.id) - InHand(hand[v], born[d.id]) <= drops
      BY <2>1, <2>3 DEF Accounted
    <3>4. Done(d.id)' = Done(d.id) + InHand(hand[v], born[d.id])
      <4>1. CASE d.id \in snap[v]
        BY <1>4, <2>1, <4>1
      <4>2. CASE d.id \notin snap[v]
        <5>1. InHand(hand[v], born[d.id]) = 0
          BY <1>1, <2>1, <2>3, <4>2 DEF Accounted, InHand
        <5> QED BY <1>3, <2>1, <4>2, <5>1
      <4> QED BY <4>1, <4>2
    <3>5. Top(v) - Len(queue[v]) - born[d.id] - Done(d.id)' - 0 <= drops
      BY <2>1, <3>2, <3>3, <3>4
    <3> QED BY <1>1, <1>2, <2>1, <2>3, <3>1, <3>5 DEF Accounted
  <2> QED BY <2>2, <2>3
<1>6. \A w \in Workers : \A id \in snap'[w] :
        hand'[w] > born'[id] => hand'[w] - born'[id] - (Done(id)' + 1) <= drops'
  <2> SUFFICES ASSUME NEW w \in Workers, NEW id \in snap'[w], hand'[w] > born'[id]
               PROVE  hand'[w] - born'[id] - (Done(id)' + 1) <= drops'
    OBVIOUS
  <2>1. w # v /\ id \in snap[w] /\ id \in Ids
    BY <1>1, LossTypes
  <2>2. id \notin snap[v]
    BY <2>1 DEF StreamInv, SnapInv, OneProcessor
  <2>3. Done(id)' = Done(id) /\ hand'[w] = hand[w] /\ born' = born /\ drops' = drops
    BY <1>1, <1>3, <2>1, <2>2, LossTypes
  <2> QED BY <2>1, <2>3 DEF LossInv
<1>7. GapsCounted'
  <2> SUFFICES ASSUME NEW id \in Ids, NEW i \in DOMAIN processed'[id], processed'[id][i] > born[id]
               PROVE  Gap(id, i)' <= drops
    BY <1>1 DEF GapsCounted
  <2>1. processed[id] \in Seq(Nat) /\ hand[v] \in Nat /\ born[id] \in Nat
    BY LossNumbers
  <2>2. CASE id \notin snap[v]
    <3>1. processed'[id] = processed[id]
      BY <1>1, <2>2
    <3> QED BY <1>1, <3>1 DEF LossInv, GapsCounted, Gap
  <2>3. CASE id \in snap[v] /\ i \in DOMAIN processed[id]
    <3>1. /\ processed'[id][i] = processed[id][i] /\ born' = born
          /\ Above(processed[id], born[id], i)' = Above(processed[id], born[id], i)
      BY <1>1, <1>4, <2>3
    <3>2. Gap(id, i)' = Gap(id, i)
      BY <3>1 DEF Gap
    <3>3. Gap(id, i) <= drops
      BY <2>3, <3>1 DEF LossInv, GapsCounted
    <3> QED BY <3>2, <3>3
  <2>4. CASE id \in snap[v] /\ i \notin DOMAIN processed[id]
    <3>1. processed'[id] = Append(processed[id], hand[v])
      BY <1>1, <2>4
    <3>2. i = Len(processed'[id]) /\ processed'[id][i] = hand[v]
      BY <2>1, <2>4, <3>1
    <3>3. Above(processed[id], born[id], i)' = Done(id)' /\ hand[v] > born[id]
      BY <1>1, <3>2 DEF Done, Above
    <3>4. Gap(id, i)' = hand[v] - born[id] - Done(id)'
      BY <1>1, <3>2, <3>3 DEF Gap
    <3>5. hand[v] - born[id] - (Done(id) + 1) <= drops
      BY <2>4, <3>3 DEF LossInv
    <3>6. Done(id)' = Done(id) + 1
      BY <1>4, <2>4, <3>3 DEF InHand
    <3> QED BY <3>4, <3>5, <3>6
  <2> QED BY <2>2, <2>3, <2>4
<1> QED BY <1>1, <1>5, <1>6, <1>7 DEF LossInv

LEMMA LossStep == LossFull /\ [Next]_vars => LossInv'
<1> SUFFICES ASSUME LossFull, [Next]_vars PROVE LossInv'
  OBVIOUS
<1> USE DEF LossFull, FullInv
<1> DEFINE Kept(e) == \E d \in decoders :
                        /\ d.id = e.id /\ d.worker = e.worker
                        /\ queue'[e.worker] = queue[e.worker] /\ Top(e.worker)' = Top(e.worker)
                        /\ wpc'[e.worker] = "busy" => wpc[e.worker] = "busy"
           Quiet == /\ UNCHANGED <<processed, snap, born, hand, drops>>
                    /\ blk' \in Nat /\ blk' >= blk
                    /\ \A e \in decoders' : Kept(e)
<1>1. ASSUME Quiet PROVE LossInv'
  BY <1>1, LossQuiet
<1>2. /\ blk \in Nat /\ wpc \in [Workers -> WorkerStates] /\ decoders \subseteq DecoderRecord
      /\ \A d \in decoders : d.id \in Ids /\ d.worker \in Workers
      /\ \A w \in Workers : w \in Nat /\ w >= 1 /\ w <= NumWorkers
      /\ NumWorkers \in Nat /\ fw \in Nat
  BY LossTypes, BoundFacts DEF TypeInv, TypeOK, RegistryOK, Workers
<1>3. CASE UNCHANGED <<decoders, threads, feeder, history>>
  BY <1>1, <1>2, <1>3 DEF threads, feeder, history, Top
<1>4. CASE \E id \in Ids : removeDecoder(id)
  <2>1. decoders' \subseteq decoders /\ UNCHANGED <<threads, feeder, history>>
    BY <1>4 DEF removeDecoder
  <2> QED BY <1>1, <1>2, <2>1 DEF threads, feeder, history, Top
<1>5. CASE \E id \in Ids, f \in Freqs : setDecoderFreq(id, f)
  <2>1. PICK d \in decoders, f \in Freqs :
          decoders' = (decoders \ {d}) \union {[d EXCEPT !.freq = f]}
    BY <1>5 DEF setDecoderFreq
  <2>2. [d EXCEPT !.freq = f].id = d.id /\ [d EXCEPT !.freq = f].worker = d.worker
    BY <1>2 DEF DecoderRecord
  <2>3. UNCHANGED <<threads, feeder, history>>
    BY <1>5 DEF setDecoderFreq
  <2>4. \A e \in decoders' : \E c \in decoders : c.id = e.id /\ c.worker = e.worker
    BY <2>1, <2>2
  <2> QED BY <1>1, <1>2, <2>3, <2>4 DEF threads, feeder, history, Top
<1>6. CASE \E w \in Workers : removeAllFrom(w)
  <2>1. PICK w \in Workers : removeAllFrom(w)
    BY <1>6
  <2>2. /\ decoders' = decoders \ DecodersOn(w) /\ queue' = [queue EXCEPT ![w] = <<>>]
        /\ UNCHANGED <<drops, wpc, hand, snap, feeder, processed, born>>
    BY <2>1 DEF removeAllFrom, BacklogCleared
  <2>3. \A e \in decoders' : e \in decoders /\ e.worker # w
    BY <2>2 DEF DecodersOn
  <2>4. \A e \in decoders' : queue'[e.worker] = queue[e.worker] /\ Top(e.worker)' = Top(e.worker)
    BY <1>2, <2>2, <2>3, LossTypes DEF feeder, Top
  <2> QED BY <1>1, <1>2, <2>2, <2>3, <2>4 DEF feeder
<1>7. CASE startBuild
  <2>1. decoders' = {} /\ UNCHANGED <<blk, processed, snap, born, hand, drops>>
    BY <1>7 DEF startBuild, registry, TypeInv, PoolOK
  <2> QED BY <1>1, <1>2, <2>1
<1>8. CASE stopNotify
  <2>1. UNCHANGED <<decoders, queue, drops, hand, snap, feeder, history>>
    BY <1>8 DEF stopNotify, registry
  <2>2. \A w \in Workers : wpc'[w] = "busy" => wpc[w] = "busy"
    BY <1>8 DEF stopNotify
  <2> QED BY <1>1, <1>2, <2>1, <2>2 DEF feeder, history, Top
<1>9. CASE stopJoin
  <2>1. decoders' = {} /\ UNCHANGED <<blk, processed, snap, born, hand, drops>>
    BY <1>9 DEF stopJoin, history
  <2> QED BY <1>1, <1>2, <2>1
<1>10. CASE feedBegin
  <2>1. /\ UNCHANGED <<decoders, threads, history>> /\ fpc = "idle"
        /\ blk' = blk + 1 /\ fpc' = "look" /\ fw' = 1
    BY <1>10 DEF feedBegin, registry
  <2>2. \A w \in Workers : Top(w)' = Top(w)
    BY <1>2, <2>1 DEF Top
  <2> QED BY <1>1, <1>2, <2>1, <2>2 DEF threads, history
<1>11. CASE feedLook
  <2>1. UNCHANGED <<decoders, threads, history, blk>>
    BY <1>11 DEF feedLook, registry
  <2>2. ASSUME NEW e \in decoders PROVE Top(e.worker)' = Top(e.worker)
    <3>1. CASE count[fw] = 0
      <4>1. fw \in Workers
        BY <1>2, <1>11 DEF feedLook, Workers, TypeInv, TypeOK, FeederOK
      <4>2. IsFiniteSet(DecodersOn(fw)) /\ Cardinality(DecodersOn(fw)) = 0
        BY <3>1, <4>1, FS_Subset DEF CountInv, CountExact, DecodersOn
      <4>3. DecodersOn(fw) = {}
        BY <4>2, FS_EmptySet
      <4>4. e.worker # fw /\ e.worker \in Nat
        BY <1>2, <4>3 DEF DecodersOn
      <4> QED BY <1>2, <1>11, <3>1, <4>4 DEF feedLook, Top
    <3>2. CASE count[fw] # 0
      BY <1>11, <3>2 DEF feedLook, Top
    <3> QED BY <3>1, <3>2
  <2> QED BY <1>1, <1>2, <2>1, <2>2 DEF threads, history
<1>12. CASE feedEnd
  <2>1. UNCHANGED <<decoders, threads, history, blk>>
    BY <1>12 DEF feedEnd, registry
  <2>2. ASSUME NEW e \in decoders PROVE Top(e.worker)' = Top(e.worker)
    <3>1. pool
      BY DEF TypeInv, PoolOK
    <3> QED BY <1>2, <1>12, <3>1 DEF feedEnd, Top
  <2> QED BY <1>1, <1>2, <2>1, <2>2 DEF threads, history
<1>13. CASE \E w \in Workers : workerLeave(w) \/ workerArm(w) \/ workerSleep(w) \/ workerSpurious(w)
  <2>1. PICK w \in Workers, to \in {"done", "armed", "asleep", "check"} :
          Goto(w, to) /\ UNCHANGED <<decoders, queue, drops, hand, snap, feeder, history>>
    BY <1>13 DEF workerLeave, workerArm, workerSleep, workerSpurious, registry
  <2>2. \A u \in Workers : wpc'[u] = "busy" => wpc[u] = "busy"
    BY <1>2, <2>1 DEF Goto
  <2> QED BY <1>1, <1>2, <2>1, <2>2 DEF feeder, history, Top
<1>14. CASE (\E f \in Freqs : configure(f)) \/ removeAllBegin \/ startBegin \/ stopBegin
  BY <1>3, <1>14 DEF configure, removeAllBegin, startBegin, stopBegin, registry
<1>15. CASE UNCHANGED vars
  BY <1>3, <1>15 DEF vars, registry
<1>16. CASE \E f \in Freqs, b \in Bauds : addDecoder(f, b)
  BY <1>16, AddLoss
<1>17. CASE feedPush
  BY <1>17, PushLoss
<1>18. CASE \E w \in Workers : workerPop(w) \/ workerSnapshot(w) \/ workerProcess(w)
  BY <1>18, PopLoss, SnapshotLoss, ProcessLoss
<1> HIDE DEF Quiet
<1> QED BY <1>4, <1>5, <1>6, <1>7, <1>8, <1>9, <1>10, <1>11, <1>12, <1>13, <1>14, <1>15, <1>16,
           <1>17, <1>18
        DEF Next, GuiCall, RegistryCall, GuiContinue, Feed, worker

(* Of the blocks fed since a decoder exists, up to the last it processed,   *)
(* those it did not process are all in drops, for every number of workers   *)
(* and queue limit: feed's test of count, the queue's limit, the snapshot   *)
(* and the GUI's calls lose nothing that is not counted (feed, l.60-83;     *)
(* workerLoop, l.277-319).                                                  *)
THEOREM NoSilentLossAlways == Spec => []NoSilentLoss
<1>1. Init => LossFull /\ RegistryFull
  BY TypeInit, BacklogInit, StreamInit, RegistryInit, LossInit DEF LossFull, FullInv, RegistryFull
<1>2. (LossFull /\ RegistryFull) /\ [Next]_vars => (LossFull /\ RegistryFull)'
  BY TypeStep, BacklogStep, StreamStep, RegistryStep, LossStep DEF LossFull, FullInv, RegistryFull
<1>3. LossFull => NoSilentLoss
  BY DEF LossFull, LossInv, GapsCounted, Gap, Above, NoSilentLoss
<1> QED BY <1>1, <1>2, <1>3, PTL DEF Spec

-----------------------------------------------------------------------------
(* The promise to a decoder, step by step.                                  *)

PromiseInv == LossFull /\ RegistryFull

LEMMA PromiseInvAlways == Spec => []PromiseInv
<1>1. Init => PromiseInv
  BY TypeInit, BacklogInit, StreamInit, RegistryInit, LossInit
     DEF PromiseInv, LossFull, FullInv, RegistryFull
<1>2. PromiseInv /\ [Next]_vars => PromiseInv'
  BY TypeStep, BacklogStep, StreamStep, RegistryStep, LossStep
     DEF PromiseInv, LossFull, FullInv, RegistryFull
<1> QED BY <1>1, <1>2, PTL DEF Spec

LEMMA StreamBegins == Init => Stream!Init
<1> SUFFICES ASSUME Init PROVE Stream!Init
  OBVIOUS
<1>1. Existing = {} /\ InProcess = {}
  BY DEF Init, Existing, InProcess
<1> QED BY <1>1 DEF Init, Stream!Init, Ids

(* A step that moves no block to or from a decoder and at most removes some.*)
LEMMA StreamStutters ==
  ASSUME UNCHANGED <<blk, drops, nextId, decoders, snap, processed, born>>
  PROVE  UNCHANGED Stream!vars
BY DEF Stream!vars, Existing, InProcess

LEMMA StreamLeave ==
  ASSUME UNCHANGED <<blk, drops, nextId, snap, processed, born>>, Existing' \subseteq Existing
  PROVE  Stream!Next
<1>1. InProcess' = InProcess
  BY DEF InProcess
<1>2. Stream!Leave
  BY <1>1 DEF Stream!Leave
<1> QED BY <1>2 DEF Stream!Next

LEMMA StreamJoin ==
  ASSUME PromiseInv, NEW f \in Freqs, NEW b \in Bauds, addDecoder(f, b)
  PROVE  Stream!Next
<1>1. PICK s : Insert(s, f, b)
  BY DEF addDecoder, addToCovering, addWithNewSubBand
<1>2. nextId <= MaxId /\ UNCHANGED <<blk, drops, snap, processed>>
  BY DEF addDecoder, addToCovering, addWithNewSubBand, threads, feeder
<1>3. nextId \in 1 .. MaxId
  BY <1>2, BoundFacts DEF PromiseInv, LossFull, FullInv, TypeInv, TypeOK, RegistryOK
<1>4. nextId' = nextId + 1 /\ born' = [born EXCEPT ![nextId] = blk]
  BY <1>1 DEF Insert
<1>5. Existing' = Existing \union {nextId}
  <2> DEFINE n == [id |-> nextId, worker |-> s.worker, sb |-> s.key, freq |-> f, baud |-> b]
  <2>1. decoders' = decoders \union {n} /\ n.id = nextId
    BY <1>1 DEF Insert
  <2> HIDE DEF n
  <2> QED BY <2>1 DEF Existing
<1>6. InProcess' = InProcess /\ nextId \notin InProcess
  <2>1. \A w \in Workers : \A id \in snap[w] : id < nextId
    BY DEF PromiseInv, LossFull, FullInv, StreamInv, SnapInv
  <2>2. \A w \in Workers : nextId \notin snap[w]
    BY <1>3, <2>1
  <2> QED BY <1>2, <2>2 DEF InProcess
<1>7. Stream!Join
  BY <1>2, <1>3, <1>4, <1>5, <1>6 DEF Stream!Join
<1> QED BY <1>7 DEF Stream!Next

LEMMA StreamLose ==
  ASSUME PromiseInv, feedPush
  PROVE  Stream!Next \/ UNCHANGED Stream!vars
<1>1. UNCHANGED <<blk, nextId, decoders, snap, processed, born>>
  BY DEF feedPush, registry, history
<1>2. drops' = drops + 1 \/ drops' = drops + 0
  BY DEF feedPush, Dropped
<1>3. drops \in Nat
  BY DEF PromiseInv, LossFull, FullInv, TypeInv, TypeOK, ThreadsOK
<1>4. CASE drops' = drops + 1
  BY <1>1, <1>4 DEF Stream!Next, Stream!Lose, Existing, InProcess
<1>5. CASE drops' = drops + 0
  BY <1>1, <1>3, <1>5, StreamStutters
<1> QED BY <1>2, <1>4, <1>5

(* A worker hands its block to the decoders of its snapshot.                *)
LEMMA StreamHear ==
  ASSUME PromiseInv, NEW w \in Workers, workerProcess(w)
  PROVE  Stream!Next
<1> DEFINE S == snap[w]
           b == hand[w]
<1>1. /\ UNCHANGED <<blk, drops, nextId, decoders, born>>
      /\ processed' = [id \in Ids |-> IF id \in S THEN Append(processed[id], b) ELSE processed[id]]
      /\ snap' = [snap EXCEPT ![w] = {}]
      /\ wpc[w] = "busy"
  BY DEF workerProcess, registry, feeder
<1>2. /\ snap \in [Workers -> SUBSET Ids] /\ blk \in Nat /\ drops \in Nat
      /\ born \in [Ids -> Nat] /\ \A id \in Ids : processed[id] \in Seq(Nat)
  BY LossTypes, DecoderTypes DEF PromiseInv, LossFull, FullInv
<1>3. b \in 1 .. blk
  <2>1. b # 0 /\ b \in Nat
    BY <1>1, BoundFacts DEF PromiseInv, LossFull, FullInv, TypeInv, HandOK, Blocks
  <2>2. Seen(w, b)
    BY DEF PromiseInv, LossFull, FullInv, BacklogInv, BacklogOf
  <2> QED BY <1>2, <2>1, <2>2 DEF Seen
<1>4. S \subseteq InProcess /\ S \subseteq (Existing \union (InProcess \ Existing))
  BY DEF InProcess
<1>5. InProcess' = InProcess \ S
  <2>1. \A v \in Workers : snap'[v] = IF v = w THEN {} ELSE snap[v]
    BY <1>1, <1>2
  <2>2. \A v \in Workers \ {w} : snap[v] \intersect S = {}
    BY DEF PromiseInv, LossFull, FullInv, StreamInv, SnapInv, OneProcessor
  <2> QED BY <2>1, <2>2 DEF InProcess
<1>6. Existing' = Existing
  BY <1>1 DEF Existing
<1>7. ASSUME NEW id \in S
      PROVE  /\ \A i \in DOMAIN processed[id] : processed[id][i] < b
             /\ b > born[id] => Stream!Missed(id, b) <= drops
  <2>1. id \in Ids
    BY <1>2
  <2>2. \A i \in DOMAIN processed[id] : processed[id][i] < b
    BY <1>7 DEF PromiseInv, LossFull, FullInv, StreamInv, PastInv, After
  <2>3. b > born[id] => b - born[id] - (Done(id) + 1) <= drops
    BY <1>7 DEF PromiseInv, LossFull, LossInv
  <2>4. DOMAIN processed[id] = 1 .. Len(processed[id]) /\ Len(processed[id]) \in Nat
    BY <1>2, <2>1
  <2>5. Done(id) = Cardinality({i \in DOMAIN processed[id] : processed[id][i] > born[id]})
    BY <2>4, Zenon DEF Done, Above
  <2>6. Done(id) \in Nat
    BY <2>4, AboveNat DEF Done
  <2>7. Stream!Missed(id, b) = b - born[id] - 1 - Done(id)
    <3>1. \A X : Stream!Cardinality(X) = Cardinality(X)
      BY Zenon DEF Stream!Cardinality, Cardinality
    <3> QED BY <2>5, <3>1 DEF Stream!Missed
  <2> HIDE DEF b
  <2>8. b - born[id] - 1 - Done(id) = b - born[id] - (Done(id) + 1)
    BY <1>2, <1>3, <2>1, <2>6
  <2> QED BY <2>2, <2>3, <2>7, <2>8
<1>8. Stream!Hear(S, b)
  BY <1>1, <1>3, <1>4, <1>5, <1>6, <1>7 DEF Stream!Hear, Ids
<1> QED BY <1>3, <1>4, <1>8 DEF Stream!Next

LEMMA StreamFollows ==
  PromiseInv /\ [Next]_vars => Stream!Next \/ UNCHANGED Stream!vars
<1> SUFFICES ASSUME PromiseInv, [Next]_vars PROVE Stream!Next \/ UNCHANGED Stream!vars
  OBVIOUS
<1>1. CASE UNCHANGED vars
  BY <1>1, StreamStutters DEF vars, registry, threads, feeder, history
<1>2. CASE \E f \in Freqs, b \in Bauds : addDecoder(f, b)
  BY <1>2, StreamJoin
<1>3. CASE \E id \in Ids : removeDecoder(id)
  <2>1. decoders' \subseteq decoders /\ UNCHANGED <<blk, drops, nextId, snap, processed, born>>
    BY <1>3 DEF removeDecoder, threads, feeder, history
  <2> QED BY <2>1, StreamLeave DEF Existing
<1>4. CASE \E id \in Ids, f \in Freqs : setDecoderFreq(id, f)
  <2>1. PICK d \in decoders, f \in Freqs :
          decoders' = (decoders \ {d}) \union {[d EXCEPT !.freq = f]}
    BY <1>4 DEF setDecoderFreq
  <2>2. [d EXCEPT !.freq = f].id = d.id
    BY DEF PromiseInv, LossFull, FullInv, TypeInv, TypeOK, RegistryOK, DecoderRecord
  <2>3. UNCHANGED <<blk, drops, nextId, snap, processed, born>>
    BY <1>4 DEF setDecoderFreq, threads, feeder, history
  <2>4. Existing' \subseteq Existing
    BY <2>1, <2>2 DEF Existing
  <2> QED BY <2>3, <2>4, StreamLeave
<1>5. CASE (\E f \in Freqs : configure(f)) \/ removeAllBegin \/ startBegin \/ stopBegin
  BY <1>5, StreamStutters
     DEF configure, removeAllBegin, startBegin, stopBegin, registry, threads, feeder, history
<1>6. CASE \E w \in Workers : removeAllFrom(w)
  <2>1. decoders' \subseteq decoders /\ UNCHANGED <<blk, drops, nextId, snap, processed, born>>
    BY <1>6 DEF removeAllFrom, feeder
  <2> QED BY <2>1, StreamLeave DEF Existing
<1>7. CASE startBuild \/ stopNotify
  BY <1>7, StreamStutters DEF startBuild, stopNotify, registry, feeder, history
<1>8. CASE stopJoin
  <2>1. decoders' \subseteq decoders /\ UNCHANGED <<blk, drops, nextId, snap, processed, born>>
    BY <1>8 DEF stopJoin, history
  <2> QED BY <2>1, StreamLeave DEF Existing
<1>9. CASE feedBegin
  <2>1. blk' = blk + 1 /\ UNCHANGED <<drops, nextId, decoders, snap, processed, born>>
    BY <1>9 DEF feedBegin, registry, threads, history
  <2> QED BY <2>1 DEF Stream!Next, Stream!Capture, Existing, InProcess
<1>10. CASE feedLook \/ feedEnd
  BY <1>10, StreamStutters DEF feedLook, feedEnd, registry, threads, history
<1>11. CASE feedPush
  BY <1>11, StreamLose
<1>12. CASE \E w \in Workers : workerLeave(w) \/ workerPop(w) \/ workerArm(w) \/ workerSleep(w)
                              \/ workerSpurious(w)
  BY <1>12, StreamStutters
     DEF workerLeave, workerPop, workerArm, workerSleep, workerSpurious, registry, feeder, history
<1>13. CASE \E w \in Workers : workerSnapshot(w)
  <2>1. PICK w \in Workers : workerSnapshot(w)
    BY <1>13
  <2>2. /\ UNCHANGED <<blk, drops, nextId, decoders, processed, born>>
        /\ snap' = [snap EXCEPT ![w] = SnapshotOf(w)] /\ wpc[w] = "popped"
    BY <2>1 DEF workerSnapshot, registry, feeder, history
  <2>3. snap[w] = {} /\ SnapshotOf(w) \subseteq Existing /\ snap \in [Workers -> SUBSET Ids]
    BY <2>2, DecoderTypes
       DEF PromiseInv, LossFull, FullInv, SnapshotOf, DecodersOn, Existing, TypeInv, TypeOK, ThreadsOK
  <2>4. \A v \in Workers : snap'[v] = IF v = w THEN SnapshotOf(w) ELSE snap[v]
    BY <2>2, <2>3
  <2>5. InProcess' \ Existing = InProcess \ Existing
    BY <2>3, <2>4 DEF InProcess
  <2>6. Existing' = Existing
    BY <2>2 DEF Existing
  <2> QED BY <2>2, <2>5, <2>6 DEF Stream!vars
<1>14. CASE \E w \in Workers : workerProcess(w)
  BY <1>14, StreamHear
<1> QED BY <1>1, <1>2, <1>3, <1>4, <1>5, <1>6, <1>7, <1>8, <1>9, <1>10, <1>11, <1>12, <1>13, <1>14
        DEF Next, GuiCall, RegistryCall, GuiContinue, Feed, worker

(* However many workers, decoders and blocks, and whatever the GUI does     *)
(* while a worker is between two locks, every decoder gets its stream as    *)
(* DecoderStream promises: feed() and workerLoop() implement it.            *)
THEOREM DecodersServed == Spec => KeepsPromise
<1>1. Init => Stream!Init
  BY StreamBegins
<1>2. PromiseInv /\ [Next]_vars => [Stream!Next]_(Stream!vars)
  BY StreamFollows
<1> QED BY <1>1, <1>2, PromiseInvAlways, PTL DEF Spec, KeepsPromise, Stream!Spec

-----------------------------------------------------------------------------
(* No wake-up is lost.                                                      *)

LEMMA SleepStep == TypeInv /\ NoSleepOnBlock /\ [Next]_vars => NoSleepOnBlock'
<1> SUFFICES ASSUME TypeInv, NoSleepOnBlock, [Next]_vars, NEW w \in Workers,
                    wpc'[w] \in {"armed", "asleep"}
             PROVE  queue'[w] = <<>>
  BY DEF NoSleepOnBlock
<1>1. wpc \in [Workers -> WorkerStates] /\ queue \in [Workers -> Seq(Blocks)]
  BY DEF TypeInv, TypeOK, ThreadsOK
<1>2. ASSUME wpc[w] \in {"armed", "asleep"} PROVE queue[w] = <<>>
  BY <1>2 DEF NoSleepOnBlock
<1>3. CASE UNCHANGED <<wpc, queue>>
  BY <1>2, <1>3
<1>4. CASE \E v \in Workers : removeAllFrom(v)
  BY <1>1, <1>2, <1>4 DEF removeAllFrom, BacklogCleared
<1>5. CASE startBuild \/ stopNotify \/ stopJoin
  BY <1>1, <1>2, <1>5 DEF startBuild, stopNotify, stopJoin
<1>6. CASE feedPush
  <2>1. fw \in Workers
    BY <1>6 DEF feedPush, TypeInv, FeedOK
  <2>2. CASE fw = w
    BY <1>1, <1>6, <2>1, <2>2 DEF feedPush, QueueFree, Notified
  <2>3. CASE fw # w
    BY <1>1, <1>2, <1>6, <2>1, <2>3 DEF feedPush, Notified
  <2> QED BY <2>2, <2>3
<1>7. CASE \E v \in Workers : workerPop(v)
  <2>1. PICK v \in Workers : workerPop(v)
    BY <1>7
  <2>2. wpc' = [wpc EXCEPT ![v] = "popped"] /\ queue' = [queue EXCEPT ![v] = Tail(@)]
    BY <2>1 DEF workerPop, Goto
  <2> QED BY <1>1, <1>2, <2>2
<1>8. CASE \E v \in Workers : workerArm(v) \/ workerSleep(v)
  <2>1. PICK v \in Workers : workerArm(v) \/ workerSleep(v)
    BY <1>8
  <2>2. UNCHANGED queue /\ (\A u \in Workers \ {v} : wpc'[u] = wpc[u]) /\ queue[v] = <<>>
    BY <1>1, <2>1 DEF workerArm, workerSleep, Goto, MustWait, NoSleepOnBlock
  <2> QED BY <1>2, <2>2
<1>9. CASE \E v \in Workers : workerLeave(v) \/ workerSnapshot(v) \/ workerProcess(v)
                             \/ workerSpurious(v)
  <2>1. PICK v \in Workers, to \in {"done", "busy", "check"} : UNCHANGED queue /\ Goto(v, to)
    BY <1>9 DEF workerLeave, workerSnapshot, workerProcess, workerSpurious
  <2> QED BY <1>1, <1>2, <2>1 DEF Goto
<1>10. CASE RegistryCall \/ (\E f \in Freqs : configure(f)) \/ startBegin \/ stopBegin
            \/ feedBegin \/ feedLook \/ feedEnd \/ UNCHANGED vars
  BY <1>3, <1>10
     DEF RegistryCall, addDecoder, addToCovering, addWithNewSubBand, removeDecoder, setDecoderFreq,
         removeAllBegin, configure, startBegin, stopBegin, feedBegin, feedLook, feedEnd, vars, threads
<1> QED BY <1>4, <1>5, <1>6, <1>7, <1>8, <1>9, <1>10 DEF Next, GuiCall, GuiContinue, Feed, worker

(* feed()'s notification of a block is never lost, for every pool: what a   *)
(* worker can sleep through is stop() alone (l.49-58, which notifies        *)
(* without qMtx).                                                           *)
THEOREM AlwaysWokenForBlock == Spec => []NoSleepOnBlock
<1>1. Init => TypeInv /\ NoSleepOnBlock
  BY TypeInit DEF Init, NoSleepOnBlock
<1>2. (TypeInv /\ NoSleepOnBlock) /\ [Next]_vars => (TypeInv /\ NoSleepOnBlock)'
  BY TypeStep, SleepStep
<1> QED BY <1>1, <1>2, PTL DEF Spec
=============================================================================
