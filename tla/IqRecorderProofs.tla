--------------------------- MODULE IqRecorderProofs ---------------------------
(* For every size of the ring, width of the byte counter and number of      *)
(* blocks and recordings: what a recording drains from the pre-buffer ring  *)
(* is never in an earlier one, a finished header tells the length of its    *)
(* data, and a recording is one stretch of the stream.                      *)
EXTENDS IqRecorder, TLAPS

LEMMA BoundFacts ==
  /\ Word \in Nat /\ Word >= 1 /\ MaxBlocks \in Nat /\ MaxFiles \in Nat
  /\ RingSizes \subseteq Nat /\ 0 \in RingSizes
BY RecorderAssumption

LEMMA SlotIn == ASSUME NEW a \in Nat, NEW c \in Nat \ {0} PROVE a % c \in 0 .. c - 1
OBVIOUS

LEMMA AvailBounds ==
  ASSUME ringCap \in Nat, ringWrite \in Nat
  PROVE  Avail \in Nat /\ Avail <= ringWrite /\ Avail <= ringCap
BY DEF Avail

LEMMA TailType ==
  ASSUME TypeOK
  PROVE  RingTail \in Seq(0 .. MaxBlocks) /\ Len(RingTail) = Avail
<1>1. ringCap \in Nat /\ ringWrite \in Nat /\ ring \in [0 .. ringCap - 1 -> 0 .. MaxBlocks]
  BY BoundFacts DEF TypeOK
<1>2. Avail \in Nat /\ Avail <= ringWrite /\ Avail <= ringCap
  BY <1>1, AvailBounds
<1>3. ASSUME NEW i \in 1 .. Avail
      PROVE  ring[(ringWrite - Avail + i - 1) % ringCap] \in 0 .. MaxBlocks
  <2>1. ringWrite - Avail + i - 1 \in Nat /\ ringCap \in Nat \ {0}
    BY <1>1, <1>2
  <2>2. (ringWrite - Avail + i - 1) % ringCap \in 0 .. ringCap - 1
    BY <2>1, SlotIn
  <2> QED BY <1>1, <2>2
<1> QED BY <1>2, <1>3 DEF RingTail

(* Updates of one file keep the files well typed, whichever file it is.     *)
LEMMA FileUpdate ==
  ASSUME files \in [Files -> FileRecord], NEW i, NEW r, i \in Files => r \in FileRecord
  PROVE  [files EXCEPT ![i] = r] \in [Files -> FileRecord]
OBVIOUS

LEMMA SizeUpdates ==
  ASSUME NEW r \in FileRecord, NEW n \in Nat
  PROVE  [r EXCEPT !.riff = n] \in FileRecord /\ [r EXCEPT !.size = n] \in FileRecord
BY DEF FileRecord

LEMMA DataUpdate ==
  ASSUME NEW r \in FileRecord, NEW d \in Seq(0 .. MaxBlocks)
  PROVE  [r EXCEPT !.data = d] \in FileRecord
BY DEF FileRecord

LEMMA TornUpdate ==
  ASSUME NEW r \in FileRecord
  PROVE  [r EXCEPT !.torn = TRUE] \in FileRecord
BY DEF FileRecord

-----------------------------------------------------------------------------
(* Type correctness.                                                        *)

LEMMA TypeInit == Init => TypeOK
<1> SUFFICES ASSUME Init PROVE TypeOK
  OBVIOUS
<1>1. /\ recording \in BOOLEAN /\ again \in BOOLEAN /\ overlap \in BOOLEAN
  BY Zenon DEF Init
<1>2. files \in [Files -> FileRecord]
  BY DEF Init, NewFile, FileRecord
<1> QED BY <1>1, <1>2, BoundFacts DEF Init, TypeOK, SdrStates, GuiStates

LEMMA TypeStep == TypeOK /\ [Next]_vars => TypeOK'
<1> SUFFICES ASSUME TypeOK, [Next]_vars PROVE TypeOK'
  OBVIOUS
<1> USE BoundFacts
<1> USE DEF ringVars, fileVars, sdrVars, guiVars
<1>1. ASSUME NEW n \in RingSizes, configurePrebuffer(n) PROVE TypeOK'
  BY <1>1 DEF configurePrebuffer, HeadReset, TypeOK
<1>2. ASSUME NEW r \in BOOLEAN, stopFlag(r) PROVE TypeOK'
  BY <1>2 DEF stopFlag, TypeOK, GuiStates
<1>3. CASE stopRiff
  <2>1. f \in Files => [files[f] EXCEPT !.riff = dataBytes] \in FileRecord
    <3>1. dataBytes \in Nat /\ (f \in Files => files[f] \in FileRecord)
      BY DEF TypeOK
    <3> QED BY <3>1, SizeUpdates
  <2>2. files' \in [Files -> FileRecord]
    BY <1>3, <2>1, FileUpdate DEF stopRiff, TypeOK
  <2> QED BY <1>3, <2>2 DEF stopRiff, TypeOK, GuiStates
<1>4. CASE stopSize
  <2>1. f \in Files => [files[f] EXCEPT !.size = dataBytes] \in FileRecord
    <3>1. dataBytes \in Nat /\ (f \in Files => files[f] \in FileRecord)
      BY DEF TypeOK
    <3> QED BY <3>1, SizeUpdates
  <2>2. files' \in [Files -> FileRecord]
    BY <1>4, <2>1, FileUpdate DEF stopSize, TypeOK
  <2> QED BY <1>4, <2>2 DEF stopSize, TypeOK, GuiStates
<1>5. CASE stopClose
  BY <1>5 DEF stopClose, TypeOK, GuiStates
<1>6. CASE stopZero
  BY <1>6 DEF stopZero, HeadZeroed, TypeOK, GuiStates
<1>7. CASE startButton
  BY <1>7 DEF startButton, TypeOK, GuiStates
<1>8. CASE startOpen
  BY <1>8 DEF startOpen, TypeOK, GuiStates
<1>9. CASE startHeader
  BY <1>9 DEF startHeader, TypeOK, GuiStates
<1>10. CASE startDrain
  <2>1. RingTail \in Seq(0 .. MaxBlocks) /\ Avail \in Nat
    BY TailType, AvailBounds DEF TypeOK
  <2>2. dataBytes' \in 0 .. Word - 1
    <3>1. dataBytes + Avail \in Nat
      BY <2>1 DEF TypeOK
    <3> QED BY <1>10, <3>1, SlotIn DEF startDrain
  <2>3. files' \in [Files -> FileRecord]
    <3>1. f \in Files => files[f].data \o RingTail \in Seq(0 .. MaxBlocks)
      BY <2>1 DEF TypeOK, FileRecord
    <3>2. f \in Files => [files[f] EXCEPT !.data = files[f].data \o RingTail] \in FileRecord
      BY <3>1, DataUpdate DEF TypeOK
    <3> QED BY <1>10, <3>2, FileUpdate DEF startDrain, TypeOK
  <2>4. drained' \in [Files -> [from : Nat, to : Nat]]
    <3>1. f \in Files => Len(files[f].data) \in Nat
      BY DEF TypeOK, FileRecord
    <3>2. f \in Files =>
            [from |-> Len(files[f].data), to |-> Len(files[f].data) + Avail] \in [from : Nat, to : Nat]
      BY <2>1, <3>1
    <3>3. f \in 0 .. MaxFiles /\ drained \in [Files -> [from : Nat, to : Nat]]
      BY DEF TypeOK
    <3>4. drained' = [drained EXCEPT ![f] =
            [from |-> Len(files[f].data), to |-> Len(files[f].data) + Avail]]
      BY <1>10 DEF startDrain
    <3> QED BY <3>2, <3>3, <3>4
  <2> QED BY <1>10, <2>2, <2>3, <2>4 DEF startDrain, TypeOK, GuiStates
<1>11. CASE startFlag
  BY <1>11 DEF startFlag, TypeOK, GuiStates
<1>12. CASE sdrBlock
  BY <1>12 DEF sdrBlock, TypeOK, SdrStates
<1>13. CASE sdrPrebuffer
  <2>1. ASSUME ringCap # 0
        PROVE  [ring EXCEPT ![ringWrite % ringCap] = blk] \in [0 .. ringCap - 1 -> 0 .. MaxBlocks]
    BY DEF TypeOK
  <2>2. ring' \in [0 .. ringCap - 1 -> 0 .. MaxBlocks] /\ ringWrite' \in Nat /\ ringCap' = ringCap
    <3>1. CASE ringCap = 0
      BY <1>13, <3>1 DEF sdrPrebuffer, TypeOK
    <3>2. CASE ringCap # 0
      <4>1. /\ ring' = [ring EXCEPT ![ringWrite % ringCap] = blk]
            /\ ringWrite' = ringWrite + 1 /\ ringCap' = ringCap
        BY <1>13, <3>2 DEF sdrPrebuffer
      <4> QED BY <4>1, <2>1, <3>2 DEF TypeOK
    <3> QED BY <3>1, <3>2
  <2>3. spc' \in SdrStates /\ crashed' \in {"no", "divide", "file"}
    BY <1>13 DEF sdrPrebuffer, TypeOK, SdrStates
  <2> QED BY <1>13, <2>2, <2>3 DEF sdrPrebuffer, TypeOK
<1>14. CASE sdrCheck
  BY <1>14 DEF sdrCheck, TypeOK, SdrStates
<1>15. CASE sdrTest
  BY <1>15 DEF sdrTest, TypeOK, SdrStates
<1>16. CASE sdrAppend
  <2>1. f \in Files => Append(files[f].data, blk) \in Seq(0 .. MaxBlocks)
    BY DEF TypeOK, FileRecord
  <2>2. f \in Files => /\ [files[f] EXCEPT !.torn = TRUE] \in FileRecord
                       /\ [files[f] EXCEPT !.data = Append(files[f].data, blk)] \in FileRecord
    BY <2>1, DataUpdate, TornUpdate DEF TypeOK
  <2>3. files' \in [Files -> FileRecord]
    <3>1. CASE files' = files
      BY <3>1 DEF TypeOK
    <3>2. CASE files' # files
      <4>1. CASE InHeader
        <5>1. files' = [files EXCEPT ![f] = [files[f] EXCEPT !.torn = TRUE]]
          BY <1>16, <3>2, <4>1 DEF sdrAppend
        <5> QED BY <5>1, <2>2, FileUpdate DEF TypeOK
      <4>2. CASE ~InHeader
        <5>1. files' = [files EXCEPT ![f] = [files[f] EXCEPT !.data = Append(files[f].data, blk)]]
          BY <1>16, <3>2, <4>2 DEF sdrAppend
        <5> QED BY <5>1, <2>2, FileUpdate DEF TypeOK
      <4> QED BY <4>1, <4>2
    <3> QED BY <3>1, <3>2
  <2>4. spc' \in SdrStates /\ crashed' \in {"no", "divide", "file"}
    BY <1>16 DEF sdrAppend, TypeOK, SdrStates
  <2> QED BY <1>16, <2>3, <2>4 DEF sdrAppend, TypeOK
<1>17. CASE sdrCount
  <2>1. dataBytes' \in 0 .. Word - 1
    <3>1. dataBytes + 1 \in Nat
      BY DEF TypeOK
    <3>2. (dataBytes + 1) % Word \in 0 .. Word - 1
      BY <3>1, SlotIn
    <3> QED BY <1>17, <3>2 DEF sdrCount, OneMore
  <2> QED BY <1>17, <2>1 DEF sdrCount, TypeOK, SdrStates
<1>18. CASE UNCHANGED vars
  BY <1>18 DEF vars, TypeOK
<1> QED
  BY <1>1, <1>2, <1>3, <1>4, <1>5, <1>6, <1>7, <1>8, <1>9, <1>10, <1>11, <1>12, <1>13,
     <1>14, <1>15, <1>16, <1>17, <1>18 DEF Next, Gui, Sdr
(* Every variable of the recorder keeps its type, whatever the two threads  *)
(* do to the file and the counter they share.                               *)
THEOREM TypeAlways == Spec => []TypeOK
BY TypeInit, TypeStep, PTL DEF Spec

-----------------------------------------------------------------------------
(* NoBleed is about files that are closed and a ring that goes on, so the   *)
(* invariant says when a file is closed for good, and what the ring holds.  *)

(* The open file is the last one; none is open where a new one begins.      *)
FileInv ==
  /\ f \in {0, opened}
  /\ gpc \in {"riff", "size", "close", "header", "drain", "flag"} => f # 0
  /\ gpc \in {"zero", "open"} => f = 0
  /\ gpc = "idle" /\ ~recording => f = 0

(* Files that get no more data and whose blocks stop() has driven out of    *)
(* the ring.                                                                *)
Sealed == IF f # 0 \/ gpc = "zero" THEN 1 .. opened - 1 ELSE 1 .. opened

(* What start() would drain now.                                            *)
Held == {ring[k % ringCap] : k \in ringWrite - Avail .. ringWrite - 1}

(* Between being counted and being put into the ring a block is nowhere.    *)
Seen == IF spc = "pre" THEN blk - 1 ELSE blk

DataInv ==
  /\ \A i \in Files : i > opened => files[i].data = <<>>
  /\ \A i \in Files : drained[i].to <= Len(files[i].data)
  /\ \A i \in Files : \A k \in DOMAIN files[i].data : files[i].data[k] <= Seen
  /\ \A b \in Held : b <= Seen

SealedInv == \A i \in Sealed : Elements(files[i].data) \intersect Held = {}

BleedInv == TypeOK /\ FileInv /\ DataInv /\ SealedInv /\ NoBleed

LEMMA BleedInit == Init => BleedInv
<1> SUFFICES ASSUME Init PROVE BleedInv
  OBVIOUS
<1>1. TypeOK
  BY TypeInit
<1>2. FileInv
  BY DEF Init, FileInv
<1>3. \A i \in Files : files[i].data = <<>> /\ drained[i] = [from |-> 0, to |-> 0]
  BY DEF Init, NewFile
<1>4. Held = {}
  BY DEF Init, Held, Avail
<1>5. DataInv
  BY <1>3, <1>4 DEF DataInv
<1>6. SealedInv /\ NoBleed
  <2>1. \A i \in Files : Elements(files[i].data) = {}
    BY <1>3 DEF Elements
  <2>2. SealedInv
    BY <1>4 DEF SealedInv
  <2> QED BY <2>1, <2>2 DEF NoBleed
<1> QED BY <1>1, <1>2, <1>5, <1>6 DEF BleedInv

LEMMA FileStep == TypeOK /\ FileInv /\ [Next]_vars => FileInv'
<1> SUFFICES ASSUME TypeOK, FileInv, [Next]_vars PROVE FileInv'
  OBVIOUS
<1>t. opened \in Nat /\ f \in Nat
  BY BoundFacts DEF TypeOK
<1> USE DEF ringVars, fileVars, sdrVars, guiVars, GuiIdle, FileInv
<1>1. ASSUME NEW n \in RingSizes, configurePrebuffer(n) PROVE FileInv'
  BY <1>1 DEF configurePrebuffer
<1>2. ASSUME NEW r \in BOOLEAN, stopFlag(r) PROVE FileInv'
  BY <1>2 DEF stopFlag
<1>3. CASE stopRiff
  BY <1>3 DEF stopRiff
<1>4. CASE stopSize
  BY <1>4 DEF stopSize
<1>5. CASE stopClose
  BY <1>5 DEF stopClose
<1>6. CASE stopZero
  BY <1>6 DEF stopZero
<1>7. CASE startButton
  BY <1>7 DEF startButton
<1>8. CASE startOpen
  BY <1>8, <1>t DEF startOpen
<1>9. CASE startHeader
  BY <1>9 DEF startHeader
<1>10. CASE startDrain
  BY <1>10 DEF startDrain
<1>11. CASE startFlag
  BY <1>11 DEF startFlag
<1>12. CASE sdrBlock
  BY <1>12 DEF sdrBlock
<1>13. CASE sdrPrebuffer
  BY <1>13 DEF sdrPrebuffer
<1>14. CASE sdrCheck
  BY <1>14 DEF sdrCheck
<1>15. CASE sdrTest
  BY <1>15 DEF sdrTest
<1>16. CASE sdrAppend
  BY <1>16 DEF sdrAppend
<1>17. CASE sdrCount
  BY <1>17 DEF sdrCount
<1>18. CASE UNCHANGED vars
  BY <1>18 DEF vars
<1> QED
  BY <1>1, <1>2, <1>3, <1>4, <1>5, <1>6, <1>7, <1>8, <1>9, <1>10, <1>11, <1>12, <1>13,
     <1>14, <1>15, <1>16, <1>17, <1>18 DEF Next, Gui, Sdr

-----------------------------------------------------------------------------
(* The ring: unchanged, emptied, or richer by the block in hand.            *)

LEMMA HeldKept == UNCHANGED ringVars => Held' = Held
BY DEF ringVars, Held, Avail

LEMMA HeldGone == TypeOK' /\ ringWrite' = 0 => Held' = {}
<1> SUFFICES ASSUME TypeOK', ringWrite' = 0 PROVE Held' = {}
  OBVIOUS
<1>1. ringCap' \in Nat
  BY BoundFacts DEF TypeOK
<1>2. Avail' = 0
  BY <1>1 DEF Avail
<1> QED BY <1>2 DEF Held

LEMMA HeldPushed ==
  ASSUME TypeOK, ringCap # 0, ringCap' = ringCap, ringWrite' = ringWrite + 1,
         ring' = [ring EXCEPT ![ringWrite % ringCap] = blk]
  PROVE  Held' \subseteq Held \union {blk}
<1>1. /\ ringCap \in Nat \ {0} /\ ringWrite \in Nat
      /\ ring \in [0 .. ringCap - 1 -> 0 .. MaxBlocks]
  BY BoundFacts DEF TypeOK
<1>2. /\ Avail = (IF ringWrite < ringCap THEN ringWrite ELSE ringCap)
      /\ Avail' = (IF ringWrite + 1 < ringCap THEN ringWrite + 1 ELSE ringCap)
  BY DEF Avail
<1> SUFFICES ASSUME NEW k \in (ringWrite' - Avail') .. (ringWrite' - 1)
             PROVE  ring'[k % ringCap] \in Held \union {blk}
  BY DEF Held
<1>3. k \in Nat /\ k >= ringWrite - Avail /\ k <= ringWrite
  BY <1>1, <1>2
<1>4. k % ringCap \in 0 .. ringCap - 1
  BY <1>1, <1>3, SlotIn
<1>5. CASE k % ringCap = ringWrite % ringCap
  BY <1>1, <1>4, <1>5
<1>6. CASE k % ringCap # ringWrite % ringCap
  <2>1. ring'[k % ringCap] = ring[k % ringCap]
    BY <1>1, <1>4, <1>6
  <2>2. k # ringWrite
    BY <1>6
  <2>3. k \in (ringWrite - Avail) .. (ringWrite - 1)
    BY <1>1, <1>2, <1>3, <2>2
  <2> QED BY <2>1, <2>3 DEF Held
<1> QED BY <1>5, <1>6

LEMMA HeldNat == ASSUME TypeOK PROVE Held \subseteq 0 .. MaxBlocks
<1>1. /\ ringCap \in Nat /\ ringWrite \in Nat /\ Avail \in Nat
      /\ Avail <= ringWrite /\ Avail <= ringCap
      /\ ring \in [0 .. ringCap - 1 -> 0 .. MaxBlocks]
  <2>1. ringCap \in Nat /\ ringWrite \in Nat /\ ring \in [0 .. ringCap - 1 -> 0 .. MaxBlocks]
    BY BoundFacts DEF TypeOK
  <2> QED BY <2>1, AvailBounds
<1>2. ASSUME NEW k \in ringWrite - Avail .. ringWrite - 1 PROVE ring[k % ringCap] \in 0 .. MaxBlocks
  <2>1. k \in Nat /\ ringCap \in Nat \ {0}
    BY <1>1
  <2>2. k % ringCap \in 0 .. ringCap - 1
    BY <2>1, SlotIn
  <2> QED BY <1>1, <2>2
<1> QED BY <1>2 DEF Held

-----------------------------------------------------------------------------
(* What a step does to the files.                                           *)

LEMMA FileFacts ==
  ASSUME TypeOK
  PROVE  /\ opened \in 0 .. MaxFiles /\ MaxFiles \in Nat /\ blk \in Nat /\ Seen \in Int
         /\ \A i \in Files : /\ i \in Nat /\ i >= 1
                            /\ files[i].data \in Seq(0 .. MaxBlocks)
                            /\ Len(files[i].data) \in Nat
                            /\ DOMAIN files[i].data = 1 .. Len(files[i].data)
                            /\ drained[i].from \in Nat /\ drained[i].to \in Nat
<1>1. opened \in 0 .. MaxFiles /\ MaxFiles \in Nat /\ blk \in Nat /\ Seen \in Int
  BY BoundFacts DEF TypeOK, Seen
<1>2. ASSUME NEW i \in Files PROVE files[i].data \in Seq(0 .. MaxBlocks)
  BY DEF TypeOK, FileRecord
<1>3. ASSUME NEW i \in Files PROVE drained[i].from \in Nat /\ drained[i].to \in Nat
  BY DEF TypeOK
<1> QED BY <1>1, <1>2, <1>3, BoundFacts DEF Files

(* No file changes; what comes into the ring is in none of them.            *)
LEMMA DataKept ==
  ASSUME TypeOK, TypeOK', DataInv, SealedInv, NoBleed, NEW STATE E,
         \A i \in Files : files'[i].data = files[i].data,
         drained' = drained, opened' >= opened, Seen' >= Seen,
         Held' \subseteq Held \union E,
         \A b \in E : b <= Seen',
         \A i \in Files : Elements(files[i].data) \intersect E = {},
         Sealed' \subseteq Sealed \/ Held' = {}
  PROVE  DataInv' /\ SealedInv' /\ NoBleed'
<1>1. /\ opened \in Nat /\ opened' \in 0 .. MaxFiles /\ Seen \in Int /\ Seen' \in Int
      /\ MaxFiles \in Nat
  <2>1. opened \in 0 .. MaxFiles /\ Seen \in Int /\ MaxFiles \in Nat
    BY FileFacts
  <2>2. opened' \in 0 .. MaxFiles /\ Seen' \in Int
    BY BoundFacts DEF TypeOK, Seen
  <2> QED BY <2>1, <2>2
<1>2. DataInv'
  <2>1. ASSUME NEW i \in Files, i > opened' PROVE files'[i].data = <<>>
    BY <1>1, <2>1, FileFacts DEF DataInv
  <2>2. ASSUME NEW i \in Files PROVE drained'[i].to <= Len(files'[i].data)
    BY DEF DataInv
  <2>3. ASSUME NEW i \in Files, NEW k \in DOMAIN files'[i].data PROVE files'[i].data[k] <= Seen'
    <3>1. /\ DOMAIN files[i].data = 1 .. Len(files[i].data) /\ k \in DOMAIN files[i].data
          /\ files[i].data \in Seq(0 .. MaxBlocks)
      BY FileFacts
    <3>2. files[i].data[k] \in Nat /\ files[i].data[k] <= Seen
      BY <3>1, <1>1, BoundFacts DEF DataInv
    <3> QED BY <3>2, <1>1
  <2>4. ASSUME NEW b \in Held' PROVE b <= Seen'
    <3>1. CASE b \in E
      BY <3>1
    <3>2. CASE b \in Held
      <4>1. b \in Nat
        BY HeldNat, <3>2
      <4> QED BY <4>1, <3>2, <1>1 DEF DataInv
    <3> QED BY <3>1, <3>2
  <2> QED BY <2>1, <2>2, <2>3, <2>4 DEF DataInv
<1>3. SealedInv'
  <2>1. CASE Held' = {}
    BY <2>1 DEF SealedInv
  <2>2. CASE Sealed' \subseteq Sealed
    <3>1. Sealed \subseteq Files
      BY FileFacts DEF Sealed, Files
    <3>2. ASSUME NEW i \in Sealed' PROVE Elements(files'[i].data) \intersect Held' = {}
      <4>1. i \in Files /\ i \in Sealed /\ files'[i].data = files[i].data
        BY <2>2, <3>1
      <4> QED BY <4>1 DEF SealedInv
    <3> QED BY <3>2 DEF SealedInv
  <2> QED BY <2>1, <2>2
<1>4. NoBleed'
  <2>1. \A i \in Files : FromRing(i)' = FromRing(i)
    BY DEF FromRing
  <2> QED BY <2>1 DEF NoBleed
<1> QED BY <1>2, <1>3, <1>4

(* The open file grows by d; what it holds from the ring is as before, or   *)
(* what the ring holds now.                                                 *)
LEMMA DataGrown ==
  ASSUME TypeOK, FileInv, DataInv, SealedInv, NoBleed, NEW STATE d,
         d \in Seq(0 .. MaxBlocks),
         f # 0, Sealed' = Sealed, Held' = Held, Seen' = Seen, opened' = opened,
         \A i \in Files \ {f} : files'[i].data = files[i].data /\ drained'[i] = drained[i],
         files'[f].data = files[f].data \o d,
         \A k \in DOMAIN d : d[k] <= Seen,
         drained'[f].to <= Len(files[f].data \o d),
         {files'[f].data[k] : k \in drained'[f].from + 1 .. drained'[f].to}
           \subseteq FromRing(f) \union Held
  PROVE  DataInv' /\ SealedInv' /\ NoBleed'
<1>1. f = opened /\ f \in Files /\ Sealed = 1 .. opened - 1
  BY BoundFacts DEF FileInv, TypeOK, Files, Sealed
<1>2. DataInv'
  <2>1. ASSUME NEW i \in Files, i > opened' PROVE files'[i].data = <<>>
    <3>1. i # f /\ i > opened
      BY <1>1, <2>1, FileFacts
    <3>2. files'[i].data = files[i].data
      BY <3>1
    <3> QED BY <3>1, <3>2 DEF DataInv
  <2>2. ASSUME NEW i \in Files PROVE drained'[i].to <= Len(files'[i].data)
    BY <1>1 DEF DataInv
  <2>3. ASSUME NEW i \in Files, NEW k \in DOMAIN files'[i].data PROVE files'[i].data[k] <= Seen'
    <3>1. CASE i # f
      BY <3>1 DEF DataInv
    <3>2. CASE i = f
      <4>1. files[f].data \in Seq(0 .. MaxBlocks)
        BY <1>1, FileFacts
      <4>2. k \in 1 .. Len(files[f].data) + Len(d)
        BY <3>2, <4>1
      <4>3. CASE k <= Len(files[f].data)
        <5>1. k \in DOMAIN files[f].data /\ (files[f].data \o d)[k] = files[f].data[k]
          BY <4>1, <4>2, <4>3
        <5> QED BY <5>1, <3>2, <1>1 DEF DataInv
      <4>4. CASE k > Len(files[f].data)
        <5>1. /\ k - Len(files[f].data) \in DOMAIN d
              /\ (files[f].data \o d)[k] = d[k - Len(files[f].data)]
          BY <4>1, <4>2, <4>4
        <5> QED BY <5>1, <3>2
      <4> QED BY <4>1, <4>2, <4>3, <4>4
    <3> QED BY <3>1, <3>2
  <2> QED BY <2>1, <2>2, <2>3 DEF DataInv
<1>3. SealedInv'
  <2>1. \A i \in Sealed : i \in Files \ {f}
    BY <1>1, FileFacts DEF Files
  <2> QED BY <2>1 DEF SealedInv
<1>4. NoBleed'
  <2> SUFFICES ASSUME NEW i \in Files, NEW j \in Files, i < j
               PROVE  Elements(files'[i].data) \intersect FromRing(j)' = {}
    BY DEF NoBleed
  <2>1. CASE j = f
    <3>1. i \in Sealed /\ i # f
      BY <1>1, <2>1, FileFacts
    <3>2. /\ Elements(files[i].data) \intersect Held = {}
          /\ Elements(files[i].data) \intersect FromRing(f) = {}
      BY <3>1, <1>1, <2>1 DEF SealedInv, NoBleed
    <3>3. files'[i].data = files[i].data /\ FromRing(j)' \subseteq FromRing(f) \union Held
      BY <3>1, <2>1 DEF FromRing
    <3>4. Elements(files'[i].data) = Elements(files[i].data)
      BY <3>3 DEF Elements
    <3> QED BY <3>2, <3>3, <3>4
  <2>2. CASE j # f
    <3>1. FromRing(j)' = FromRing(j)
      BY <2>2 DEF FromRing
    <3>2. CASE i # f
      BY <3>1, <3>2 DEF NoBleed
    <3>3. CASE i = f
      <4>1. files[j].data = <<>>
        BY <3>3, <1>1, FileFacts DEF DataInv
      <4>2. drained[j].to <= 0 /\ drained[j].from \in Nat /\ drained[j].to \in Nat
        BY <4>1, FileFacts DEF DataInv
      <4>3. FromRing(j) = {}
        BY <4>2 DEF FromRing
      <4> QED BY <3>1, <4>3
    <3> QED BY <3>2, <3>3
  <2> QED BY <2>1, <2>2
<1> QED BY <1>2, <1>3, <1>4

-----------------------------------------------------------------------------
(* The steps.                                                               *)

(* A step that puts nothing into a file or into the ring.                   *)
LEMMA Quiet ==
  ASSUME BleedInv, TypeOK', FileInv',
         \A i \in Files : files'[i].data = files[i].data,
         drained' = drained, opened' >= opened, Seen' >= Seen,
         Held' \subseteq Held,
         Sealed' \subseteq Sealed \/ Held' = {}
  PROVE  BleedInv'
<1>0. TypeOK /\ DataInv /\ SealedInv /\ NoBleed
  BY DEF BleedInv
<1>1. /\ Held' \subseteq Held \union {}
      /\ \A b \in {} : b <= Seen'
      /\ \A i \in Files : Elements(files[i].data) \intersect {} = {}
  OBVIOUS
<1>2. DataInv' /\ SealedInv' /\ NoBleed'
  BY <1>0, <1>1, DataKept
<1> QED BY <1>2 DEF BleedInv

(* The block in hand goes into the ring; no file holds it yet.              *)
LEMMA PrebufferStep ==
  ASSUME BleedInv, TypeOK', FileInv', sdrPrebuffer
  PROVE  BleedInv'
<1>1. TypeOK /\ FileInv /\ DataInv /\ SealedInv /\ NoBleed
  BY DEF BleedInv
<1>2. /\ files' = files /\ drained' = drained /\ opened' = opened /\ blk' = blk
      /\ f' = f /\ gpc' = gpc /\ spc = "pre"
  BY DEF sdrPrebuffer, fileVars, guiVars
<1>3. blk \in Nat /\ opened \in Nat /\ opened' >= opened
  BY <1>1, <1>2, FileFacts
<1>4. Sealed' = Sealed
  BY <1>2 DEF Sealed
<1>5. CASE ringCap = 0
  <2>1. UNCHANGED ringVars /\ spc' = spc
    BY <1>5 DEF sdrPrebuffer, ringVars
  <2>2. Held' = Held /\ Seen' = Seen
    BY <2>1, <1>2, HeldKept DEF Seen
  <2>3. Seen' >= Seen
    BY <2>2, <1>2, <1>3 DEF Seen
  <2> QED BY <2>2, <2>3, <1>2, <1>3, <1>4, Quiet
<1>6. CASE ringCap # 0
  <2>1. Held' \subseteq Held \union {blk}
    BY <1>1, <1>6, HeldPushed DEF sdrPrebuffer
  <2>2. Seen = blk - 1 /\ Seen' = blk
    BY <1>2, <1>6 DEF sdrPrebuffer, Seen
  <2>3. ASSUME NEW i \in Files PROVE Elements(files[i].data) \intersect {blk} = {}
    <3>1. ASSUME NEW k \in DOMAIN files[i].data PROVE files[i].data[k] # blk
      <4>1. files[i].data[k] \in Nat /\ files[i].data[k] <= blk - 1
        BY <1>1, <2>2, FileFacts, BoundFacts DEF DataInv
      <4> QED BY <4>1, <1>3
    <3> QED BY <3>1 DEF Elements
  <2>4. Seen' >= Seen /\ \A b \in {blk} : b <= Seen'
    BY <2>2, <1>3
  <2>5. DataInv' /\ SealedInv' /\ NoBleed'
    BY <1>1, <1>2, <1>3, <1>4, <2>1, <2>3, <2>4, DataKept
  <2> QED BY <2>5 DEF BleedInv
<1> QED BY <1>5, <1>6

(* The ring goes into the open file.                                        *)
LEMMA DrainStep ==
  ASSUME BleedInv, TypeOK', FileInv', startDrain
  PROVE  BleedInv'
<1>1. TypeOK /\ FileInv /\ DataInv /\ SealedInv /\ NoBleed
  BY DEF BleedInv
<1>2. /\ UNCHANGED ringVars /\ opened' = opened /\ blk' = blk /\ spc' = spc /\ f' = f
      /\ gpc = "drain" /\ gpc' = "flag"
  BY DEF startDrain, ringVars, sdrVars
<1>3. f # 0 /\ f \in Files
  BY <1>1, <1>2, BoundFacts DEF FileInv, TypeOK, Files
<1>4. Sealed' = Sealed /\ Seen' = Seen /\ Held' = Held
  BY <1>2, <1>3, HeldKept DEF Sealed, Seen
<1>5. RingTail \in Seq(0 .. MaxBlocks) /\ Len(RingTail) = Avail
  BY <1>1, TailType
<1>6. /\ ringWrite \in Nat /\ ringCap \in Nat /\ Avail \in Nat /\ Avail <= ringWrite
  <2>1. ringWrite \in Nat /\ ringCap \in Nat
    BY <1>1, BoundFacts DEF TypeOK
  <2> QED BY <2>1, AvailBounds
<1>7. ASSUME NEW k \in 1 .. Avail PROVE RingTail[k] \in Held
  <2>1. RingTail[k] = ring[(ringWrite - Avail + k - 1) % ringCap]
    BY DEF RingTail
  <2>2. ringWrite - Avail + k - 1 \in ringWrite - Avail .. ringWrite - 1
    BY <1>6
  <2> QED BY <2>1, <2>2 DEF Held
<1>8. \A k \in DOMAIN RingTail : RingTail[k] <= Seen
  BY <1>1, <1>5, <1>7 DEF DataInv
<1>9. files \in [Files -> FileRecord] /\ drained \in [Files -> [from : Nat, to : Nat]]
  BY <1>1 DEF TypeOK
<1>10. files'[f].data = files[f].data \o RingTail
  BY <1>3, <1>9 DEF startDrain, FileRecord
<1>11. \A i \in Files \ {f} : files'[i].data = files[i].data /\ drained'[i] = drained[i]
  BY <1>3, <1>9 DEF startDrain
<1>12. drained'[f].from = Len(files[f].data) /\ drained'[f].to = Len(files[f].data) + Avail
  BY <1>3, <1>9 DEF startDrain
<1>13. files[f].data \in Seq(0 .. MaxBlocks) /\ Len(files[f].data) \in Nat
  BY <1>1, <1>3, FileFacts
<1>14. drained'[f].to <= Len(files[f].data \o RingTail)
  BY <1>12, <1>13, <1>5, <1>6
<1>15. {files'[f].data[k] : k \in drained'[f].from + 1 .. drained'[f].to}
         \subseteq FromRing(f) \union Held
  <2>1. ASSUME NEW k \in Len(files[f].data) + 1 .. Len(files[f].data) + Avail
        PROVE  (files[f].data \o RingTail)[k] \in Held
    <3>1. /\ k - Len(files[f].data) \in 1 .. Avail
          /\ (files[f].data \o RingTail)[k] = RingTail[k - Len(files[f].data)]
      BY <1>5, <1>6, <1>13
    <3> QED BY <3>1, <1>7
  <2> QED BY <2>1, <1>10, <1>12
<1>16. DataInv' /\ SealedInv' /\ NoBleed'
  BY <1>1, <1>2, <1>3, <1>4, <1>5, <1>8, <1>10, <1>11, <1>14, <1>15, DataGrown
<1> QED BY <1>16 DEF BleedInv

(* The block in hand goes into the open file, or over its header.           *)
LEMMA AppendStep ==
  ASSUME BleedInv, TypeOK', FileInv', sdrAppend
  PROVE  BleedInv'
<1>1. TypeOK /\ FileInv /\ DataInv /\ SealedInv /\ NoBleed
  BY DEF BleedInv
<1>2. /\ UNCHANGED ringVars /\ opened' = opened /\ blk' = blk /\ f' = f /\ gpc' = gpc
      /\ drained' = drained /\ spc = "append" /\ spc' \in {"append", "count"}
  BY DEF sdrAppend, ringVars, guiVars
<1>3. Sealed' = Sealed /\ Seen' = Seen /\ Held' = Held /\ Seen = blk
  BY <1>2, HeldKept DEF Sealed, Seen
<1>4. blk \in 0 .. MaxBlocks /\ blk \in Nat /\ opened \in Nat
      /\ files \in [Files -> FileRecord]
  BY <1>1, BoundFacts DEF TypeOK
<1>5. CASE \A i \in Files : files'[i].data = files[i].data
  BY <1>2, <1>3, <1>4, <1>5, Quiet
<1>6. CASE files' = files
  BY <1>5, <1>6
<1>7. CASE f # 0 /\ InHeader /\ files' = [files EXCEPT ![f].torn = TRUE]
  <2>1. ASSUME NEW i \in Files PROVE files'[i].data = files[i].data
    BY <1>4, <1>7 DEF FileRecord
  <2> QED BY <2>1, <1>5
<1>8. CASE f # 0 /\ files' = [files EXCEPT ![f].data = Append(@, blk)]
  <2>1. f \in Files
    BY <1>1, <1>8, BoundFacts DEF TypeOK, Files
  <2>2. files[f].data \in Seq(0 .. MaxBlocks) /\ Len(files[f].data) \in Nat
    BY <1>1, <2>1, FileFacts
  <2>3. <<blk>> \in Seq(0 .. MaxBlocks) /\ \A k \in DOMAIN <<blk>> : <<blk>>[k] <= Seen
    BY <1>3, <1>4
  <2>4. files'[f].data = files[f].data \o <<blk>>
    <3>1. files'[f].data = Append(files[f].data, blk)
      BY <1>4, <1>8, <2>1 DEF FileRecord
    <3> QED BY <3>1, <2>2
  <2>5. \A i \in Files \ {f} : files'[i].data = files[i].data /\ drained'[i] = drained[i]
    BY <1>2, <1>4, <1>8, <2>1
  <2>6. drained[f].from \in Nat /\ drained[f].to \in Nat /\ drained[f].to <= Len(files[f].data)
    BY <1>1, <2>1, FileFacts DEF DataInv
  <2>7. drained'[f].to <= Len(files[f].data \o <<blk>>)
    BY <1>2, <2>2, <2>6
  <2>8. {files'[f].data[k] : k \in drained'[f].from + 1 .. drained'[f].to}
          \subseteq FromRing(f) \union Held
    <3>1. ASSUME NEW k \in drained[f].from + 1 .. drained[f].to
          PROVE  (files[f].data \o <<blk>>)[k] = files[f].data[k]
      BY <2>2, <2>6
    <3> QED BY <3>1, <2>4, <1>2 DEF FromRing
  <2>9. DataInv' /\ SealedInv' /\ NoBleed'
    BY <1>1, <1>2, <1>3, <1>8, <2>3, <2>4, <2>5, <2>7, <2>8, DataGrown
  <2> QED BY <2>9 DEF BleedInv
<1> QED BY <1>6, <1>7, <1>8 DEF sdrAppend

LEMMA BleedStep == BleedInv /\ [Next]_vars => BleedInv'
<1> SUFFICES ASSUME BleedInv, [Next]_vars PROVE BleedInv'
  OBVIOUS
<1>1. TypeOK /\ FileInv
  BY DEF BleedInv
<1>2. TypeOK' /\ FileInv'
  BY <1>1, TypeStep, FileStep
<1>3. opened \in Nat /\ blk \in Nat /\ Seen \in Int /\ f \in Nat
      /\ files \in [Files -> FileRecord]
  BY <1>1, FileFacts, BoundFacts DEF TypeOK
<1>4. ASSUME UNCHANGED ringVars PROVE Held' = Held
  BY <1>4, HeldKept
<1> USE DEF GuiIdle, fileVars, sdrVars, guiVars
<1>5. ASSUME NEW n \in RingSizes, configurePrebuffer(n) PROVE BleedInv'
  <2>1. Held' = {}
    BY <1>2, <1>5, HeldGone DEF configurePrebuffer, HeadReset
  <2>2. files' = files /\ drained' = drained /\ opened' = opened /\ Seen' = Seen
    BY <1>5 DEF configurePrebuffer, Seen
  <2> QED BY <1>2, <1>3, <2>1, <2>2, Quiet
<1>6. ASSUME NEW r \in BOOLEAN, stopFlag(r) PROVE BleedInv'
  <2>1. /\ UNCHANGED ringVars /\ files' = files /\ drained' = drained /\ opened' = opened
        /\ Seen' = Seen
    BY <1>6 DEF stopFlag, Seen
  <2>2. Sealed' \subseteq Sealed
    BY <1>6 DEF stopFlag, Sealed
  <2> QED BY <1>2, <1>3, <1>4, <2>1, <2>2, Quiet
<1>7. CASE stopRiff
  <2>1. /\ UNCHANGED ringVars /\ drained' = drained /\ opened' = opened /\ Seen' = Seen
        /\ Sealed' = Sealed
    BY <1>7, <1>1 DEF stopRiff, Seen, Sealed, FileInv
  <2>2. \A i \in Files : files'[i].data = files[i].data
    BY <1>7, <1>3 DEF stopRiff, FileRecord
  <2> QED BY <1>2, <1>3, <1>4, <2>1, <2>2, Quiet
<1>8. CASE stopSize
  <2>1. /\ UNCHANGED ringVars /\ drained' = drained /\ opened' = opened /\ Seen' = Seen
        /\ Sealed' = Sealed
    BY <1>8, <1>1 DEF stopSize, Seen, Sealed, FileInv
  <2>2. \A i \in Files : files'[i].data = files[i].data
    BY <1>8, <1>3 DEF stopSize, FileRecord
  <2> QED BY <1>2, <1>3, <1>4, <2>1, <2>2, Quiet
<1>9. CASE stopClose
  <2>1. /\ UNCHANGED ringVars /\ files' = files /\ drained' = drained /\ opened' = opened
        /\ Seen' = Seen /\ Sealed' = Sealed
    BY <1>9, <1>1 DEF stopClose, Seen, Sealed, FileInv
  <2> QED BY <1>2, <1>3, <1>4, <2>1, Quiet
<1>10. CASE stopZero
  <2>1. Held' = {}
    BY <1>2, <1>10, HeldGone DEF stopZero, HeadZeroed
  <2>2. files' = files /\ drained' = drained /\ opened' = opened /\ Seen' = Seen
    BY <1>10 DEF stopZero, Seen
  <2> QED BY <1>2, <1>3, <2>1, <2>2, Quiet
<1>11. CASE startButton
  <2>1. /\ UNCHANGED ringVars /\ files' = files /\ drained' = drained /\ opened' = opened
        /\ Seen' = Seen /\ Sealed' = Sealed
    BY <1>11 DEF startButton, Seen, Sealed
  <2> QED BY <1>2, <1>3, <1>4, <2>1, Quiet
<1>12. CASE startOpen
  <2>1. /\ UNCHANGED ringVars /\ files' = files /\ drained' = drained /\ Seen' = Seen
    BY <1>12 DEF startOpen, Seen
  <2>2. f = 0 /\ opened' >= opened /\ Sealed' \subseteq Sealed
    BY <1>12, <1>1, <1>3 DEF startOpen, Sealed, FileInv
  <2> QED BY <1>2, <1>3, <1>4, <2>1, <2>2, Quiet
<1>13. CASE startHeader
  <2>1. /\ UNCHANGED ringVars /\ files' = files /\ drained' = drained /\ opened' = opened
        /\ Seen' = Seen /\ Sealed' = Sealed
    BY <1>13 DEF startHeader, Seen, Sealed
  <2> QED BY <1>2, <1>3, <1>4, <2>1, Quiet
<1>14. CASE startDrain
  BY <1>2, <1>14, DrainStep
<1>15. CASE startFlag
  <2>1. /\ UNCHANGED ringVars /\ files' = files /\ drained' = drained /\ opened' = opened
        /\ Seen' = Seen /\ Sealed' = Sealed
    BY <1>15 DEF startFlag, Seen, Sealed
  <2> QED BY <1>2, <1>3, <1>4, <2>1, Quiet
<1>16. CASE sdrBlock
  <2>1. /\ UNCHANGED ringVars /\ files' = files /\ drained' = drained /\ opened' = opened
        /\ Sealed' = Sealed
    BY <1>16 DEF sdrBlock, Sealed
  <2>2. Seen' >= Seen
    BY <1>16, <1>3 DEF sdrBlock, Seen
  <2> QED BY <1>2, <1>3, <1>4, <2>1, <2>2, Quiet
<1>17. CASE sdrPrebuffer
  BY <1>2, <1>17, PrebufferStep
<1>18. CASE sdrCheck \/ sdrTest \/ sdrCount
  <2>1. /\ UNCHANGED ringVars /\ files' = files /\ drained' = drained /\ opened' = opened
        /\ Seen' = Seen /\ Sealed' = Sealed
    BY <1>18 DEF sdrCheck, sdrTest, sdrCount, Seen, Sealed
  <2> QED BY <1>2, <1>3, <1>4, <2>1, Quiet
<1>19. CASE sdrAppend
  BY <1>2, <1>19, AppendStep
<1>20. CASE UNCHANGED vars
  <2>1. /\ UNCHANGED ringVars /\ files' = files /\ drained' = drained /\ opened' = opened
        /\ Seen' = Seen /\ Sealed' = Sealed
    BY <1>20 DEF vars, Seen, Sealed
  <2> QED BY <1>2, <1>3, <1>4, <2>1, Quiet
<1> QED
  BY <1>5, <1>6, <1>7, <1>8, <1>9, <1>10, <1>11, <1>12, <1>13, <1>14, <1>15, <1>16, <1>17,
     <1>18, <1>19, <1>20 DEF Next, Gui, Sdr

(* The blocks a recording drains from the ring are in no earlier recording: *)
(* startDrain never repeats what the stop() before it dropped by ringWrite_ *)
(* = 0, whatever the two threads were doing.                                *)
THEOREM NoBleedAlways == Spec => []NoBleed
<1>1. BleedInv => NoBleed
  BY DEF BleedInv
<1> QED BY <1>1, BleedInit, BleedStep, PTL DEF Spec

-----------------------------------------------------------------------------
(* How the process can end.                                                 *)

(* While a write() is under way and no stop met it, its recording goes on   *)
(* and the file it tested is the open one.                                  *)
WriteInv ==
  /\ recording => gpc = "idle"
  /\ Writing /\ ~overlap => recording
  /\ spc \in {"append", "count"} /\ ~overlap => sf = f
  /\ CrashOnlyByRace

LEMMA WriteStep == WriteInv /\ [Next]_vars => WriteInv'
<1> SUFFICES ASSUME WriteInv, [Next]_vars PROVE WriteInv'
  OBVIOUS
<1> USE DEF ringVars, fileVars, sdrVars, guiVars, GuiIdle, Alive, Writing, WriteInv, CrashOnlyByRace
<1>1. ASSUME NEW n \in RingSizes, configurePrebuffer(n) PROVE WriteInv'
  BY <1>1 DEF configurePrebuffer
<1>2. ASSUME NEW r \in BOOLEAN, stopFlag(r) PROVE WriteInv'
  BY <1>2 DEF stopFlag
<1>3. CASE stopRiff \/ stopSize
  BY <1>3 DEF stopRiff, stopSize
<1>4. CASE stopClose
  BY <1>4 DEF stopClose
<1>5. CASE stopZero
  BY <1>5 DEF stopZero
<1>6. CASE startButton
  BY <1>6 DEF startButton
<1>7. CASE startOpen
  BY <1>7 DEF startOpen
<1>8. CASE startHeader \/ startDrain
  BY <1>8 DEF startHeader, startDrain
<1>9. CASE startFlag
  BY <1>9 DEF startFlag
<1>10. CASE sdrBlock
  BY <1>10 DEF sdrBlock
<1>11. CASE sdrPrebuffer
  BY <1>11 DEF sdrPrebuffer
<1>12. CASE sdrCheck
  BY <1>12 DEF sdrCheck, isRecording
<1>13. CASE sdrTest
  BY <1>13 DEF sdrTest
<1>14. CASE sdrAppend
  BY <1>14 DEF sdrAppend
<1>15. CASE sdrCount
  BY <1>15 DEF sdrCount
<1>16. CASE UNCHANGED vars
  BY <1>16 DEF vars
<1> QED
  BY <1>1, <1>2, <1>3, <1>4, <1>5, <1>6, <1>7, <1>8, <1>9, <1>10, <1>11, <1>12, <1>13,
     <1>14, <1>15, <1>16 DEF Next, Gui, Sdr

(* A file is closed under a write() only if stop() met that write(), and    *)
(* prebuffer() divides by zero only where the ring was disabled under it.   *)
THEOREM CrashAlwaysByRace == Spec => []CrashOnlyByRace
<1>1. Init => WriteInv
  BY DEF Init, WriteInv, Writing, CrashOnlyByRace
<1>2. WriteInv => CrashOnlyByRace
  BY DEF WriteInv
<1> QED BY <1>1, <1>2, WriteStep, PTL DEF Spec

-----------------------------------------------------------------------------
(* Arithmetic of slots and of the counter.                                  *)

LEMMA Division ==
  ASSUME NEW a \in Nat, NEW c \in Nat \ {0}
  PROVE  /\ a % c \in 0 .. c - 1 /\ a \div c \in Nat
         /\ a = c * (a \div c) + (a % c)
OBVIOUS

LEMMA MultiplesApart ==
  ASSUME NEW c \in Nat \ {0}, NEW p \in Nat, NEW q \in Nat, p < q
  PROVE  c * q - c * p >= c
<1>1. c * q - c * p = c * (q - p)
  BY Z3
<1>2. q - p >= 1
  OBVIOUS
<1>3. c * (q - p) >= c
  BY <1>2, Z3
<1> QED BY <1>1, <1>3

(* A remainder is the only one there is.                                    *)
LEMMA RemainderUnique ==
  ASSUME NEW a \in Nat, NEW c \in Nat \ {0}, NEW q \in Nat, NEW r \in 0 .. c - 1,
         a = c * q + r
  PROVE  a % c = r
<1> DEFINE p == a \div c
<1>1. a % c \in 0 .. c - 1 /\ p \in Nat /\ a = c * p + (a % c)
  BY Division
<1>2. CASE p = q
  <2>1. c * p = c * q /\ c * q \in Int
    BY <1>2
  <2> QED BY <1>1, <2>1
<1>3. CASE p < q
  <2>1. c * q - c * p >= c /\ c * q \in Int /\ c * p \in Int
    BY <1>1, <1>3, MultiplesApart
  <2> QED BY <1>1, <2>1
<1>4. CASE q < p
  <2>1. c * p - c * q >= c /\ c * q \in Int /\ c * p \in Int
    BY <1>1, <1>4, MultiplesApart
  <2> QED BY <1>1, <2>1
<1> QED BY <1>1, <1>2, <1>3, <1>4

LEMMA SmallRemainder ==
  ASSUME NEW c \in Nat \ {0}, NEW a \in 0 .. c - 1
  PROVE  a % c = a
<1>1. a = c * 0 + a /\ a \in Nat /\ 0 \in Nat
  OBVIOUS
<1> QED BY <1>1, RemainderUnique

(* Counting one more modulo c is counting one more.                         *)
LEMMA CountOneMore ==
  ASSUME NEW a \in Nat, NEW c \in Nat \ {0}
  PROVE  ((a % c) + 1) % c = (a + 1) % c
<1> DEFINE q == a \div c
           r == a % c
<1>1. r \in 0 .. c - 1 /\ q \in Nat /\ a = c * q + r
  BY Division
<1> HIDE DEF q, r
<1>2. CASE r + 1 < c
  <2>1. a + 1 = c * q + (r + 1) /\ r + 1 \in 0 .. c - 1 /\ a + 1 \in Nat
    BY <1>1, <1>2
  <2>2. (a + 1) % c = r + 1
    BY <2>1, <1>1, RemainderUnique
  <2>3. (r + 1) % c = r + 1
    BY <1>1, <1>2
  <2> QED BY <2>2, <2>3 DEF r
<1>3. CASE r + 1 = c
  <2>1. a + 1 = c * (q + 1) + 0 /\ 0 \in 0 .. c - 1 /\ a + 1 \in Nat /\ q + 1 \in Nat
    BY <1>1, <1>3
  <2>2. (a + 1) % c = 0
    BY <2>1, RemainderUnique
  <2>3. c = c * 1 + 0 /\ 1 \in Nat /\ 0 \in 0 .. c - 1 /\ c \in Nat
    OBVIOUS
  <2>4. (r + 1) % c = 0
    BY <2>3, <1>3, RemainderUnique
  <2> QED BY <2>2, <2>4 DEF r
<1> QED BY <1>1, <1>2, <1>3

(* Two positions less than c apart never share a slot.                      *)
LEMMA SlotsApart ==
  ASSUME NEW c \in Nat \ {0}, NEW a \in Nat, NEW b \in Nat, a < b, b - a < c
  PROVE  a % c # b % c
<1> SUFFICES ASSUME a % c = b % c PROVE FALSE
  OBVIOUS
<1> DEFINE p == a \div c
           q == b \div c
<1>1. /\ a = c * p + (a % c) /\ p \in Nat
      /\ b = c * q + (b % c) /\ q \in Nat
  BY Division
<1>2. p < q
  BY <1>1, Z3
<1> QED BY <1>1, <1>2, MultiplesApart

-----------------------------------------------------------------------------
(* The header.  Unless a stop() has met write(), the counter follows the    *)
(* data of the open file, a block behind while write() has yet to count it, *)
(* and stop() copies it with nothing else going on.                         *)
HeaderInv == ~overlap =>
  /\ \A i \in Files : ~files[i].torn
  /\ \A i \in Finished : /\ files[i].riff = files[i].size
                         /\ files[i].size = Len(files[i].data) % Word
  /\ gpc \in {"header", "drain"} => files[f].data = <<>>
  /\ gpc = "drain" => dataBytes = 0
  /\ f # 0 /\ gpc \in {"idle", "flag", "riff", "size", "close"} =>
       (IF spc = "count" THEN dataBytes + 1 ELSE dataBytes) % Word = Len(files[f].data) % Word
  /\ gpc = "size" => files[f].riff = dataBytes
  /\ gpc = "close" => files[f].riff = dataBytes /\ files[f].size = dataBytes

LEMMA HeaderInit == Init => HeaderInv
<1> SUFFICES ASSUME Init PROVE HeaderInv
  OBVIOUS
<1>1. \A i \in Files : ~files[i].torn
  BY DEF Init, NewFile
<1>2. Finished = {}
  BY DEF Init, Finished
<1>3. f = 0 /\ gpc = "idle"
  BY DEF Init
<1> QED BY <1>1, <1>2, <1>3 DEF HeaderInv

(* A step that leaves the files and the counter, and where the open file is *)
(* in its life.                                                             *)
LEMMA HeaderKept ==
  ASSUME HeaderInv, files' = files, dataBytes' = dataBytes, f' = f, opened' = opened,
         overlap' \/ ~overlap, gpc' = gpc, spc' = "count" <=> spc = "count"
  PROVE  HeaderInv'
BY DEF HeaderInv, Finished

LEMMA HeaderStep == BleedInv /\ WriteInv /\ HeaderInv /\ [Next]_vars => HeaderInv'
<1> SUFFICES ASSUME BleedInv, WriteInv, HeaderInv, [Next]_vars, ~overlap' PROVE HeaderInv'
  BY DEF HeaderInv
<1>1. TypeOK /\ FileInv /\ DataInv
  BY DEF BleedInv
<1>2. /\ files \in [Files -> FileRecord] /\ opened \in Nat /\ f \in Nat
      /\ dataBytes \in Nat /\ dataBytes < Word /\ Word \in Nat \ {0}
      /\ f # 0 => f \in Files
  BY <1>1, BoundFacts DEF TypeOK, Files
<1>3. \A i \in Files : /\ files[i].data \in Seq(0 .. MaxBlocks) /\ Len(files[i].data) \in Nat
                       /\ files[i].riff \in Nat /\ files[i].size \in Nat
  BY <1>2 DEF FileRecord
<1>4. Finished \subseteq Files
  BY <1>1, BoundFacts DEF TypeOK, Files, Finished
<1>o. ~overlap
  <2>1. \/ overlap' = overlap
        \/ \E r \in BOOLEAN : stopFlag(r)
    BY DEF Next, Gui, Sdr, configurePrebuffer, stopRiff, stopSize, stopClose, stopZero,
       startButton, startOpen, startHeader, startDrain, startFlag, sdrBlock, sdrPrebuffer,
       sdrCheck, sdrTest, sdrAppend, sdrCount, vars
  <2> QED BY <2>1 DEF stopFlag
<1>r. /\ recording => gpc = "idle"
      /\ Writing => recording
      /\ spc \in {"append", "count"} => sf = f
  BY <1>o DEF WriteInv
<1>w. /\ gpc # "idle" => spc # "count"
      /\ dataBytes % Word = dataBytes
  BY <1>r, <1>2 DEF Writing
<1> USE <1>o DEF ringVars, fileVars, sdrVars, guiVars, GuiIdle, Alive
<1>5. ASSUME NEW n \in RingSizes, configurePrebuffer(n) PROVE HeaderInv'
  BY <1>5, HeaderKept DEF configurePrebuffer
<1>6. ASSUME NEW r \in BOOLEAN, stopFlag(r) PROVE HeaderInv'
  BY <1>6 DEF stopFlag, HeaderInv, Finished
<1>7. CASE stopRiff
  <2>1. f \in Files /\ f # 0 /\ gpc = "riff" /\ gpc' = "size" /\ spc # "count"
    BY <1>7, <1>1, <1>2, <1>w DEF stopRiff, FileInv
  <2>2. /\ files'[f].riff = dataBytes /\ files'[f].data = files[f].data
        /\ files'[f].torn = files[f].torn
        /\ \A i \in Files \ {f} : files'[i] = files[i]
    BY <1>7, <1>2, <2>1 DEF stopRiff, FileRecord
  <2>3. UNCHANGED <<f, opened, dataBytes, spc, overlap>>
    BY <1>7 DEF stopRiff
  <2>4. Finished' = Finished /\ Finished \subseteq Files \ {f}
    BY <2>3, <1>4 DEF Finished
  <2> QED BY <2>1, <2>2, <2>3, <2>4 DEF HeaderInv
<1>8. CASE stopSize
  <2>1. f \in Files /\ f # 0 /\ gpc = "size" /\ gpc' = "close" /\ spc # "count"
    BY <1>8, <1>1, <1>2, <1>w DEF stopSize, FileInv
  <2>2. /\ files'[f].riff = files[f].riff /\ files'[f].size = dataBytes
        /\ files'[f].data = files[f].data /\ files'[f].torn = files[f].torn
        /\ \A i \in Files \ {f} : files'[i] = files[i]
    BY <1>8, <1>2, <2>1 DEF stopSize, FileRecord
  <2>3. UNCHANGED <<f, opened, dataBytes, spc, overlap>>
    BY <1>8 DEF stopSize
  <2>4. Finished' = Finished /\ Finished \subseteq Files \ {f}
    BY <2>3, <1>4 DEF Finished
  <2> QED BY <2>1, <2>2, <2>3, <2>4 DEF HeaderInv
<1>9. CASE stopClose
  <2>1. f \in Files /\ f # 0 /\ gpc = "close" /\ gpc' = "zero" /\ spc # "count"
    BY <1>9, <1>1, <1>2, <1>w DEF stopClose, FileInv
  <2>2. f' = 0 /\ files' = files /\ opened' = opened
    BY <1>9 DEF stopClose
  <2>3. files[f].riff = files[f].size /\ files[f].size = Len(files[f].data) % Word
    BY <2>1, <1>w DEF HeaderInv
  <2>4. \A i \in Finished' : i \in Finished \/ i = f
    BY <2>2 DEF Finished
  <2> QED BY <2>1, <2>2, <2>3, <2>4 DEF HeaderInv
<1>10. CASE stopZero
  BY <1>10, <1>1 DEF stopZero, HeaderInv, FileInv, Finished
<1>11. CASE startButton
  BY <1>11, <1>1 DEF startButton, HeaderInv, FileInv, Finished
<1>12. CASE startOpen
  <2>1. f = 0 /\ files' = files /\ gpc = "open"
    BY <1>12, <1>1 DEF startOpen, FileInv
  <2>2. CASE f' = opened + 1 /\ opened' = opened + 1 /\ gpc' = "header"
    <3>1. opened + 1 \in Files
      BY <1>12, <1>2, <1>1, BoundFacts DEF startOpen, TypeOK, Files
    <3>2. files[opened + 1].data = <<>>
      BY <1>1, <3>1, <1>2 DEF DataInv
    <3>3. Finished' = Finished
      BY <2>1, <2>2, <1>2 DEF Finished
    <3> QED BY <2>1, <2>2, <3>2, <3>3 DEF HeaderInv
  <2>3. CASE f' = f /\ opened' = opened /\ gpc' = "idle"
    BY <2>1, <2>3 DEF HeaderInv, Finished
  <2> QED BY <1>12, <2>2, <2>3 DEF startOpen
<1>13. CASE startHeader
  BY <1>13 DEF startHeader, HeaderInv, Finished
<1>14. CASE startDrain
  <2>1. f \in Files /\ f # 0 /\ gpc = "drain" /\ gpc' = "flag" /\ spc # "count"
    BY <1>14, <1>1, <1>2, <1>w DEF startDrain, FileInv
  <2>2. /\ files'[f].data = files[f].data \o RingTail /\ files'[f].torn = files[f].torn
        /\ \A i \in Files \ {f} : files'[i] = files[i]
    BY <1>14, <1>2, <2>1 DEF startDrain, FileRecord
  <2>3. UNCHANGED <<f, opened, spc, overlap>> /\ dataBytes' = (dataBytes + Avail) % Word
    BY <1>14 DEF startDrain
  <2>4. Finished' = Finished /\ Finished \subseteq Files \ {f}
    BY <2>3, <1>4 DEF Finished
  <2>5. RingTail \in Seq(0 .. MaxBlocks) /\ Len(RingTail) = Avail /\ Avail \in Nat
    BY <1>1, TailType
  <2>6. Len(files'[f].data) = Avail /\ dataBytes' = Avail % Word
    BY <2>1, <2>2, <2>3, <2>5 DEF HeaderInv
  <2>7. dataBytes' % Word = dataBytes'
    <3>1. Avail % Word \in 0 .. Word - 1
      BY <2>5, <1>2, SlotIn
    <3>2. (Avail % Word) % Word = Avail % Word
      BY <3>1, <1>2, SmallRemainder
    <3> QED BY <2>6, <3>2
  <2> QED BY <2>1, <2>2, <2>3, <2>4, <2>6, <2>7 DEF HeaderInv
<1>15. CASE startFlag
  BY <1>15 DEF startFlag, HeaderInv, Finished
<1>16. CASE sdrBlock \/ sdrPrebuffer \/ sdrCheck \/ sdrTest
  <2>1. /\ files' = files /\ dataBytes' = dataBytes /\ f' = f /\ opened' = opened
        /\ gpc' = gpc
    BY <1>16 DEF sdrBlock, sdrPrebuffer, sdrCheck, sdrTest
  <2>2. spc' # "count" /\ spc # "count"
    BY <1>16 DEF sdrBlock, sdrPrebuffer, sdrCheck, sdrTest
  <2> QED BY <2>1, <2>2, HeaderKept
<1>17. CASE sdrAppend
  <2>1. /\ gpc = "idle" /\ sf = f /\ spc = "append" /\ ~InHeader
    BY <1>17, <1>r DEF sdrAppend, Writing, InHeader
  <2>2. f # 0 /\ f \in Files /\ spc' = "count"
        /\ files' = [files EXCEPT ![f].data = Append(@, blk)]
    BY <1>17, <2>1, <1>2 DEF sdrAppend
  <2>3. UNCHANGED <<f, opened, dataBytes, gpc, overlap>>
    BY <1>17 DEF sdrAppend
  <2>4. /\ files'[f].data = Append(files[f].data, blk) /\ files'[f].torn = files[f].torn
        /\ \A i \in Files \ {f} : files'[i] = files[i]
    BY <1>2, <2>2 DEF FileRecord
  <2>5. Finished' = Finished /\ Finished \subseteq Files \ {f}
    BY <2>3, <1>4 DEF Finished
  <2>6. Len(files'[f].data) = Len(files[f].data) + 1 /\ Len(files[f].data) \in Nat
    BY <1>3, <2>2, <2>4
  <2>7. dataBytes = Len(files[f].data) % Word
    BY <2>1, <2>2, <1>w DEF HeaderInv
  <2>8. (dataBytes + 1) % Word = Len(files'[f].data) % Word
    BY <2>6, <2>7, <1>2, CountOneMore
  <2> QED BY <2>1, <2>2, <2>3, <2>4, <2>5, <2>8 DEF HeaderInv
<1>18. CASE sdrCount
  <2>1. /\ gpc = "idle" /\ spc = "count" /\ spc' = "idle" /\ dataBytes' = (dataBytes + 1) % Word
    BY <1>18, <1>r DEF sdrCount, Writing, OneMore
  <2>2. UNCHANGED <<f, opened, files, gpc, overlap>>
    BY <1>18 DEF sdrCount
  <2>3. dataBytes' % Word = dataBytes'
    <3>1. dataBytes + 1 \in Nat
      BY <1>2
    <3>2. (dataBytes + 1) % Word \in 0 .. Word - 1
      BY <3>1, <1>2, SlotIn
    <3>3. ((dataBytes + 1) % Word) % Word = (dataBytes + 1) % Word
      BY <3>2, <1>2, SmallRemainder
    <3> QED BY <2>1, <3>3
  <2> QED BY <2>1, <2>2, <2>3 DEF HeaderInv, Finished
<1>19. CASE UNCHANGED vars
  BY <1>19, HeaderKept DEF vars
<1> QED
  BY <1>5, <1>6, <1>7, <1>8, <1>9, <1>10, <1>11, <1>12, <1>13, <1>14, <1>15, <1>16, <1>17,
     <1>18, <1>19 DEF Next, Gui, Sdr

LEMMA WriteInit == Init => WriteInv
BY DEF Init, WriteInv, Writing, CrashOnlyByRace

(* A finished file is intact and its two sizes are the length of its data,  *)
(* whatever start() drained into it and write() appended to it, unless a    *)
(* stop() met write() under way.                                            *)
THEOREM HeaderAlwaysTellsData == Spec => []HeaderTellsData
<1> DEFINE I == BleedInv /\ WriteInv /\ HeaderInv
<1>1. Init => I
  BY BleedInit, WriteInit, HeaderInit
<1>2. I /\ [Next]_vars => I'
  BY BleedStep, WriteStep, HeaderStep
<1>3. I => HeaderTellsData
  <2>1. BleedInv => Finished \subseteq Files
    BY BoundFacts DEF BleedInv, TypeOK, Files, Finished
  <2> QED BY <2>1 DEF HeaderInv, HeaderTellsData
<1> QED BY <1>1, <1>2, <1>3, PTL DEF Spec

-----------------------------------------------------------------------------
(* One stretch.  The ring holds the blocks up to the one put into it last,  *)
(* none missing: it is emptied whenever its capacity changes, and while it  *)
(* is on every block goes into it.                                          *)
RingRun ==
  \A k \in ringWrite - Avail .. ringWrite - 1 : ring[k % ringCap] = Seen - (ringWrite - 1 - k)

(* While a recording goes on every block goes into its file: the last one   *)
(* there is the block in hand or, until write() gets to it, the one before. *)
LastLive == IF spc \in {"idle", "count"} THEN blk ELSE blk - 1

LiveInv == ~overlap =>
  /\ recording => f # 0
  /\ gpc = "flag" => Len(files[f].data) = drained[f].to
  /\ recording /\ Len(files[f].data) > drained[f].to =>
       files[f].data[Len(files[f].data)] = LastLive

LEMMA RunInit == Init => RingRun
BY DEF Init, RingRun, Avail

LEMMA RunEmpty ==
  ASSUME TypeOK', ringWrite' = 0 \/ ringCap' = 0
  PROVE  RingRun'
<1>1. ringCap' \in Nat /\ ringWrite' \in Nat
  BY BoundFacts DEF TypeOK
<1>2. Avail' = 0
  BY <1>1 DEF Avail
<1>3. ASSUME NEW w \in Nat PROVE w - 0 .. w - 1 = {}
  OBVIOUS
<1>4. (ringWrite - Avail .. ringWrite - 1)' = {}
  BY <1>1, <1>2, <1>3, Zenon
<1> QED BY <1>4, Zenon DEF RingRun

LEMMA RunKept == RingRun /\ UNCHANGED ringVars /\ Seen' = Seen => RingRun'
BY DEF RingRun, ringVars, Avail

LEMMA RunPushed ==
  ASSUME TypeOK, RingRun, ringCap # 0, ringCap' = ringCap, ringWrite' = ringWrite + 1,
         ring' = [ring EXCEPT ![ringWrite % ringCap] = blk],
         Seen = blk - 1, Seen' = blk
  PROVE  RingRun'
<1>1. /\ ringCap \in Nat \ {0} /\ ringWrite \in Nat /\ blk \in Nat
      /\ ring \in [0 .. ringCap - 1 -> 0 .. MaxBlocks]
  BY BoundFacts DEF TypeOK
<1>2. /\ Avail = (IF ringWrite < ringCap THEN ringWrite ELSE ringCap)
      /\ Avail' = (IF ringWrite + 1 < ringCap THEN ringWrite + 1 ELSE ringCap)
  BY DEF Avail
<1>3. ringWrite % ringCap \in 0 .. ringCap - 1
  BY <1>1, SlotIn
<1> SUFFICES ASSUME NEW k \in (ringWrite' - Avail') .. (ringWrite' - 1)
             PROVE  ring'[k % ringCap] = blk - (ringWrite' - 1 - k)
  BY Zenon DEF RingRun
<1>4. k \in Nat /\ k >= ringWrite - Avail /\ k <= ringWrite /\ ringWrite - k < ringCap
  BY <1>1, <1>2
<1>5. k % ringCap \in 0 .. ringCap - 1
  BY <1>1, <1>4, SlotIn
<1>6. CASE k = ringWrite
  BY <1>1, <1>3, <1>6
<1>7. CASE k < ringWrite
  <2>1. k % ringCap # ringWrite % ringCap
    BY <1>1, <1>4, <1>7, SlotsApart
  <2>2. ring'[k % ringCap] = ring[k % ringCap]
    BY <1>1, <1>5, <2>1
  <2>3. k \in (ringWrite - Avail) .. (ringWrite - 1)
    BY <1>1, <1>2, <1>4, <1>7
  <2>4. ring[k % ringCap] = (blk - 1) - (ringWrite - 1 - k)
    BY <2>3 DEF RingRun
  <2> QED BY <2>2, <2>4, <1>1, <1>4
<1> QED BY <1>1, <1>4, <1>6, <1>7

LEMMA RunStep == TypeOK /\ TypeOK' /\ RingRun /\ [Next]_vars => RingRun'
<1> SUFFICES ASSUME TypeOK, TypeOK', RingRun, [Next]_vars PROVE RingRun'
  OBVIOUS
<1> USE DEF ringVars, fileVars, sdrVars, guiVars
<1>b. blk \in Nat
  BY BoundFacts DEF TypeOK
<1>1. ASSUME NEW n \in RingSizes, configurePrebuffer(n) PROVE RingRun'
  BY <1>1, RunEmpty DEF configurePrebuffer, HeadReset
<1>2. CASE stopZero
  BY <1>2, RunEmpty DEF stopZero, HeadZeroed
<1>3. CASE sdrBlock
  <2>1. CASE ringCap = 0
    <3>1. ringCap' = 0
      BY <1>3, <2>1 DEF sdrBlock
    <3> QED BY <3>1, RunEmpty
  <2>2. CASE ringCap # 0
    <3>1. Seen' = Seen
      BY <1>3, <2>2, <1>b DEF sdrBlock, Seen
    <3> QED BY <1>3, <3>1, RunKept DEF sdrBlock
  <2> QED BY <2>1, <2>2
<1>4. CASE sdrPrebuffer
  <2>1. CASE ringCap = 0
    BY <1>4, <2>1, RunKept DEF sdrPrebuffer, Seen
  <2>2. CASE ringCap # 0
    <3>1. Seen = blk - 1 /\ Seen' = blk
      BY <1>4, <2>2 DEF sdrPrebuffer, Seen
    <3> QED BY <1>4, <2>2, <3>1, RunPushed DEF sdrPrebuffer
  <2> QED BY <2>1, <2>2
<1>5. CASE UNCHANGED ringVars /\ Seen' = Seen
  BY <1>5, RunKept
<1>6. CASE sdrAppend
  BY <1>6, <1>5 DEF sdrAppend, Seen
<1>7. CASE sdrCheck \/ sdrTest \/ sdrCount
  BY <1>7, <1>5 DEF sdrCheck, sdrTest, sdrCount, Seen
<1>8. ASSUME NEW r \in BOOLEAN, stopFlag(r) PROVE RingRun'
  BY <1>8, <1>5 DEF stopFlag, Seen
<1>9. CASE stopRiff \/ stopSize \/ stopClose
  BY <1>9, <1>5 DEF stopRiff, stopSize, stopClose, Seen
<1>10. CASE startButton \/ startOpen \/ startHeader
  BY <1>10, <1>5 DEF startButton, startOpen, startHeader, Seen
<1>11. CASE startDrain \/ startFlag
  BY <1>11, <1>5 DEF startDrain, startFlag, Seen
<1>12. CASE UNCHANGED vars
  BY <1>12, <1>5 DEF vars, Seen
<1> QED
  BY <1>1, <1>2, <1>3, <1>4, <1>6, <1>7, <1>8, <1>9, <1>10, <1>11, <1>12 DEF Next, Gui, Sdr

(* What start() drains are the blocks up to the last one seen, in order.    *)
LEMMA TailRun ==
  ASSUME TypeOK, RingRun
  PROVE  \A i \in 1 .. Avail : RingTail[i] = Seen - (Avail - i)
<1>1. ringCap \in Nat /\ ringWrite \in Nat /\ Avail \in Nat /\ Avail <= ringWrite /\ Seen \in Int
  <2>1. ringCap \in Nat /\ ringWrite \in Nat
    BY BoundFacts DEF TypeOK
  <2> QED BY <2>1, AvailBounds, FileFacts
<1> SUFFICES ASSUME NEW i \in 1 .. Avail PROVE RingTail[i] = Seen - (Avail - i)
  OBVIOUS
<1>2. ringWrite - Avail + i - 1 \in ringWrite - Avail .. ringWrite - 1
  BY <1>1
<1>3. ring[(ringWrite - Avail + i - 1) % ringCap] = Seen - (ringWrite - 1 - (ringWrite - Avail + i - 1))
  BY <1>2 DEF RingRun
<1>4. RingTail[i] = ring[(ringWrite - Avail + i - 1) % ringCap]
  BY DEF RingTail
<1> QED BY <1>1, <1>3, <1>4

-----------------------------------------------------------------------------
(* The stretch of one file: what OneStretch says of it.                     *)
StretchOf(i) == \A k \in 1 .. Len(files[i].data) - 1 :
  LET here == files[i].data[k]
      next == files[i].data[k + 1]
  IN  IF k = drained[i].to THEN here <= next ELSE next = here + 1

LEMMA StretchInit == Init => OneStretch /\ LiveInv
<1> SUFFICES ASSUME Init PROVE OneStretch /\ LiveInv
  OBVIOUS
<1>1. \A i \in Files : files[i].data = <<>>
  BY DEF Init, NewFile
<1>2. OneStretch
  BY <1>1 DEF OneStretch
<1>3. LiveInv
  BY DEF Init, LiveInv
<1> QED BY <1>2, <1>3

(* A step that leaves the data of every file and what was drained into it.  *)
LEMMA StretchKept ==
  ASSUME OneStretch, overlap' \/ ~overlap, drained' = drained,
         \A i \in Files : files'[i].data = files[i].data
  PROVE  OneStretch'
BY DEF OneStretch

StretchInv == BleedInv /\ WriteInv /\ HeaderInv /\ RingRun /\ OneStretch /\ LiveInv

LEMMA DrainedStretch ==
  ASSUME StretchInv, startDrain, ~overlap
  PROVE  OneStretch' /\ LiveInv'
<1>1. TypeOK /\ FileInv /\ DataInv /\ RingRun /\ OneStretch
  BY DEF StretchInv, BleedInv
<1>2. f # 0 /\ f \in Files /\ files[f].data = <<>>
  BY <1>1, BoundFacts DEF StretchInv, HeaderInv, FileInv, TypeOK, Files, startDrain
<1>3. /\ files \in [Files -> FileRecord] /\ drained \in [Files -> [from : Nat, to : Nat]]
  BY <1>1 DEF TypeOK
<1>4. RingTail \in Seq(0 .. MaxBlocks) /\ Len(RingTail) = Avail /\ Avail \in Nat
  BY <1>1, TailType
<1>5. files'[f].data = RingTail /\ drained'[f].to = Avail
  <2>1. files'[f].data = files[f].data \o RingTail
    BY <1>2, <1>3 DEF startDrain, FileRecord
  <2>2. drained'[f].to = Len(files[f].data) + Avail
    BY <1>2, <1>3 DEF startDrain
  <2> QED BY <2>1, <2>2, <1>2, <1>4
<1>6. \A i \in Files \ {f} : files'[i].data = files[i].data /\ drained'[i] = drained[i]
  BY <1>2, <1>3 DEF startDrain
<1>7. UNCHANGED <<f, recording, overlap, blk, spc>> /\ gpc' = "flag" /\ gpc = "drain"
  BY DEF startDrain, sdrVars
<1>8. StretchOf(f)'
  <2>1. ASSUME NEW k \in 1 .. Avail - 1 PROVE RingTail[k + 1] = RingTail[k] + 1 /\ k # Avail
    <3>1. k \in 1 .. Avail /\ k + 1 \in 1 .. Avail /\ Seen \in Int
      BY <1>1, <1>4, FileFacts
    <3>2. RingTail[k] = Seen - (Avail - k) /\ RingTail[k + 1] = Seen - (Avail - (k + 1))
      BY <1>1, <3>1, TailRun
    <3> QED BY <3>1, <3>2, <1>4
  <2> QED BY <2>1, <1>4, <1>5, <1>7 DEF StretchOf
<1>9. OneStretch'
  <2>1. ASSUME NEW i \in Files PROVE StretchOf(i)'
    <3>1. CASE i = f
      BY <3>1, <1>8, <1>7 DEF StretchOf
    <3>2. CASE i # f
      BY <3>2, <1>1, <1>6 DEF OneStretch, StretchOf
    <3> QED BY <3>1, <3>2
  <2> QED BY <2>1 DEF OneStretch, StretchOf
<1>10. LiveInv'
  <2>1. ~recording
    BY <1>7 DEF StretchInv, WriteInv
  <2> QED BY <2>1, <1>4, <1>5, <1>7 DEF LiveInv
<1> QED BY <1>9, <1>10

LEMMA AppendedStretch ==
  ASSUME StretchInv, sdrAppend, ~overlap
  PROVE  OneStretch' /\ LiveInv'
<1>1. TypeOK /\ FileInv /\ DataInv /\ OneStretch
  BY DEF StretchInv, BleedInv
<1>2. /\ spc = "append" /\ recording /\ gpc = "idle" /\ sf = f /\ f # 0 /\ ~InHeader
      /\ f \in Files
  <2>1. spc = "append" /\ recording /\ gpc = "idle" /\ sf = f
    BY DEF StretchInv, WriteInv, Writing, sdrAppend
  <2> QED BY <2>1, <1>1, BoundFacts DEF StretchInv, LiveInv, InHeader, TypeOK, Files
<1>3. /\ files' = [files EXCEPT ![f].data = Append(@, blk)] /\ spc' = "count"
      /\ UNCHANGED <<f, recording, gpc, drained, overlap, blk>>
  BY <1>2 DEF sdrAppend, guiVars
<1>4. files \in [Files -> FileRecord]
  BY <1>1 DEF TypeOK
<1> DEFINE d == files[f].data
           n == Len(d)
<1>5. /\ d \in Seq(0 .. MaxBlocks) /\ n \in Nat /\ drained[f].to \in Nat
      /\ drained[f].to <= n /\ blk \in Nat
  BY <1>1, <1>2, FileFacts DEF DataInv
<1>6. files'[f].data = Append(d, blk) /\ \A i \in Files \ {f} : files'[i] = files[i]
  BY <1>2, <1>3, <1>4 DEF FileRecord
<1>7. /\ Len(files'[f].data) = n + 1 /\ files'[f].data[n + 1] = blk
      /\ \A k \in 1 .. n : files'[f].data[k] = d[k]
  BY <1>5, <1>6
<1>8. \A k \in 1 .. n : d[k] \in Nat /\ d[k] <= blk
  <2>1. Seen = blk
    BY <1>2 DEF Seen
  <2> QED BY <2>1, <1>1, <1>2, <1>5, BoundFacts DEF DataInv
<1>9. n > drained[f].to => d[n] = blk - 1
  BY <1>2 DEF StretchInv, LiveInv, LastLive
<1>10. \A k \in 1 .. n - 1 : IF k = drained[f].to THEN d[k] <= d[k + 1] ELSE d[k + 1] = d[k] + 1
  BY <1>1, <1>2 DEF OneStretch
<1> HIDE DEF d, n
<1>11. ASSUME NEW k \in 1 .. n
       PROVE  LET here == files'[f].data[k]
                  next == files'[f].data[k + 1]
              IN  IF k = drained[f].to THEN here <= next ELSE next = here + 1
  <2>1. CASE k < n
    <3>1. k \in 1 .. n - 1 /\ k + 1 \in 1 .. n
      BY <1>5, <2>1
    <3>2. files'[f].data[k] = d[k] /\ files'[f].data[k + 1] = d[k + 1]
      BY <1>7, <3>1
    <3> QED BY <3>1, <3>2, <1>10
  <2>2. CASE k = n
    <3>1. files'[f].data[k] = d[n] /\ files'[f].data[k + 1] = blk /\ d[n] \in Nat /\ d[n] <= blk
      BY <1>7, <1>8, <2>2
    <3>2. CASE n = drained[f].to
      BY <3>1, <3>2, <2>2
    <3>3. CASE n # drained[f].to
      <4>1. d[n] = blk - 1
        BY <1>5, <1>9, <3>3
      <4> QED BY <3>1, <3>3, <4>1, <2>2, <1>5
    <3> QED BY <3>2, <3>3
  <2> QED BY <2>1, <2>2, <1>5
<1>12. StretchOf(f)'
  <2>1. Len(files'[f].data) - 1 = n
    BY <1>5, <1>7
  <2>2. f' = f /\ drained' = drained
    BY <1>3
  <2>3. \A k \in 1 .. Len(files'[f].data) - 1 :
          LET here == files'[f].data[k]
              next == files'[f].data[k + 1]
          IN  IF k = drained[f].to THEN here <= next ELSE next = here + 1
    BY <1>11, <2>1
  <2> QED BY <2>2, <2>3, Zenon DEF StretchOf
<1>13. OneStretch'
  <2>1. ASSUME NEW i \in Files PROVE StretchOf(i)'
    <3>1. CASE i = f
      BY <3>1, <1>12, <1>3 DEF StretchOf
    <3>2. CASE i # f
      BY <3>2, <1>1, <1>3, <1>6 DEF OneStretch, StretchOf
    <3> QED BY <3>1, <3>2
  <2> QED BY <2>1 DEF OneStretch, StretchOf
<1>14. LiveInv'
  BY <1>2, <1>3, <1>7 DEF LiveInv, LastLive
<1> QED BY <1>13, <1>14

LEMMA StretchStep == StretchInv /\ [Next]_vars => OneStretch' /\ LiveInv'
<1> SUFFICES ASSUME StretchInv, [Next]_vars, ~overlap' PROVE OneStretch' /\ LiveInv'
  BY DEF OneStretch, LiveInv
<1>1. TypeOK /\ FileInv /\ DataInv /\ OneStretch /\ LiveInv
  BY DEF StretchInv, BleedInv
<1>2. files \in [Files -> FileRecord] /\ blk \in Nat
  BY <1>1, BoundFacts DEF TypeOK
<1>o. ~overlap
  <2>1. \/ overlap' = overlap
        \/ \E r \in BOOLEAN : stopFlag(r)
    BY DEF Next, Gui, Sdr, configurePrebuffer, stopRiff, stopSize, stopClose, stopZero,
       startButton, startOpen, startHeader, startDrain, startFlag, sdrBlock, sdrPrebuffer,
       sdrCheck, sdrTest, sdrAppend, sdrCount, vars
  <2> QED BY <2>1 DEF stopFlag
<1>r. recording => gpc = "idle"
  BY DEF StretchInv, WriteInv
<1>k. ASSUME \A i \in Files : files'[i].data = files[i].data, drained' = drained
      PROVE  OneStretch'
  BY <1>k, <1>o, <1>1, StretchKept
<1> USE <1>o DEF ringVars, fileVars, sdrVars, guiVars, GuiIdle, LastLive
<1>3. ASSUME NEW n \in RingSizes, configurePrebuffer(n) PROVE OneStretch' /\ LiveInv'
  BY <1>3, <1>k, <1>1 DEF configurePrebuffer, LiveInv
<1>4. ASSUME NEW r \in BOOLEAN, stopFlag(r) PROVE OneStretch' /\ LiveInv'
  BY <1>4, <1>k, <1>1 DEF stopFlag, LiveInv
<1>5. CASE stopRiff \/ stopSize
  <2>1. \A i \in Files : files'[i].data = files[i].data
    <3>1. CASE stopRiff
      BY <3>1, <1>2 DEF stopRiff, FileRecord
    <3>2. CASE stopSize
      BY <3>2, <1>2 DEF stopSize, FileRecord
    <3> QED BY <1>5, <3>1, <3>2
  <2>2. ~recording' /\ gpc' # "flag" /\ drained' = drained
    BY <1>5, <1>r DEF stopRiff, stopSize
  <2> QED BY <2>1, <2>2, <1>k DEF LiveInv
<1>6. CASE stopClose \/ stopZero \/ startButton \/ startOpen \/ startHeader
  <2>1. files' = files /\ ~recording' /\ gpc' # "flag" /\ drained' = drained
    BY <1>6, <1>r DEF stopClose, stopZero, startButton, startOpen, startHeader
  <2> QED BY <2>1, <1>k DEF LiveInv
<1>7. CASE startDrain
  BY <1>7, DrainedStretch
<1>8. CASE startFlag
  <2>1. files' = files /\ drained' = drained /\ f' = f /\ gpc' = "idle" /\ gpc = "flag"
    BY <1>8 DEF startFlag
  <2>2. f # 0 /\ f \in Files
    BY <2>1, <1>1, BoundFacts DEF FileInv, TypeOK, Files
  <2>3. Len(files[f].data) = drained[f].to /\ Len(files[f].data) \in Nat
    BY <2>1, <2>2, <1>1, FileFacts DEF LiveInv
  <2> QED BY <2>1, <2>2, <2>3, <1>k DEF LiveInv
<1>9. CASE sdrBlock
  BY <1>9, <1>k, <1>1, <1>2 DEF sdrBlock, LiveInv
<1>10. CASE sdrPrebuffer
  BY <1>10, <1>k, <1>1 DEF sdrPrebuffer, LiveInv
<1>11. CASE sdrCheck
  BY <1>11, <1>k, <1>1 DEF sdrCheck, isRecording, LiveInv
<1>12. CASE sdrTest
  BY <1>12, <1>k, <1>1 DEF sdrTest, LiveInv, StretchInv, WriteInv, Writing
<1>13. CASE sdrAppend
  BY <1>13, AppendedStretch
<1>14. CASE sdrCount
  BY <1>14, <1>k, <1>1 DEF sdrCount, LiveInv
<1>15. CASE UNCHANGED vars
  BY <1>15, <1>k, <1>1 DEF vars, LiveInv
<1> QED
  BY <1>3, <1>4, <1>5, <1>6, <1>7, <1>8, <1>9, <1>10, <1>11, <1>12, <1>13, <1>14, <1>15
  DEF Next, Gui, Sdr

(* A recording is consecutive blocks, but for where the pre-buffer ends and *)
(* live writing begins: configurePrebuffer and stop() empty the ring rather *)
(* than leave a gap in it, and no block is skipped or written twice while   *)
(* the flag is set, unless a stop() has met write() under way.              *)
THEOREM OneStretchAlways == Spec => []OneStretch
<1>1. Init => StretchInv
  BY BleedInit, WriteInit, HeaderInit, RunInit, StretchInit DEF StretchInv
<1>2. StretchInv /\ [Next]_vars => StretchInv'
  <2> SUFFICES ASSUME StretchInv, [Next]_vars PROVE StretchInv'
    OBVIOUS
  <2>1. BleedInv' /\ WriteInv' /\ HeaderInv'
    BY BleedStep, WriteStep, HeaderStep DEF StretchInv
  <2>2. TypeOK /\ TypeOK'
    BY <2>1 DEF StretchInv, BleedInv
  <2>3. RingRun'
    BY <2>2, RunStep DEF StretchInv
  <2> QED BY <2>1, <2>3, StretchStep DEF StretchInv
<1>3. StretchInv => OneStretch
  BY DEF StretchInv
<1> QED BY <1>1, <1>2, <1>3, PTL DEF Spec
=============================================================================
