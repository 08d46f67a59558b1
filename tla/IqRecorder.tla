------------------------------ MODULE IqRecorder ------------------------------
(* The IQ recorder of src/src/sdr/iq_recorder.{h,cpp}.  For every block the *)
(* SDR thread calls prebuffer(), asks isRecording() and calls write() (the  *)
(* callback of startActive, session.cpp l.43-51); the GUI thread sizes the  *)
(* pre-buffer ring and starts and stops recordings.  ringMtx_ guards the    *)
(* ring only: f_ and dataBytes_ are touched by both threads with no lock.   *)
(*                                                                         *)
(* Abstractions.  A block is one sample of the ring, known by its number in *)
(* the stream.  A file is the sequence of blocks in its data chunk with the *)
(* two sizes of its header, in blocks.  Every start() opens a new file.     *)
(* Undefined behaviour (a modulo by zero, a write to a closed FILE) is the  *)
(* end of the process: see crashed.                                         *)
EXTENDS Integers, Sequences

CONSTANTS
  RingSizes,   (* what configurePrebuffer makes of a rate and a length: 0 or a capacity *)
  Word,        (* dataBytes_ counts modulo this (2^32 bytes in the code)                *)
  MaxBlocks,   (* bound: blocks the source delivers                                     *)
  MaxFiles     (* bound: recordings                                                     *)

ASSUME RecorderAssumption ==
  /\ RingSizes \subseteq Nat /\ 0 \in RingSizes
  /\ Word \in Nat \ {0}
  /\ MaxBlocks \in Nat
  /\ MaxFiles \in Nat

Blocks == 1 .. MaxBlocks
Files  == 1 .. MaxFiles

VARIABLES
  ring,        (* ring_: a block in every slot, 0 where none was written   *)
  ringCap,     (* ringCap_                                                 *)
  ringWrite,   (* ringWrite_                                               *)
  recording,   (* recording_                                               *)
  f,           (* f_: the open file, 0 for nullptr                         *)
  dataBytes,   (* dataBytes_                                               *)
  files,       (* what is on disk: [data, riff, size, torn]                *)
  opened,      (* files ever opened                                        *)
  blk,         (* blocks delivered: the number of the block in hand        *)
  spc,         (* where the SDR thread is                                  *)
  sf,          (* f_ as write() saw it at its test                         *)
  gpc,         (* where the GUI thread is                                  *)
  again,       (* stop() is followed by start(): startActive's restart     *)
  crashed,     (* how the process ended: "no", "divide", "file"            *)
  drained,     (* history: [from, to], where the ring's blocks lie in each file's data *)
  overlap      (* history: a stop() has met write() under way              *)

ringVars == <<ring, ringCap, ringWrite>>
fileVars == <<recording, f, dataBytes, files, opened, drained>>
sdrVars  == <<blk, spc, sf>>
guiVars  == <<gpc, again>>
vars == <<ringVars, fileVars, sdrVars, guiVars, crashed, overlap>>

SdrStates == {"idle", "pre", "check", "test", "append", "count"}
GuiStates == {"idle", "riff", "size", "close", "zero", "open", "header", "drain", "flag"}

FileRecord == [data : Seq(0 .. MaxBlocks), riff : Nat, size : Nat, torn : BOOLEAN]
NewFile == [data |-> <<>>, riff |-> 0, size |-> 0, torn |-> FALSE]

TypeOK ==
  /\ ringCap \in RingSizes /\ ringWrite \in Nat
  /\ ring \in [0 .. ringCap - 1 -> 0 .. MaxBlocks]
  /\ recording \in BOOLEAN
  /\ f \in 0 .. MaxFiles /\ sf \in 0 .. MaxFiles /\ opened \in 0 .. MaxFiles
  /\ dataBytes \in 0 .. Word - 1
  /\ files \in [Files -> FileRecord]
  /\ blk \in 0 .. MaxBlocks
  /\ spc \in SdrStates
  /\ gpc \in GuiStates
  /\ again \in BOOLEAN /\ overlap \in BOOLEAN
  /\ crashed \in {"no", "divide", "file"}
  /\ drained \in [Files -> [from : Nat, to : Nat]]

Alive == crashed = "no"
GuiIdle == gpc = "idle" /\ Alive

-----------------------------------------------------------------------------
(* The GUI thread.                                                          *)

HeadReset == 0

(* resize() keeps what still fits and fills the rest with zeros; a length   *)
(* of zero, or a rate above 3 Msps, frees the ring.                         *)
configurePrebuffer(n) ==
  /\ GuiIdle
  /\ ringCap' = n
  /\ ring' = [j \in 0 .. n - 1 |-> IF j < ringCap THEN ring[j] ELSE 0]
  /\ ringWrite' = HeadReset
  /\ UNCHANGED <<fileVars, sdrVars, guiVars, crashed, overlap>>

Writing == spc \in {"test", "append", "count"}

(* stop(): the flag, then, if a file is open, its two sizes, fclose, and    *)
(* the head of the ring.                                                    *)
stopFlag(restart) ==
  /\ GuiIdle /\ recording
  /\ recording' = FALSE
  /\ again' = restart
  /\ gpc' = IF f = 0 THEN (IF restart THEN "open" ELSE "idle") ELSE "riff"
  /\ overlap' = (overlap \/ Writing)
  /\ UNCHANGED <<ringVars, f, dataBytes, files, opened, drained, sdrVars, crashed>>

stopRiff ==
  /\ Alive /\ gpc = "riff"
  /\ files' = [files EXCEPT ![f].riff = dataBytes]
  /\ gpc' = "size"
  /\ UNCHANGED <<ringVars, recording, f, dataBytes, opened, drained, sdrVars, again, crashed, overlap>>

stopSize ==
  /\ Alive /\ gpc = "size"
  /\ files' = [files EXCEPT ![f].size = dataBytes]
  /\ gpc' = "close"
  /\ UNCHANGED <<ringVars, recording, f, dataBytes, opened, drained, sdrVars, again, crashed, overlap>>

stopClose ==
  /\ Alive /\ gpc = "close"
  /\ f' = 0
  /\ gpc' = "zero"
  /\ UNCHANGED <<ringVars, recording, dataBytes, files, opened, drained, sdrVars, again, crashed, overlap>>

HeadLeft == ringWrite                                                    (* mutant *)
HeadZeroed == 0

stopZero ==
  /\ Alive /\ gpc = "zero"
  /\ ringWrite' = HeadZeroed
  /\ gpc' = IF again THEN "open" ELSE "idle"
  /\ again' = FALSE
  /\ UNCHANGED <<ring, ringCap, fileVars, sdrVars, crashed, overlap>>

(* The record button, enabled when nothing is recorded: the stop() start()  *)
(* begins with has no open file to close.                                   *)
startButton ==
  /\ GuiIdle /\ ~recording
  /\ gpc' = "open"
  /\ UNCHANGED <<ringVars, fileVars, sdrVars, again, crashed, overlap>>

startOpen ==
  /\ Alive /\ gpc = "open" /\ opened < MaxFiles
  /\ \/ f' = opened + 1 /\ opened' = opened + 1 /\ gpc' = "header"
     \/ UNCHANGED <<f, opened>> /\ gpc' = "idle"              (* fopen failed *)
  /\ UNCHANGED <<ringVars, recording, dataBytes, files, drained, sdrVars, again, crashed, overlap>>

startHeader ==
  /\ Alive /\ gpc = "header"
  /\ dataBytes' = 0
  /\ gpc' = "drain"
  /\ UNCHANGED <<ringVars, recording, f, files, opened, drained, sdrVars, again, crashed, overlap>>

Avail == IF ringWrite < ringCap THEN ringWrite ELSE ringCap

FromSlotZero == [i \in 1 .. Avail |-> ring[(i - 1) % ringCap]]           (* mutant *)
RingTail == [i \in 1 .. Avail |-> ring[(ringWrite - Avail + i - 1) % ringCap]]

(* Under ringMtx_: what the ring holds goes into the file, oldest first.    *)
startDrain ==
  /\ Alive /\ gpc = "drain"
  /\ files' = [files EXCEPT ![f].data = @ \o RingTail]
  /\ drained' = [drained EXCEPT ![f] = [from |-> Len(files[f].data), to |-> Len(files[f].data) + Avail]]
  /\ dataBytes' = (dataBytes + Avail) % Word
  /\ gpc' = "flag"
  /\ UNCHANGED <<ringVars, recording, f, opened, sdrVars, again, crashed, overlap>>

startFlag ==
  /\ Alive /\ gpc = "flag"
  /\ recording' = TRUE
  /\ gpc' = "idle"
  /\ UNCHANGED <<ringVars, f, dataBytes, files, opened, drained, sdrVars, again, crashed, overlap>>

-----------------------------------------------------------------------------
(* The SDR thread: one block.                                               *)

(* prebuffer() looks at ringCap_ before it takes ringMtx_.                  *)
sdrBlock ==
  /\ Alive /\ spc = "idle" /\ blk < MaxBlocks
  /\ blk' = blk + 1
  /\ spc' = IF ringCap = 0 THEN "check" ELSE "pre"
  /\ UNCHANGED <<ringVars, fileVars, sf, guiVars, crashed, overlap>>

(* ... and does not look again under it: ringWrite_ % ringCap_ (l.52).      *)
sdrPrebuffer ==
  /\ Alive /\ spc = "pre"
  /\ IF ringCap = 0
     THEN crashed' = "divide" /\ UNCHANGED <<ringVars, spc>>
     ELSE /\ ring' = [ring EXCEPT ![ringWrite % ringCap] = blk]
          /\ ringWrite' = ringWrite + 1
          /\ spc' = "check"
          /\ UNCHANGED <<ringCap, crashed>>
  /\ UNCHANGED <<fileVars, blk, sf, guiVars, overlap>>

Ignored == TRUE                                                          (* mutant *)
isRecording == recording

sdrCheck ==
  /\ Alive /\ spc = "check"
  /\ spc' = IF isRecording THEN "test" ELSE "idle"
  /\ UNCHANGED <<ringVars, fileVars, blk, sf, guiVars, crashed, overlap>>

(* write(): the test of f_ and the conversion of the block.                 *)
sdrTest ==
  /\ Alive /\ spc = "test"
  /\ sf' = f
  /\ spc' = IF f = 0 THEN "idle" ELSE "append"
  /\ UNCHANGED <<ringVars, fileVars, blk, guiVars, crashed, overlap>>

(* The file position is inside the header while start() writes it and while *)
(* stop() patches it: a block written then overwrites the header.           *)
InHeader == gpc \in {"header", "size", "close"}

(* fwrite(f_).  The file it tested may be closed by now.                    *)
sdrAppend ==
  /\ Alive /\ spc = "append"
  /\ \/ /\ f # sf
        /\ crashed' = "file"
        /\ UNCHANGED <<files, spc>>
     \/ /\ f # 0
        /\ files' = IF InHeader THEN [files EXCEPT ![f].torn = TRUE]
                                ELSE [files EXCEPT ![f].data = Append(@, blk)]
        /\ spc' = "count"
        /\ UNCHANGED crashed
  /\ UNCHANGED <<ringVars, recording, f, dataBytes, opened, drained, blk, sf, guiVars, overlap>>

NotCounted == dataBytes                                                  (* mutant *)
NotWrapped == dataBytes + 1                                              (* mutant *)
OneMore == (dataBytes + 1) % Word

sdrCount ==
  /\ Alive /\ spc = "count"
  /\ dataBytes' = OneMore
  /\ spc' = "idle"
  /\ UNCHANGED <<ringVars, recording, f, files, opened, drained, blk, sf, guiVars, crashed, overlap>>

-----------------------------------------------------------------------------
Init ==
  /\ ring = [j \in {} |-> 0] /\ ringCap = 0 /\ ringWrite = 0
  /\ recording = FALSE /\ f = 0 /\ dataBytes = 0
  /\ files = [i \in Files |-> NewFile] /\ opened = 0
  /\ drained = [i \in Files |-> [from |-> 0, to |-> 0]]
  /\ blk = 0 /\ spc = "idle" /\ sf = 0
  /\ gpc = "idle" /\ again = FALSE
  /\ crashed = "no" /\ overlap = FALSE

Gui ==
  \/ \E n \in RingSizes : configurePrebuffer(n)
  \/ \E restart \in BOOLEAN : stopFlag(restart)
  \/ stopRiff \/ stopSize \/ stopClose \/ stopZero
  \/ startButton \/ startOpen \/ startHeader \/ startDrain \/ startFlag

Sdr == sdrBlock \/ sdrPrebuffer \/ sdrCheck \/ sdrTest \/ sdrAppend \/ sdrCount

Next == Gui \/ Sdr

Spec == Init /\ [][Next]_vars

-----------------------------------------------------------------------------
(* Properties.                                                              *)

Finished == {i \in 1 .. opened : f # i}

(* "Finalize header and close" (iq_recorder.h l.39): unless a stop met the  *)
(* SDR thread inside write(), a finished file is intact and both sizes in   *)
(* its header are the length of its data, modulo the width of dataBytes_.   *)
HeaderTellsData == ~overlap => \A i \in Finished :
  /\ ~files[i].torn
  /\ files[i].riff = files[i].size
  /\ files[i].size = Len(files[i].data) % Word

Elements(s) == {s[i] : i \in DOMAIN s}
FromRing(i) == {files[i].data[k] : k \in drained[i].from + 1 .. drained[i].to}

(* "so stale data from this recording session doesn't bleed into the next   *)
(* one" (l.151): what start() drains from the ring is in no earlier         *)
(* recording, whatever the SDR thread was doing when that one was stopped.  *)
(* (A block can still be in two files: drained into one and, when that one  *)
(* is stopped and the next started before the callback goes on, written     *)
(* live into the next.)                                                     *)
NoBleed == \A i, j \in Files :
  i < j => Elements(files[i].data) \intersect FromRing(j) = {}

(* A recording is one stretch of the stream: consecutive blocks, except     *)
(* that where the pre-buffer ends and live writing begins blocks may be     *)
(* missing, or one may come twice (start() drains the ring and only later   *)
(* sets the flag).                                                          *)
OneStretch == ~overlap => \A i \in Files : \A k \in 1 .. Len(files[i].data) - 1 :
  LET here == files[i].data[k]
      next == files[i].data[k + 1]
  IN  IF k = drained[i].to THEN here <= next ELSE next = here + 1

(* The process ends in two races only: stop() closes the file under a       *)
(* write() that met it, or the ring, on when the block began, is disabled   *)
(* before prebuffer() takes the lock, although iq_recorder.h l.28 calls it  *)
(* a "No-op when the ring is disabled".                                     *)
CrashOnlyByRace ==
  /\ crashed = "file" => overlap
  /\ crashed = "divide" => ringCap = 0
=============================================================================
