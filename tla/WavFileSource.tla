--------------------------- MODULE WavFileSource ----------------------------
(* The WAV player src/src/sdr/wav_file_source.cpp: start() and stop() on    *)
(* the GUI thread, playLoop() on its own.  The file is a recording of       *)
(* src/src/sdr/iq_recorder.cpp, whose header states its size in 32 bits: 0  *)
(* until stop() patched it.  Sizes count frames (one I/Q pair); sample      *)
(* formats, the conversion to float and the pacing are left out.            *)
EXTENDS Integers

CONSTANTS
  MaxFrames,  (* bound: frames of a file                                    *)
  Width,      (* frames at which the 32-bit size wraps                      *)
  kFrames,    (* frames of a block: 32768                                   *)
  MaxStarts   (* bound: starts                                              *)

ASSUME WavAssumption ==
  /\ MaxFrames \in Nat /\ MaxStarts \in Nat
  /\ Width \in Nat \ {0}
  /\ kFrames \in Nat \ {0}

VARIABLES
  file,       (* [physical, declared] frames                                *)
  dataFrames, (* dataBytes_                                                 *)
  wavRunning, loop,                 (* running_, loop_                      *)
  wavThread,  (* thread_: none, open, play, ended (to be joined)            *)
  framePos, filePos,     (* playLoop's count; the position of its stream    *)
  wavGpc,     (* GUI thread: idle, join, crashed                            *)
  starts,
  heard,      (* history: frames of this pass called back in order, or -1   *)
  short       (* history: a pass ended or turned by itself before the end   *)

fileVars == <<file, dataFrames>>
playVars == <<framePos, filePos, heard, short>>
wavVars == <<fileVars, wavRunning, loop, wavThread, playVars, wavGpc, starts>>

(* A recording, one never finished, or a copy of one cut short.             *)
Files == {f \in [physical : 0 .. MaxFrames, declared : 0 .. Width - 1] :
            f.declared \in {0, f.physical % Width} \/ f.declared > f.physical}

WavInit ==
  /\ file \in Files /\ dataFrames = 0
  /\ wavRunning = FALSE /\ loop \in BOOLEAN /\ wavThread = "none"
  /\ framePos = 0 /\ filePos = 0 /\ wavGpc = "idle" /\ starts = 0
  /\ heard = 0 /\ short = FALSE

(* ----------------------------- GUI thread ------------------------------ *)
DataSize == IF file.physical > 0 /\ (file.declared = 0 \/ file.declared > file.physical)
            THEN file.physical ELSE file.declared

(* A playLoop that ended by itself was not joined: assigning to its         *)
(* std::thread ends the process.                                            *)
wavStart ==
  /\ wavGpc = "idle" /\ ~wavRunning /\ starts < MaxStarts
  /\ starts' = starts + 1 /\ wavRunning' = TRUE /\ dataFrames' = DataSize
  /\ IF wavThread = "ended" THEN wavGpc' = "crashed" /\ UNCHANGED wavThread
                            ELSE wavThread' = "open" /\ UNCHANGED wavGpc
  /\ UNCHANGED <<file, loop, playVars>>

wavStop ==
  /\ wavGpc = "idle" /\ wavGpc' = "join" /\ wavRunning' = FALSE
  /\ UNCHANGED <<fileVars, loop, wavThread, playVars, starts>>

wavStopJoin ==
  /\ wavGpc = "join" /\ wavThread \in {"none", "ended"}
  /\ wavGpc' = "idle" /\ wavThread' = "none"
  /\ UNCHANGED <<fileVars, wavRunning, loop, playVars, starts>>

setLoop ==
  /\ wavGpc = "idle" /\ wavRunning /\ loop' = ~loop
  /\ UNCHANGED <<fileVars, wavRunning, wavThread, playVars, wavGpc, starts>>

(* ------------------------------ playLoop ------------------------------- *)
PlayerOnly == UNCHANGED <<fileVars, loop, wavGpc, starts>>
Finished == wavThread' = "ended" /\ wavRunning' = FALSE
PassOver == short' = (short \/ heard < file.physical)

openFile ==
  /\ wavThread = "open" /\ wavThread' = "play"
  /\ framePos' = 0 /\ filePos' = 0 /\ heard' = 0
  /\ UNCHANGED <<wavRunning, short>> /\ PlayerOnly

NotRewound == filePos                                                    (* mutant *)
Rewound == 0

turn ==
  /\ wavThread = "play" /\ wavRunning /\ framePos = dataFrames /\ loop
  /\ framePos' = 0 /\ filePos' = Rewound /\ heard' = 0 /\ PassOver
  /\ UNCHANGED <<wavRunning, wavThread>> /\ PlayerOnly

Least(a, b) == IF a < b THEN a ELSE b

(* A block is read, called back and waited for.                             *)
playBlock ==
  /\ wavThread = "play" /\ wavRunning /\ framePos < dataFrames
  /\ LET got == Least(Least(kFrames, dataFrames - framePos), file.physical - filePos) IN
     IF got = 0
     THEN Finished /\ PassOver /\ UNCHANGED <<framePos, filePos, heard>>
     ELSE /\ framePos' = framePos + got /\ filePos' = filePos + got
          /\ heard' = IF heard = filePos THEN heard + got ELSE -1
          /\ UNCHANGED <<wavRunning, wavThread, short>>
  /\ PlayerOnly

playEnds ==
  /\ wavThread = "play"
  /\ \/ ~wavRunning /\ UNCHANGED short
     \/ wavRunning /\ framePos = dataFrames /\ ~loop /\ PassOver
  /\ Finished /\ UNCHANGED <<framePos, filePos, heard>> /\ PlayerOnly

WavNext ==
  \/ wavStart \/ wavStop \/ wavStopJoin \/ setLoop
  \/ openFile \/ turn \/ playBlock \/ playEnds

WavSpec == WavInit /\ [][WavNext]_wavVars

(* ------------------------------ properties ----------------------------- *)
(* A pass that ends or turns by itself has called back every frame of the   *)
(* recording once and in order, also if the recorder never patched the      *)
(* header.  Only a recording so long that its size wrapped is cut short.    *)
PlaysWhole == heard # -1 /\ (short => file.physical >= Width)
====
