----------------------------- MODULE MC_Samples -----------------------------
(* Where samples come from and where the spectrum gets them: the IQ ring,   *)
(* the SDR++ client and the WAV player.  They share no state; each initial  *)
(* state chooses one, and the others rest in one of their initial states.   *)
(* The ring has three samples, blocks of up to four (one more than the ring *)
(* holds, so a block overwrites itself) and several turns of the ring.      *)
EXTENDS IqRing, SdrppServerSource, WavFileSource

VARIABLE part

SamplesInit ==
  /\ part \in {"ring", "server", "wav"}
  /\ Init /\ SdrppInit /\ WavInit
  /\ part # "server" => wakes
  /\ part # "wav" => file.physical = 1 /\ file.declared = 0 /\ loop

SamplesNext ==
  /\ UNCHANGED part
  /\ \/ part = "ring" /\ Next /\ UNCHANGED <<sdrppVars, wavVars>>
     \/ part = "server" /\ SdrppNext /\ UNCHANGED <<vars, wavVars>>
     \/ part = "wav" /\ WavNext /\ UNCHANGED <<vars, sdrppVars>>

sampleVars == <<part, vars, sdrppVars, wavVars>>

SamplesSpec ==
  /\ SamplesInit /\ [][SamplesNext]_sampleVars
  /\ WF_sampleVars(part = "server" /\ Worker /\ UNCHANGED <<part, vars, wavVars>>)
  /\ WF_sampleVars(part = "server" /\ Stop /\ UNCHANGED <<part, vars, wavVars>>)
====
