-------------------------- MODULE MC_DecoderManager --------------------------
(* Small instances of DecoderManager.  Everything is fixed by the cfgs:     *)
(*   MC_DecoderManager_threads    one frequency, the interleavings of feed, *)
(*                                the workers and the GUI calls             *)
(*   MC_DecoderManager_placement  no IQ, many frequencies and kinds: where  *)
(*                                addDecoder puts decoders                  *)
EXTENDS DecoderManager

(* With no IQ the threads only wait, and the wideband centre plays no part  *)
(* in the choice of a sub-band: the placement run moves the GUI thread      *)
(* alone and fixes the centre.                                              *)
PlacementInit == Init /\ wide = 0
PlacementNext == RegistryCall \/ startBegin \/ GuiContinue
PlacementSpec == PlacementInit /\ [][PlacementNext]_vars

(* What the future of a state depends on, for the threads run.  Left out    *)
(* are loop variables out of scope and the histories of decoders that are   *)
(* removed and in no snapshot: these never change again, ids are not used   *)
(* twice and drops only grows, so what the invariants say of them was       *)
(* checked while the decoder was still there.                               *)
Present == {d.id : d \in decoders} \union UNION {snap[w] : w \in Workers}
ThreadsView ==
  <<registry, threads, fpc, blk, run, pool, gui, crashed,
    IF fpc = "idle" THEN 0 ELSE fw, IF gui = "removing" THEN gw ELSE 0, cut,
    [id \in Present |-> <<processed[id], since[id], born[id]>>]>>
=============================================================================
