---------------------------- MODULE MC_IqRecorder ----------------------------
(* Two recordings of a stream of a few blocks, a ring of none, one or two   *)
(* blocks, and a byte counter narrow enough to wrap.                        *)
EXTENDS IqRecorder
=============================================================================
