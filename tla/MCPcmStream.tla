---------------------------- MODULE MCPcmStream ----------------------------
(***************************************************************************)
(* Blocks of 4 samples in packets of 3 and 1, Opus frames of 2, so that   *)
(* frames are cut inside packets and across silence, a packet completes    *)
(* none, one or two of them, and timestamps and sequence numbers wrap.     *)
(***************************************************************************)
EXTENDS PcmStream
=============================================================================
