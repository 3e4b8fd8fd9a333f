-------------------------- MODULE MCBlockPipeline --------------------------
(***************************************************************************)
(* The pipeline with radio's two demodulators.  Four blocks let a late     *)
(* thread be overtaken, a block be skipped and the pipeline recover.       *)
(***************************************************************************)
EXTENDS BlockPipeline

CONSTANTS LINEAR_DEMOD, FM_DEMOD

MCDemods == {LINEAR_DEMOD, FM_DEMOD}
=============================================================================
