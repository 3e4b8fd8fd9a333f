----------------------------- MODULE MCRtpInput -----------------------------
(***************************************************************************)
(* The stream with a sequence number of 6 values and a timestamp of 24, so *)
(* that both wrap within one run of the front end, packets of 3 samples    *)
(* and filter blocks of 4, which divide neither each other nor the gap of  *)
(* 4 samples that radio is willing to fill.                                *)
(***************************************************************************)
EXTENDS RtpInput
=============================================================================
