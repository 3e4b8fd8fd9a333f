------------------------------ MODULE MCTuning ------------------------------
(***************************************************************************)
(* Tuning with a sample rate of 12, so that a quarter of it, 3, is a       *)
(* frequency; the tuner's step is 2.  Of the radio frequencies two can be  *)
(* reached with one LO1, and the third needs a retune.  Of the second LO   *)
(* frequencies the last is beyond the Nyquist rate.                        *)
(***************************************************************************)
EXTENDS Tuning

MCFreqs == {20, 23, 40}
MCLO2s  == {4, 7}
MCLow   == -1
=============================================================================
