--------------------------- MODULE MCAudioCapture ---------------------------
(***************************************************************************)
(* Of the front end: a ring of 16 samples, packets of 6 (3 output samples  *)
(* of 2 each), so that packets straddle the ring's end at different        *)
(* places, and transfers of 5, so that neither packets nor the ring are    *)
(* made of whole ones.  Of the sound card: a ring of 16 and frames of 3,   *)
(* with time for main to be overtaken twice.                               *)
(***************************************************************************)
EXTENDS AudioCapture
=============================================================================
