-------------------------- MODULE MCMonitorPlayout --------------------------
(***************************************************************************)
(* A ring of 8 slots played 3 at a time, packets of 2 samples; the second *)
(* packet has sequence number 0 and the timestamp wraps inside it.  Four   *)
(* calls of the callback go round the ring once and a half.                *)
(***************************************************************************)
EXTENDS MonitorPlayout

MCSilences == {0, 3}
=============================================================================
