------------------------------ MODULE MCPlayer ------------------------------
(***************************************************************************)
(* An I/Q front end and a PCM stream of another sender under the same      *)
(* SSRC.  The timestamps of both wrap.                                     *)
(***************************************************************************)
EXTENDS Player, TLC

MCIq == [sender |-> "a", ssrc |-> 1, type |-> "iq", rate |-> 192000]
MCMono == [sender |-> "b", ssrc |-> 1, type |-> "mono", rate |-> 48000]
MCOther == [sender |-> "a", ssrc |-> 1, type |-> "opus", rate |-> 48000]

MCSent == (MCIq :> 2) @@ (MCMono :> 2) @@ (MCOther :> 1)

MCStreams == {MCIq, MCMono, MCOther}
=============================================================================
