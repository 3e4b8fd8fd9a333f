------------------------- MODULE MCReceiverSessions --------------------------
(***************************************************************************)
(* Two groups.  One has two senders of the same ssrc; the other has one of *)
(* these senders with another ssrc.                                        *)
(***************************************************************************)
EXTENDS ReceiverSessions

CONSTANTS r1, r2

Stream(sender, ssrc) == [sender |-> sender, ssrc |-> ssrc]

MCHeard == [r \in Receivers |-> IF r = r1 THEN {Stream("a", 1), Stream("b", 1)}
                                ELSE {Stream("a", 2)}]

MCStreams == UNION {MCHeard[r] : r \in Receivers}
=============================================================================
