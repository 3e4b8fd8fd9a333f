-------------------------- MODULE MCRemoteControl ---------------------------
(***************************************************************************)
(* Modes of modes.txt: FM, AM (envelope detector) and USB.                 *)
(***************************************************************************)
EXTENDS RemoteControl

LOCAL Linear(pll, env) ==
  [demod |-> "LINEAR", pll |-> pll, square |-> FALSE, env |-> env]

MCModes == {"FM", "AM"}

MCPresets == [m \in MCModes |-> IF m = "AM" THEN Linear(FALSE, TRUE)
                               ELSE [Linear(FALSE, FALSE) EXCEPT !.demod = "FM"]]

MCTuners == {0, 1}
=============================================================================
