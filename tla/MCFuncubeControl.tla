-------------------------- MODULE MCFuncubeControl --------------------------
(***************************************************************************)
(* A dongle behind a keyboard and a device of the same vendor that is no   *)
(* dongle; the command packet sets a gain and moves the frequency across   *)
(* the LNA's band edge.                                                    *)
(***************************************************************************)
EXTENDS FuncubeControl

MCPackets == {<<Command("if", 20), Command("freq", 435)>>}

MCFirst == [freq |-> 145, lna |-> 1, mixer |-> 0, if |-> 10]
MCSettings == {[freq |-> 435, lna |-> 0, mixer |-> 1, if |-> 0]}

MCOthers == <<[vendor |-> "other", product |-> "keyboard", hid |-> 2],
              [vendor |-> "fcd", product |-> "bootloader", hid |-> 1]>>
=============================================================================
