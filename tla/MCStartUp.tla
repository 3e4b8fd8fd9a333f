------------------------------ MODULE MCStartUp ------------------------------
(***************************************************************************)
(* Either front end, one troubled way or another: a behaviour has one of   *)
(* the budgets below, so that not every trouble meets every other.         *)
(***************************************************************************)
EXTENDS StartUp

MCDataAddress == <<239, 1, 1, 1, 19, 138>>
MCPcmAddress == <<239, 2, 2, 2, 19, 138>>
MCOrders == {NoItems, [mixer |-> EncodedByte(0)]}

NoOptions == <<>>
SomeOptions == <<[mode |-> [low |-> 3, high |-> 1, isb |-> TRUE]], [high |-> 5]>>

Case(losses, stops, programs, blind) ==
  [losses |-> losses, stops |-> stops, changes |-> 0, orders |-> 0, commands |-> 0,
   receiver |-> TRUE, blind |-> blind, signals |-> {-78}, programs |-> programs,
   given |-> {}, failures |-> 0,
   options |-> {NoOptions}]

MCBudgets == {
  \* the chain of programs, with losses or a front end that is restarted
  Case(1, 0, {"opus"}, FALSE), Case(0, 1, {"packet"}, FALSE),
  [Case(0, 0, {"packet"}, FALSE) EXCEPT !.given = {"packet"}, !.failures = 2],
  [Case(0, 0, {"opus"}, FALSE) EXCEPT !.given = {"opus"}, !.failures = 2],
  \* radio and a front end whose gains change
  [Case(0, 0, {}, FALSE) EXCEPT !.signals = {-40}],
  \* radio with options and a command
  [Case(0, 0, {}, FALSE) EXCEPT !.commands = 1, !.options = {SomeOptions}],
  \* radio with commands, the second of which finds the first obeyed or not
  [Case(0, 0, {}, FALSE) EXCEPT !.commands = 2],
  \* the AGC alone
  [Case(0, 1, {}, TRUE) EXCEPT !.changes = 1, !.orders = 1, !.receiver = FALSE,
                               !.signals = {-90, -60, -40}]}

MCCommands == {[low |-> 2], [low |-> -4, high |-> 4, isb |-> TRUE]}
=============================================================================
