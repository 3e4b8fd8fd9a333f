--------------------------- MODULE FuncubeControl ---------------------------
(***************************************************************************)
(* The control side of the FUNcube front end: the thread that takes        *)
(* commands, reads the dongle's settings back, sends a status and adjusts  *)
(* the gains (ncmd, decode_fcd_commands, readback, send_fcd_status and     *)
(* do_fcd_agc in funcube.c), and the exchanges with the dongle it is made  *)
(* of (fcd.c), over the HID device of module HidDevice.                    *)
(*                                                                         *)
(* An exchange writes a command and waits for a report.  What the report   *)
(* answers is compared with the command, but only front_end_init acts on   *)
(* the result.  Setting the frequency and reading a parameter wait for at  *)
(* most a second; the other exchanges wait without limit.                  *)
(*                                                                         *)
(* Frequencies are in MHz; a parameter's value is what its register holds. *)
(***************************************************************************)
EXTENDS HidDevice, Integers

CONSTANTS
  Packets,      \* sequences of [cmd, val]: command packets that may come
  HoldChoices,  \* subset of BOOLEAN: the settings of No_hold_open to look at
  MaxTries,     \* tries of fcdAppSetFreq
  FirstSetting, \* the dongle's registers at the start
  Settings,     \* settings another program may leave
  MaxPasses,    \* bound: passes of ncmd's loop
  MaxTroubles   \* bound: losses, delays, unplugging and other programs together

VARIABLES
  dongle,   \* its registers: freq, lna, mixer and if
  sdr,      \* sdr->intfreq and sdr->status: freq, lna, mixer and if, in dB
  pc,       \* where the thread is
  stage,    \* "init", "loop", "agc": what the exchanges are for
  todo,     \* exchanges left in this stage
  tries,    \* of the present exchange
  initOK,   \* the answers to front_end_init's queries were right
  passes, troubles,
  noHoldOpen, \* No_hold_open: the device is closed after every pass
  sure      \* history: since readback began nothing failed, timed out or was
            \* asked while an answer given up on could still come

clientVars == <<dongle, sdr, pc, stage, todo, tries, initOK, passes, troubles, noHoldOpen, sure>>
vars == <<libVars, readVars, deviceVars, clientVars>>

Sets == {"freq", "lna", "mixer", "if"}
Gets == {"getlna", "getmixer", "getif", "getfreq"}
Register(cmd) == CASE cmd \in {"freq", "getfreq"} -> "freq"
                   [] cmd \in {"lna", "getlna"} -> "lna"
                   [] cmd \in {"mixer", "getmixer"} -> "mixer"
                   [] cmd \in {"if", "getif"} -> "if"

Command(c, v) == [cmd |-> c, val |-> v, late |-> FALSE]

Exchange == [cmd : Sets \cup Gets \cup {"mode", "caps"}, val : Nat, late : BOOLEAN]

\* A command packet sets parameters.
ASSUME ControlAssumption ==
  /\ Packets \subseteq Seq([cmd : Sets, val : Nat, late : {FALSE}])
  /\ HoldChoices \subseteq BOOLEAN
  /\ FirstSetting \in [Sets -> Nat] /\ Settings \subseteq [Sets -> Nat]
  /\ MaxTries \in Nat \ {0} /\ {MaxPasses, MaxTroubles} \subseteq Nat

TypeOK ==
  /\ HidTypeOK(Exchange, Exchange)
  /\ dongle \in [Sets -> Nat] /\ sdr \in [Sets -> Nat]
  /\ pc \in {"open", "recv", "decode", "next", "reading", "send", "agc", "close", "join", "ended"}
  /\ stage \in {"init", "loop", "agc"}
  /\ todo \in Seq(Exchange)
  /\ tries \in 0..MaxTries
  /\ {initOK, noHoldOpen, sure} \subseteq BOOLEAN
  /\ passes \in 0..MaxPasses /\ troubles \in 0..MaxTroubles

\* fcdGetMode and fcdGetCapsStr ask the same; only the first answer is looked at.
QueryMode == Command("mode", 0)
QueryCaps == Command("caps", 0)
Readback == <<Command("getlna", 0), Command("getmixer", 0),
              Command("getif", 0), Command("getfreq", 0)>>

Init ==
  /\ HidInit
  /\ dongle = FirstSetting
  /\ sdr = [r \in Sets |-> 0]
  /\ pc = "open" /\ stage = "init" /\ todo = <<QueryMode, QueryCaps>>
  /\ tries = 0 /\ initOK = TRUE
  /\ passes = 0 /\ troubles = 0 /\ sure = FALSE
  /\ noHoldOpen \in HoldChoices

-----------------------------------------------------------------------------
(* One exchange with the dongle *)

WithLimit(cmd) == cmd \in Gets \cup {"freq"}

\* The gain is told by the band: of the register only zero or not matters.
LnaGain(on, freq) == IF on = 0 THEN 0 ELSE IF freq >= 420 THEN 7 ELSE 24

\* What the thread stores of a parameter it sets, before it has been set; a new
\* frequency changes the gain of an LNA that is on.
Stored(c) ==
  CASE c.cmd = "freq" -> [sdr EXCEPT !.freq = c.val, !.lna = LnaGain(@, c.val)]
    [] c.cmd \in Sets \ {"freq"} -> [sdr EXCEPT ![c.cmd] = c.val]
    [] OTHER -> sdr

\* What goes to the dongle: the LNA and the mixer are on or off.
OnWire(c) == IF c.cmd \in {"lna", "mixer"} THEN [c EXCEPT !.val = IF @ = 0 THEN 0 ELSE 1] ELSE c

\* Mutant: a parameter is set without reading the answer.
WriteAndGoOn ==
  /\ pc = "next" /\ todo # <<>>
  /\ Write(OnWire(Head(todo)))
  /\ sdr' = Stored(Head(todo))
  /\ sure' = (sure /\ ~LateOnes)
  /\ IF Head(todo).cmd \in Sets \ {"freq"}
     THEN pc' = "next" /\ todo' = Tail(todo) /\ UNCHANGED <<reader, timed, tries>>
     ELSE /\ reader' = "test" /\ timed' = WithLimit(Head(todo).cmd)
          /\ pc' = "reading" /\ tries' = tries + 1
          /\ UNCHANGED todo
  /\ UNCHANGED <<libVars, answer, outbox, plugged, dongle, stage, initOK, passes, troubles, noHoldOpen>>

WriteCommand ==
  /\ pc = "next" /\ todo # <<>>
  /\ Write(OnWire(Head(todo)))
  /\ sdr' = Stored(Head(todo))
  /\ tries' = tries + 1
  /\ reader' = "test" /\ timed' = WithLimit(Head(todo).cmd)
  /\ pc' = "reading"
  /\ sure' = (sure /\ ~LateOnes)
  /\ UNCHANGED <<libVars, answer, outbox, plugged, dongle, stage, todo, initOK, passes, troubles, noHoldOpen>>

\* The buffer is filled with 0xCC before the read, and a byte of it taken
\* whatever the read returns.
Data(cmd) ==
  IF answer \in {Failed, TimedOut} THEN IF cmd = "getfreq" THEN 3435 ELSE 204
  ELSE answer.val

ReadbackOf(cmd) ==
  CASE cmd = "getlna" -> [sdr EXCEPT !.lna = LnaGain(Data(cmd), sdr.freq)]
    [] cmd = "getmixer" -> [sdr EXCEPT !.mixer = IF Data(cmd) = 0 THEN 0 ELSE 19]
    [] cmd = "getif" -> [sdr EXCEPT !.if = Data(cmd)]
    [] cmd = "getfreq" -> [sdr EXCEPT !.freq = Data(cmd)]
    [] OTHER -> sdr

Answered == pc = "reading" /\ reader = "out"

\* fcdAppSetFreq repeats the command when the read has timed out.
Retry ==
  /\ Answered
  /\ Head(todo).cmd = "freq" /\ answer = TimedOut /\ tries < MaxTries
  /\ pc' = "next"
  /\ answer' = NoReport /\ timed' = FALSE
  /\ UNCHANGED <<libVars, reader, deviceVars, dongle, sdr, stage, todo, tries, initOK,
                 passes, troubles, sure, noHoldOpen>>

NoMode == Head(todo).cmd = "mode" /\ answer.cmd # "mode"

FinishExchange ==
  /\ Answered
  /\ ~(Head(todo).cmd = "freq" /\ answer = TimedOut /\ tries < MaxTries)
  /\ sdr' = ReadbackOf(Head(todo).cmd)
  /\ initOK' = (initOK /\ ~NoMode)
  /\ sure' = (IF stage = "loop" /\ Head(todo).cmd \in Sets THEN TRUE
              ELSE sure /\ answer \notin {Failed, TimedOut})
  /\ todo' = IF NoMode THEN <<>> ELSE Tail(todo)
  /\ tries' = 0
  /\ pc' = "next"
  /\ answer' = NoReport /\ timed' = FALSE
  /\ UNCHANGED <<libVars, reader, deviceVars, dongle, stage, passes, troubles, noHoldOpen>>

-----------------------------------------------------------------------------
(* ncmd *)

\* recv, for 100 ms, brings nothing or a command packet.
Receive ==
  /\ pc = "recv" /\ passes < MaxPasses
  /\ \E commands \in Packets \cup {<<>>} : todo' = commands \o Readback
  /\ passes' = passes + 1
  /\ stage' = "loop" /\ sure' = TRUE
  /\ pc' = IF handle THEN "next" ELSE "open"
  /\ UNCHANGED <<libVars, readVars, deviceVars, dongle, sdr, tries, initOK, troubles, noHoldOpen>>

\* ... or our own status, which is left alone; but a closed device is opened.
OwnStatus ==
  /\ pc = "recv" /\ ~handle
  /\ todo' = <<>> /\ stage' = "agc"
  /\ pc' = "open"
  /\ UNCHANGED <<libVars, readVars, deviceVars, dongle, sdr, tries, initOK, passes, troubles, sure, noHoldOpen>>

Open ==
  /\ pc = "open"
  /\ OpenDevice
  /\ pc' = "next"
  /\ UNCHANGED <<dongle, sdr, stage, todo, tries, initOK, passes, troubles, sure, noHoldOpen>>

\* No device, or another program has claimed its interface: the thread ends.
OpenFails ==
  /\ pc = "open"
  /\ \/ fcdFind(Bus, 0) = 0 /\ UNCHANGED troubles
     \/ /\ noHoldOpen /\ troubles < MaxTroubles
        /\ troubles' = troubles + 1
  /\ pc' = "ended"
  /\ UNCHANGED <<libVars, readVars, deviceVars, dongle, sdr, stage, todo, tries, initOK, passes, sure, noHoldOpen>>

\* front_end_init returns, and main starts the thread or exits.
EndInit ==
  /\ pc = "next" /\ todo = <<>> /\ stage = "init"
  /\ pc' = IF ~initOK THEN "ended" ELSE IF noHoldOpen THEN "close" ELSE "recv"
  /\ UNCHANGED <<libVars, readVars, deviceVars, dongle, sdr, stage, todo, tries, initOK,
                 passes, troubles, sure, noHoldOpen>>

EndReadback ==
  /\ pc = "next" /\ todo = <<>> /\ stage = "loop"
  /\ pc' = "send"
  /\ UNCHANGED <<libVars, readVars, deviceVars, dongle, sdr, stage, todo, tries, initOK,
                 passes, troubles, sure, noHoldOpen>>

\* send_fcd_status: a packet with the fields of sdr.
SendStatus ==
  /\ pc = "send"
  /\ pc' = IF noHoldOpen THEN "close" ELSE "agc"
  /\ UNCHANGED <<libVars, readVars, deviceVars, dongle, sdr, stage, todo, tries, initOK,
                 passes, troubles, sure, noHoldOpen>>

Most(x, y) == IF x > y THEN x ELSE y
Least(x, y) == IF x < y THEN x ELSE y

\* The exchange do_fcd_agc makes when the A/D level is too high or too low.
Adjustment(level) ==
  CASE level = "high" /\ sdr.if > 0 -> <<Command("if", Most(0, sdr.if - 10))>>
    [] level = "high" /\ sdr.if = 0 /\ sdr.mixer # 0 -> <<Command("mixer", 0)>>
    [] level = "high" /\ sdr.if = 0 /\ sdr.mixer = 0 /\ sdr.lna # 0 -> <<Command("lna", 0)>>
    [] level = "low" /\ sdr.lna = 0 -> <<Command("lna", 24)>>
    [] level = "low" /\ sdr.lna # 0 /\ sdr.mixer = 0 -> <<Command("mixer", 19)>>
    [] level = "low" /\ sdr.lna # 0 /\ sdr.mixer # 0 /\ sdr.if < 20 ->
         <<Command("if", Least(20, sdr.if + 10))>>
    [] OTHER -> <<>>

AdjustGain ==
  /\ pc = "agc"
  /\ \E level \in {"low", "right", "high"} : todo' = Adjustment(level)
  /\ stage' = "agc"
  /\ pc' = "next"
  /\ UNCHANGED <<libVars, readVars, deviceVars, dongle, sdr, tries, initOK, passes, troubles, sure, noHoldOpen>>

EndPass ==
  /\ pc = "next" /\ todo = <<>> /\ stage = "agc"
  /\ pc' = "recv"
  /\ UNCHANGED <<libVars, readVars, deviceVars, dongle, sdr, stage, todo, tries, initOK,
                 passes, troubles, sure, noHoldOpen>>

Close ==
  /\ pc = "close"
  /\ BeginClose
  /\ pc' = "join"
  /\ UNCHANGED <<dongle, sdr, stage, todo, tries, initOK, passes, troubles, sure, noHoldOpen>>

Joined ==
  /\ pc = "join"
  /\ FinishClose
  /\ pc' = "recv"
  /\ UNCHANGED <<dongle, sdr, stage, todo, tries, initOK, passes, troubles, sure, noHoldOpen>>

Ncmd ==
  \/ WriteCommand \/ Retry \/ FinishExchange
  \/ Receive \/ OwnStatus \/ Open \/ OpenFails \/ EndInit \/ EndReadback \/ SendStatus
  \/ AdjustGain \/ EndPass \/ Close \/ Joined

Reading == (TestQueue \/ Wait) /\ UNCHANGED clientVars

-----------------------------------------------------------------------------
(* The dongle and its surroundings *)

Treated(c) ==
  IF c.cmd \in Sets THEN [c EXCEPT !.cmd = c.cmd]
  ELSE IF c.cmd \in Gets THEN [c EXCEPT !.val = dongle[Register(c.cmd)]]
  ELSE c

DongleAnswers ==
  /\ asked # <<>>
  /\ outbox' = Append(outbox, Treated(Head(asked)))
  /\ dongle' = IF Head(asked).cmd \in Sets
               THEN [dongle EXCEPT ![Head(asked).cmd] = Head(asked).val] ELSE dongle
  /\ asked' = Tail(asked)
  /\ UNCHANGED <<libVars, readVars, plugged, sdr, pc, stage, todo, tries, initOK, passes,
                 troubles, sure, noHoldOpen>>

Trouble == troubles < MaxTroubles /\ troubles' = troubles + 1

\* "commands occasionally hang": one gets no answer, obeyed or not.
CommandHangs ==
  /\ asked # <<>> /\ WithLimit(Head(asked).cmd)
  /\ Trouble
  /\ dongle' \in {dongle, IF Head(asked).cmd \in Sets
                          THEN [dongle EXCEPT ![Head(asked).cmd] = Head(asked).val] ELSE dongle}
  /\ asked' = Tail(asked)
  /\ UNCHANGED <<libVars, readVars, outbox, plugged, sdr, pc, stage, todo, tries, initOK,
                 passes, sure, noHoldOpen>>

\* A second passes before the answer is there.
Late ==
  /\ Trouble
  /\ ReadTimesOut
  /\ UNCHANGED <<dongle, sdr, pc, stage, todo, tries, initOK, passes, sure, noHoldOpen>>

\* ... or because it never comes: no trouble beyond the command that hung.
Unanswered ==
  /\ asked = <<>> /\ outbox = <<>> /\ reports = <<>>
  /\ ReadTimesOut
  /\ UNCHANGED clientVars

Unplug ==
  /\ plugged /\ Trouble
  /\ plugged' = FALSE
  /\ asked' = <<>> /\ outbox' = <<>>
  /\ UNCHANGED <<libVars, readVars, dongle, sdr, pc, stage, todo, tries, initOK, passes, sure, noHoldOpen>>

\* fcdpp, while the device is closed.
OtherProgram ==
  /\ noHoldOpen /\ ~handle /\ plugged /\ Trouble
  /\ dongle' \in Settings \ {dongle}
  /\ UNCHANGED <<libVars, readVars, deviceVars, sdr, pc, stage, todo, tries, initOK, passes, sure, noHoldOpen>>

Library == (ReadThread \/ SpuriousWakeup) /\ UNCHANGED clientVars

Next ==
  \/ Ncmd \/ Reading \/ Library
  \/ DongleAnswers \/ CommandHangs \/ Late \/ Unanswered \/ Unplug \/ OtherProgram

(***************************************************************************)
(* Every thread runs, and one that waits for the mutex obtains it; libusb  *)
(* reports the end of a transfer; a wait with a limit ends.  The dongle    *)
(* answers what it does not lose.  Five seconds without a report are not   *)
(* short: the read thread tests shutdown_thread between two transfers.     *)
(***************************************************************************)
ReadThreadStep(A) == A /\ UNCHANGED clientVars

Fairness ==
  /\ WF_vars(Ncmd) /\ WF_vars(Reading)
  /\ WF_vars(ReadThreadStep(Resubmit \/ TransferEnds))
  /\ SF_vars(ReadThreadStep(Received))
  /\ SF_vars(ReadThreadStep(LeaveLoop))
  /\ SF_vars(ReadThreadStep(StopThread))
  /\ WF_vars(DongleAnswers) /\ SF_vars(Unanswered)

Spec == Init /\ [][Next]_vars /\ Fairness
-----------------------------------------------------------------------------
(* Properties *)

\* A status that readback had no trouble with tells what the dongle is set to,
\* whatever was commanded, retried or lost before: no exchange leaves its answer
\* to the next one (fcdAppSetParam: "we must read after each write").
StatusTrue ==
  pc = "send" /\ sure =>
    /\ sdr.freq = dongle.freq
    /\ sdr.if = dongle.if
    /\ (sdr.mixer = 0) = (dongle.mixer = 0)
    /\ (sdr.lna = 0) = (dongle.lna = 0)

\* Once hid_close has freed the transfer and its buffer, the USB library no
\* longer has it, whether the device was closed or pulled out.
FreedIsIdle == ~handle => urb = "none"

\* A read always returns: with a report, after its limit, or because the device
\* has gone, however that is interleaved with the test before the wait.  (But a
\* first transfer that could not be submitted is never noticed.)
ReadEnds == (reader # "out" /\ urb # "unsubmitted") ~> (reader = "out")

\* hid_close always returns: the read thread's transfer ends although it may be
\* in its callback, about to be submitted again, when hid_close cancels it.
CloseEnds == (pc = "join" /\ urb # "unsubmitted") ~> ~handle
=============================================================================
