------------------------------- MODULE Tuning -------------------------------
(***************************************************************************)
(* How `radio' and a front end agree on a frequency.  radio splits the     *)
(* radio frequency between the front end's tuner (the first local          *)
(* oscillator, LO1) and its own software oscillator (LO2), so that         *)
(* frequency = LO1 - LO2 (set_freq, set_first_LO and LO2_in_range in       *)
(* radio.c, decode_radio_commands and decode_sdr_status in radio_status.c).*)
(* The tuner is told by command packets and tells its frequency in status  *)
(* packets, which it sends ten times a second with only what has changed,  *)
(* and in full every eleventh time and in answer to a command (ncmd,       *)
(* decode_fcd_commands and send_fcd_status in funcube.c, compact_packet in *)
(* status.c).  Both kinds of packet may be lost; neither is acknowledged.  *)
(*                                                                         *)
(* All of radio's side runs in its status thread.  Frequencies are whole   *)
(* numbers; the front end's band is symmetric, as all of them report it.   *)
(***************************************************************************)
EXTENDS Integers, Sequences

CONSTANTS
  Freqs,            \* radio frequencies an operator asks for
  LO2s,             \* second LO frequencies an operator asks for
  TopFreq,          \* highest frequency a tuner is asked for
  Samprate,         \* input.samprate
  MaxIF,            \* sdr.max_IF; sdr.min_IF = -MaxIF
  Low, High,        \* the edges of the demodulator's filter
  DirectConversion, \* the front end has a hole at zero frequency
  Quantum,          \* spacing of the frequencies the tuner can produce
  FullEvery,        \* delta status packets between two full ones
  FirstLO1,         \* the tuner's frequency when radio starts
  QueueSize,        \* bound: packets a socket's queue holds; more are lost
  MaxCommands,      \* bound: commands operators give
  MaxOthers         \* bound: times another program retunes the front end

Tuner == 0..TopFreq

\* What the synthesizer really produces, as the front end computes it.
Actual(f) == f - (f % Quantum)

Abs(x) == IF x < 0 THEN -x ELSE x
Most(x, y) == IF x > y THEN x ELSE y
Least(x, y) == IF x < y THEN x ELSE y

ASSUME TuningAssumption ==
  /\ {TopFreq, Samprate, Quantum, FullEvery, QueueSize} \subseteq Nat \ {0}
  /\ {MaxIF, MaxCommands, MaxOthers} \subseteq Nat
  /\ LO2s \subseteq Int
  /\ Freqs \subseteq 1..(TopFreq - Samprate)
  /\ FirstLO1 \in Tuner /\ Actual(FirstLO1) = FirstLO1
  /\ 2 * MaxIF <= Samprate
  /\ Low \in Int /\ High \in Int /\ Low <= High
  /\ Samprate \div 4 + Most(Abs(Low), Abs(High)) + Quantum <= MaxIF
  /\ DirectConversion \in BOOLEAN

VARIABLES
  freq,      \* demod->tune.freq
  lo2,       \* demod->tune.second_LO
  known,     \* demod->sdr.status.frequency: LO1 as the last status told it
  ctl,       \* commands on their way to the front end, oldest first
  lo1,       \* the tuner's frequency
  told,      \* the front end's State[RADIO_FREQUENCY]: what it last sent
  counter,   \* its count down to a full status
  status,    \* frequencies in status packets on their way to radio
  commands,  \* commands given so far
  others,    \* times another program has retuned
  astray,    \* history: LO2 was set for an LO1 that will not come
  choice     \* history: set_freq itself made the last choice of LO2, and
             \* "informed": what it knew of LO1 was up to date, or "stale":
             \* it was not; "none": the LO2 in use is not its choice

radioVars == <<freq, lo2, known>>
frontVars == <<lo1, told, counter>>
vars == <<radioVars, frontVars, ctl, status, commands, others, astray, choice>>

TypeOK ==
  /\ freq \in Tuner /\ lo2 \in Int /\ known \in Tuner
  /\ ctl \in Seq(Tuner) /\ status \in Seq(Tuner)
  /\ Len(ctl) <= QueueSize /\ Len(status) <= QueueSize
  /\ lo1 \in Tuner /\ told \in Tuner /\ counter \in 0..FullEvery
  /\ commands \in 0..MaxCommands /\ others \in 0..MaxOthers
  /\ astray \in BOOLEAN /\ choice \in {"none", "informed", "stale"}

\* The first status has arrived and set LO2 for the default frequency.
Init ==
  /\ freq \in Freqs
  /\ known = FirstLO1 /\ lo1 = FirstLO1 /\ told = FirstLO1
  /\ lo2 = FirstLO1 - freq
  /\ ctl = <<>> /\ status = <<>>
  /\ counter = FullEvery
  /\ commands = 0 /\ others = 0
  /\ astray = FALSE /\ choice = "none"

-----------------------------------------------------------------------------
(* radio: LO2_in_range, with and without avoid_alias *)

WithinNyquist(f) == 2 * Abs(f) <= Samprate

\* Mutant: the carrier is tested, not the passband.
CarrierInBand(f) == Abs(f) <= MaxIF

ClearOfAliases(f) == f >= -MaxIF + Most(0, High) /\ f <= MaxIF + Least(0, Low)

\* The LO2 set_freq picks when it is given none it can use.
ChosenLO2(f) ==
  LET quarter == Samprate \div 4
  IN  IF ClearOfAliases(known - f) THEN known - f
      ELSE IF ~DirectConversion THEN 0
      ELSE IF Abs(f + quarter - known) > Abs(f - quarter - known) THEN -quarter
      ELSE quarter

\* send() on the command socket: the packet is queued, or lost.
Send(queue, packet, arrives) ==
  IF arrives /\ Len(queue) < QueueSize THEN Append(queue, packet) ELSE queue

\* set_first_LO: nothing is sent when LO1 is believed to be right already, or
\* is not a frequency.
NeedsCommand(f) == f # known /\ f > 0

Command(f, arrives) ==
  ctl' = IF NeedsCommand(f) THEN Send(ctl, f, arrives) ELSE ctl

\* set_freq, from the choice of LO2 on.  LO2 is set at once, for an LO1 that
\* is still to come.
Retune(f, newLO2, arrives) ==
  LET newLO1 == f + newLO2
  IN  /\ newLO1 <= TopFreq
      /\ freq' = f
      /\ Command(newLO1, arrives)
      /\ lo2' = IF WithinNyquist(newLO2) THEN newLO2 ELSE lo2
      /\ astray' = (newLO1 # known /\ ctl' = ctl)

UserCommand ==
  /\ commands < MaxCommands
  /\ commands' = commands + 1
  /\ UNCHANGED <<known, frontVars, status, others>>

\* radio knows LO1, and nothing under way will change that.
UpToDate == ctl = <<>> /\ known = lo1 /\ \A i \in DOMAIN status : status[i] = lo1

\* RADIO_FREQUENCY alone: set_freq(f, NAN).
SetFreq(f) ==
  /\ UserCommand
  /\ \E arrives \in BOOLEAN : Retune(f, ChosenLO2(f), arrives)
  /\ choice' = IF UpToDate THEN "informed" ELSE "stale"

\* RADIO_FREQUENCY with SECOND_LO_FREQUENCY.
SetFreqAndLO2(f, l) ==
  /\ UserCommand
  /\ \E arrives \in BOOLEAN :
       Retune(f, IF WithinNyquist(l) THEN l ELSE ChosenLO2(f), arrives)
  /\ choice' = "none"

\* SECOND_LO_FREQUENCY alone: "Tune around with fixed LO1".
TuneAround(l) ==
  /\ UserCommand
  /\ WithinNyquist(l)
  /\ LET f == freq - (l - lo2)
     IN  /\ f \in 1..TopFreq
         /\ \E arrives \in BOOLEAN : Retune(f, l, arrives)
  /\ choice' = "none"

\* LO2 was set for another LO1 than the one radio knows.
Waiting == Abs(freq + lo2 - known) >= Quantum

\* FIRST_LO_FREQUENCY alone.
SetFirstLO(f) ==
  /\ UserCommand
  /\ \E arrives \in BOOLEAN : Command(f, arrives)
  /\ astray' = (astray \/ Waiting)
  /\ choice' = "none"
  /\ UNCHANGED <<freq, lo2>>

\* Mutant: the frequency is noted but LO2 is not recalculated.
NoteStatus ==
  /\ status # <<>>
  /\ status' = Tail(status)
  /\ known' = Head(status)
  /\ UNCHANGED <<freq, lo2, frontVars, ctl, commands, others, astray, choice>>

\* decode_sdr_status: LO2 is recalculated when the frequency has changed.
ReceiveStatus ==
  /\ status # <<>>
  /\ status' = Tail(status)
  /\ LET nfreq == Head(status)
     IN  IF nfreq = known
         THEN UNCHANGED <<known, lo2, astray>>
         ELSE /\ known' = nfreq
              /\ lo2' = nfreq - freq
              /\ astray' = FALSE
  /\ UNCHANGED <<freq, frontVars, ctl, commands, others, choice>>

-----------------------------------------------------------------------------
(* The front end's command thread *)

\* Mutant: only what has changed is ever sent.
SendChanges(full, arrives) ==
  /\ told' = lo1'
  /\ status' = IF told # lo1' THEN Send(status, lo1', arrives) ELSE status
  /\ counter' = IF full THEN FullEvery ELSE counter - 1

\* compact_packet on the frequency: it is in a full packet, or if it changed.
SendStatus(full, arrives) ==
  /\ told' = lo1'
  /\ status' = IF full \/ told # lo1' THEN Send(status, lo1', arrives) ELSE status
  /\ counter' = IF full THEN FullEvery ELSE counter - 1

\* A command arrives: obey it and answer with full status.
ObeyCommand ==
  /\ ctl # <<>>
  /\ ctl' = Tail(ctl)
  /\ lo1' = Actual(Head(ctl))
  /\ \E arrives \in BOOLEAN : SendStatus(TRUE, arrives)
  /\ UNCHANGED <<radioVars, commands, others, astray, choice>>

\* 100 ms pass without a command.
Report(arrives) ==
  /\ ctl = <<>>
  /\ UNCHANGED lo1
  /\ SendStatus(counter = 0, arrives)
  /\ UNCHANGED <<ctl, radioVars, commands, others, astray, choice>>

\* Another program sets the tuner ("just in case it was set by another
\* program", readback in funcube.c).
OtherProgram(f) ==
  /\ others < MaxOthers
  /\ others' = others + 1
  /\ lo1' = Actual(f)
  /\ astray' = (astray \/ Waiting)
  /\ choice' = "none"
  /\ UNCHANGED <<radioVars, told, counter, ctl, status, commands>>

-----------------------------------------------------------------------------
Next ==
  \/ \E f \in Freqs : SetFreq(f)
  \/ \E f \in Freqs, l \in LO2s : SetFreqAndLO2(f, l)
  \/ \E l \in LO2s : TuneAround(l)
  \/ \E f \in Freqs : SetFirstLO(f)
  \/ \E f \in Freqs : OtherProgram(f)
  \/ ReceiveStatus
  \/ ObeyCommand
  \/ \E arrives \in BOOLEAN : Report(arrives)

(***************************************************************************)
(* Both threads run, and the network does not lose every full status.      *)
(***************************************************************************)
Fairness ==
  /\ WF_vars(ReceiveStatus)
  /\ WF_vars(ObeyCommand)
  /\ WF_vars(\E arrives \in BOOLEAN : Report(arrives))
  /\ SF_vars(Report(TRUE) /\ counter = 0)

Spec == Init /\ [][Next]_vars /\ Fairness
-----------------------------------------------------------------------------
(* Properties *)

InBand == -lo2 + Low >= -MaxIF /\ -lo2 + High <= MaxIF

\* When no command is under way and radio knows the tuner's frequency, the
\* receiver is on the frequency the operator asked for, to within one step of
\* the tuner, whatever statuses were lost or late (radio.c:254-292,
\* radio_status.c:448-453).  The exceptions are those of `astray'.
SettledMeansTuned ==
  ctl = <<>> /\ known = lo1 /\ ~astray => Abs(lo1 - lo2 - freq) < Quantum

\* Whenever set_freq chose LO2 itself, and knew the tuner's frequency when it did,
\* the whole passband, which lies from Low to High around -LO2 in the I/Q stream,
\* is inside the front end's band (LO2_in_range, radio.c:325-336): at once, and
\* still when the tuner has answered with a frequency of its own spacing.
ChosenInBand == choice = "informed" => InBand

\* radio's idea of the tuner's frequency becomes right and stays right, once
\* operators and other programs leave it alone (their commands are bounded):
\* the periodic full status makes up for lost ones (funcube.c:470-482).
Settles == <>[](ctl = <<>> /\ known = lo1)

=============================================================================
