---------------------------- MODULE RemoteControl ----------------------------
(***************************************************************************)
(* Any number of `control' programs and one `radio'.  A control keeps a    *)
(* copy of the radio's parameters, lets its operator change the copy, and  *)
(* sends what a key has changed (control.c).  The radio obeys and answers  *)
(* with a complete status; otherwise it reports what has changed since the *)
(* last report, and everything now and then (radio_status.c, status.c).    *)
(* Both go by multicast, keep their order and may be lost.                 *)
(*                                                                         *)
(* The parameters are one of each kind: the frequency stands for all that  *)
(* the arrow keys adjust, the tuner's frequency for what changes by        *)
(* itself, and the options for those that are reported in some modes only. *)
(* The modes have no frequency shift.                                      *)
(***************************************************************************)
EXTENDS Integers, Sequences, Functions

CONSTANTS
  Controls,     \* running control programs
  Modes,        \* names in the mode table
  Presets,      \* what the mode table says of each
  FirstMode,    \* the mode that radio is started with
  NaN,          \* a floating-point parameter that is not known
  Tuners,       \* frequencies of the front end
  CompleteEvery, \* 10: reports between two complete ones
  Room,         \* bound: status packets on the way to a control
  MaxKeys,      \* bound: keys pressed
  MaxRetunes,   \* bound: changes of the front end's frequency
  MaxEvents     \* bound: both together

Option  == {"pll", "square", "env"}
Setting == Option \cup {"demod"}
Param   == Setting \cup {"freq", "tuner"}

\* Parameters with the new values of some of them.
Over(new, old) ==
  [p \in DOMAIN new \cup DOMAIN old |-> IF p \in DOMAIN new THEN new[p] ELSE old[p]]

Flags == [demod: {"FM", "LINEAR"}, pll: BOOLEAN, square: BOOLEAN, env: BOOLEAN]

\* readmodes: "Square implies PLL".
ASSUME RemoteAssumption ==
  /\ Presets \in [Modes -> Flags] /\ FirstMode \in Modes
  /\ \A m \in Modes : Presets[m].square => Presets[m].pll
  /\ {CompleteEvery, Room} \subseteq Nat \ {0} /\ {MaxKeys, MaxRetunes, MaxEvents} \subseteq Nat
  /\ Tuners # {} /\ NaN \notin Nat \cup Tuners

VARIABLES
  radio,      \* the parameters of radio (struct demod)
  cache,      \* State[]: what was last reported
  full_status_counter, \* reports until the next complete one
  view,       \* the parameters as each control has them (struct control)
  toRadio,    \* commands on the way
  statuses,   \* status packets on the way to each control
  keys,       \* keys pressed so far
  retunes,    \* changes of the front end's frequency so far
  expected    \* history: the frequency that the keys pressed make; NaN once
              \* something was lost or a control worked from an old frequency

paramVars   == <<radio, cache, full_status_counter>>
netVars     == <<toRadio, statuses>>
bounds      == <<keys, retunes>>
controlVars == <<paramVars, view, netVars, bounds, expected>>

\* A command has the parameters that were changed and, for the properties, who
\* sent it.

ControlTypes ==
  /\ \A r \in {radio} \cup Range(view) :
       /\ DOMAIN r = Param
       /\ Restrict(r, Setting) \in Flags
       /\ r.freq \in 0..MaxKeys \cup {NaN} /\ r.tuner \in Tuners \cup {NaN}
  /\ NaN \notin {radio.freq, radio.tuner}
  /\ DOMAIN cache \subseteq Param
  /\ full_status_counter \in 0..CompleteEvery
  /\ \A i \in DOMAIN toRadio :
       /\ DOMAIN toRadio[i].params \subseteq Param \ {"tuner"}
       /\ NaN \notin Range(toRadio[i].params)
  /\ \A c \in Controls : /\ Len(statuses[c]) <= Room
                         /\ \A i \in DOMAIN statuses[c] :
                              DOMAIN statuses[c][i].params \subseteq Param
  /\ keys \in 0..MaxKeys /\ retunes \in 0..MaxRetunes
  /\ expected \in 0..MaxKeys \cup {NaN}

\* The radio is started with a mode; a control knows nothing: floating-point
\* values are NAN, the rest is zero.
ControlInit ==
  /\ radio = Over(Presets[FirstMode], [freq |-> 0, tuner |-> CHOOSE t \in Tuners : TRUE])
  /\ cache = <<>> /\ full_status_counter = 0
  /\ view = [c \in Controls |->
               [demod |-> "LINEAR", pll |-> FALSE, square |-> FALSE,
                env |-> FALSE, freq |-> NaN, tuner |-> NaN]]
  /\ toRadio = <<>> /\ statuses = [c \in Controls |-> <<>>]
  /\ keys = 0 /\ retunes = 0
  /\ expected = 0

-----------------------------------------------------------------------------
(* radio: send_status, send_radio_status, compact_packet *)

\* What a status speaks of: some options only in the mode they belong to, and
\* these two only while the PLL is on.
Reported(r) ==
  {"demod", "freq", "tuner"}
    \cup (IF r.demod = "LINEAR" THEN {"pll"} ELSE {})
    \cup (IF r.demod = "LINEAR" /\ r.pll THEN {"square", "env"} ELSE {})

\* What a control learns of it: decode_radio_status has no case for ENVELOPE.
Shown(r) == Reported(r) \ {"env"}

\* Mutant: a complete report is like any other.
NewsOnly(r, full) == {p \in Reported(r) : p \notin DOMAIN cache \/ cache[p] # r[p]}

\* Of what is reported, what the packet carries.
News(r, full) == {p \in Reported(r) : full \/ p \notin DOMAIN cache \/ cache[p] # r[p]}

\* Reports r to those that get the packet.  count: full_status_counter, which a
\* command has just reset.
SendRadioStatus(r, count) ==
  LET full    == count = 0
      carried == Restrict(r, News(r, full))
  IN  /\ \A c \in Controls : Len(statuses[c]) < Room
      /\ cache' = Over(carried, cache)
      /\ full_status_counter' = IF full THEN CompleteEvery ELSE count - 1
      /\ \E kept \in SUBSET Controls :
           /\ statuses' = [c \in Controls |->
                IF c \in kept
                THEN Append(statuses[c], [params |-> carried, current |->
                              toRadio' = <<>> \/ "freq" \notin DOMAIN carried])
                ELSE statuses[c]]
           /\ expected' = IF kept = Controls THEN expected ELSE NaN

\* Mutant: the answer is put together before the command is obeyed.
ObeyLate ==
  /\ toRadio # <<>>
  /\ radio' = Over(Head(toRadio).params, radio)
  /\ toRadio' = Tail(toRadio)
  /\ SendRadioStatus(radio, 0)
  /\ UNCHANGED <<view, bounds>>

\* decode_radio_commands; "Send complete status in response".
Obey ==
  /\ toRadio # <<>>
  /\ radio' = Over(Head(toRadio).params, radio)
  /\ toRadio' = Tail(toRadio)
  /\ SendRadioStatus(radio', 0)
  /\ UNCHANGED <<view, bounds>>

\* A status of the front end with another frequency, and decode_sdr_status; one
\* with nothing new acts like the timeout.
SdrStatus ==
  /\ retunes < MaxRetunes /\ keys + retunes < MaxEvents
  /\ retunes' = retunes + 1
  /\ \E t \in Tuners \ {radio.tuner} : radio' = [radio EXCEPT !.tuner = t]
  /\ UNCHANGED <<view, toRadio, keys>>
  /\ SendRadioStatus(radio', full_status_counter)

\* The timeout of send_status.
Timeout ==
  /\ UNCHANGED <<radio, view, toRadio, bounds>>
  /\ SendRadioStatus(radio, full_status_counter)

-----------------------------------------------------------------------------
(* control *)

\* decode_radio_status: the copy is overwritten, whatever the operator has done
\* to it since the radio sent this.
Receive(c) ==
  /\ statuses[c] # <<>>
  /\ LET s == Head(statuses[c])
     IN  /\ view' = [view EXCEPT ![c] = Over(Restrict(s.params, DOMAIN s.params \ {"env"}), @)]
         /\ expected' = IF s.current THEN expected ELSE NaN
  /\ statuses' = [statuses EXCEPT ![c] = Tail(@)]
  /\ UNCHANGED <<paramVars, toRadio, bounds>>

\* "OK, what changed?": NAN is unequal to itself, but never encoded.
Changed(old, new) == {p \in Param : new[p] # old[p] /\ new[p] # NaN}

\* A key has changed the copy to v; the command, tag and all, is sent.  What is
\* on the way to the controls is older than it.
Press(c, v, makes) ==
  /\ keys < MaxKeys /\ keys + retunes < MaxEvents
  /\ keys' = keys + 1
  /\ view' = [view EXCEPT ![c] = v]
  /\ \/ /\ toRadio' = Append(toRadio,
             [params |-> Restrict(v, Changed(view[c], v)), from |-> c])
        /\ statuses' = [d \in Controls |->
             [i \in DOMAIN statuses[d] |->
                [statuses[d][i] EXCEPT !.current = "freq" \notin DOMAIN statuses[d][i].params]]]
        /\ expected' = makes
     \/ expected' = NaN /\ UNCHANGED netVars
  /\ UNCHANGED <<paramVars, retunes>>

\* Pressing an arrow key is safe when the copy is not about to change.
Aware(c) == statuses[c] = <<>> /\ \A i \in DOMAIN toRadio : toRadio[i].from = c

\* adjust_item: one step up.
Adjust(c) ==
  LET step(f) == IF NaN \in {f, view[c].freq} THEN f ELSE f + 1
  IN  Press(c, [view[c] EXCEPT !.freq = step(@)],
            IF Aware(c) THEN step(expected) ELSE NaN)

\* preset_mode.
SelectMode(c) == \E m \in Modes : Press(c, Over(Presets[m], view[c]), expected)

\* What the `o' key and, in linear mode, the mouse make of the options of a copy;
\* a key that changes nothing acts like selecting the same mode again.
Toggled(v) ==
  ( {[v EXCEPT !.pll = TRUE], [v EXCEPT !.pll = FALSE, !.square = FALSE],
     [v EXCEPT !.pll = TRUE, !.square = TRUE], [v EXCEPT !.square = FALSE]}
      \cup IF v.demod = "LINEAR" THEN {[v EXCEPT !.pll = ~@], [v EXCEPT !.env = ~@]} ELSE {} )
  \ {v}

ToggleOption(c) == \E v \in Toggled(view[c]) : Press(c, v, expected)

-----------------------------------------------------------------------------
Radio == Obey \/ SdrStatus \/ Timeout

Operator(c) == Adjust(c) \/ SelectMode(c) \/ ToggleOption(c)

ControlNext == Radio \/ \E c \in Controls : Receive(c) \/ Operator(c)

\* A complete status that control c gets.
CompleteStatus(c) ==
  /\ full_status_counter = 0
  /\ Timeout
  /\ Len(statuses'[c]) > Len(statuses[c])

\* radio's status thread and the controls' main loops go on, and a network that
\* loses every complete status to a control is not one the protocol can work on.
ControlFairness ==
  /\ WF_controlVars(Obey) /\ WF_controlVars(Timeout)
  /\ \A c \in Controls : WF_controlVars(Receive(c)) /\ SF_controlVars(CompleteStatus(c))

ControlSpec == ControlInit /\ [][ControlNext]_controlVars /\ ControlFairness
-----------------------------------------------------------------------------
(* Properties *)

Agrees(c) == \A p \in Shown(radio) : view[c][p] = radio[p]

\* The frequency moves by one for every press of the arrow key (help.txt:10)
\* unless something was lost or a control worked from an old frequency: pressed
\* the key, or had its copy overwritten, while a command was still on the way.
StepsAddUp == toRadio = <<>> => radio.freq = expected \/ expected = NaN

\* Once the operators let go, every control comes to show what the radio does,
\* as far as it is reported, whatever was lost before.
ViewsSettle == <>[](\A c \in Controls : Agrees(c))
=============================================================================
