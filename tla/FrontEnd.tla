------------------------------ MODULE FrontEnd ------------------------------
(***************************************************************************)
(* The command thread of the HackRF's and the Airspy's front end (ncmd in  *)
(* hackrf.c and airspy.c).  Ten times a second, and whenever a command     *)
(* comes, it reports its state and lets the AGC adjust the three stages of *)
(* gain to what the USB callback has measured.  The callback runs in a     *)
(* thread of its own, so the AGC may run twice on one measurement, or on   *)
(* one that was taken before the gains were changed.  A gain command is    *)
(* stored, and reported, but never sent to the device.  Before the first   *)
(* transfer there is no power at all, and the change the AGC works out is  *)
(* what the processor makes of infinity.                                   *)
(*                                                                         *)
(* Gains and levels are whole dB; a level is relative to full scale, where *)
(* the converter clips.  The tuner has the form of the FUNcube's (Tuning). *)
(***************************************************************************)
EXTENDS StatusPacket

CONSTANTS
  Devices,       \* "hackrf", "airspy" or both
  Orders,        \* commands others send to the front end
  Samprate,      \* Out_samprate
  DataAddress,   \* Output_data_dest_address
  FullEvery,     \* partial statuses between two full ones (10 in the code)
  QueueSize,     \* bound: statuses on their way; the readers keep up
  Budgets        \* bounds: what one behaviour may have of each trouble

\* The faintest signal, far below any noise; 16 bits are enough for it.
Faintest == -500

ASSUME FrontEndAssumption ==
  /\ Devices \subseteq {"hackrf", "airspy"}
  /\ {Samprate, FullEvery, QueueSize} \subseteq Nat \ {0}
  /\ ((Samprate \div Base) \div Base) \div Base < 128    \* an int
  /\ Base = 256
  /\ \A b \in Budgets : "signals" \in DOMAIN b /\ b.signals \subseteq Faintest..0
  /\ DataAddress \in Seq(Byte) /\ Len(DataAddress) = 6

VARIABLES
  device,    \* which front end this is
  up,        \* its program runs
  gains,     \* sdr->status: what it believes, and reports
  hw,        \* what the device has been told
  signal,    \* the signal
  level,     \* sdr->in_power
  fresh,     \* history: in_power is of this signal and these gains
  ordered,   \* history: a gain was ordered since the program started
  table,     \* State[]
  counter,   \* until the next full status
  orders,    \* commands in the socket
  listening, \* radio runs, and has its sockets
  reports,   \* statuses on their way to it
  budget     \* what is left of the chosen budget

frontVars == <<device, up, gains, hw, signal, level, fresh, ordered, table,
               counter, orders, listening, reports>>

Stages == {"lna", "mixer", "if"}
Sum(g) == g["lna"] + g["mixer"] + g["if"]
Gains(lna, mixer, if) == [s \in Stages |-> CASE s = "lna" -> lna
                                             [] s = "mixer" -> mixer
                                             [] s = "if" -> if]
Least(a, b) == IF a < b THEN a ELSE b
Most(a, b) == IF a > b THEN a ELSE b

Spend(what) == budget[what] > 0 /\ budget' = [budget EXCEPT ![what] = @ - 1]

-----------------------------------------------------------------------------
(* The AGC: do_hackrf_agc, do_airspy_agc *)

Upper == -15
Lower == -25

\* A C integer; 16 bits here, with the outcome that the code's 32 have.
AsInt(x) == ((x + 32768) % 65536) - 32768
Largest == 32767
Smallest == -32768

NoPower == -999     \* in_power is zero until the first transfer

\* The change to make.  Without any power it is an infinite number converted
\* to an integer, which C leaves undefined: the smallest integer on a PC, the
\* largest on an ARM.  airspy.c negates the smallest, which leaves it as it is
\* and changes nothing.
Changes ==
  IF level = NoPower THEN {Largest, IF device = "hackrf" THEN Smallest ELSE 0}
  ELSE {IF level > Upper THEN Upper - level
        ELSE IF level < Lower THEN Lower - level ELSE 0}

\* C's division, towards zero, and back: the part of a change in whole steps.
Steps(change, step) ==
  step * (IF change < 0 THEN -((-change) \div step) ELSE change \div step)

\* Mutant: the second and third stage get the whole change again.
HackrfRaisedThrice(g, change) ==
  Gains(IF change >= 14 /\ g["lna"] < 14 THEN 14 ELSE g["lna"],
        Least(40, AsInt(g["mixer"] + Steps(change, 8))) % Base,
        Least(62, g["if"] + Steps(change, 2)))

HackrfRaised(g, change) ==
  LET lna   == IF change >= 14 /\ g["lna"] < 14 THEN 14 ELSE g["lna"]
      more  == IF lna = g["lna"] THEN change ELSE change - 14
      mixer == Least(40, AsInt(g["mixer"] + Steps(more, 8)))
      rest  == AsInt(more - (mixer - g["mixer"]))
  IN  Gains(lna, mixer % Base, Least(62, g["if"] + Steps(rest, 2)))

HackrfLowered(g, change) ==
  LET if    == Most(0, g["if"] + Steps(change, 2))
      more  == change - (if - g["if"])
      mixer == Most(0, g["mixer"] + Steps(more, 8))
      rest  == more - (mixer - g["mixer"])
  IN  Gains(Most(0, g["lna"] + Steps(rest, 14)), mixer, if)

AirspyRaised(g, change) ==
  LET lna   == Least(change, 15 - g["lna"])
      mixer == Least(change - lna, 15 - g["mixer"])
      if    == Least(change - lna - mixer, 15 - g["if"])
  IN  Gains(g["lna"] + lna, g["mixer"] + mixer, g["if"] + if)

\* Mutant: what the IF stage cannot take is left.
AirspyLoweredOnce(g, change) ==
  Gains(g["lna"], g["mixer"], g["if"] - Least(-change, g["if"]))

AirspyLowered(g, change) ==
  LET if    == Least(-change, g["if"])
      mixer == Least(-change - if, g["mixer"])
      lna   == Least(-change - if - mixer, g["lna"])
  IN  Gains(g["lna"] - lna, g["mixer"] - mixer, g["if"] - if)

Adjusted(g, change) ==
  IF change = 0 THEN g
  ELSE IF device = "hackrf"
       THEN IF change > 0 THEN HackrfRaised(g, change) ELSE HackrfLowered(g, change)
       ELSE IF change > 0 THEN AirspyRaised(g, change) ELSE AirspyLowered(g, change)

\* What the stages before stage s have taken of a change.
TakenBefore(s, parts, change) ==
  IF change > 0
  THEN CASE s = "lna" -> 0 [] s = "mixer" -> parts["lna"]
         [] s = "if" -> parts["lna"] + parts["mixer"]
  ELSE CASE s = "if" -> 0 [] s = "mixer" -> parts["if"]
         [] s = "lna" -> parts["if"] + parts["mixer"]

\* What the device is told.  The HackRF is told what changes, and its antenna
\* amplifier is on or off; the Airspy is told of every stage it comes to.
HackrfTold(g, new) ==
  [s \in Stages |-> IF new[s] = g[s] THEN hw[s]
                    ELSE IF s = "lna" /\ new[s] > 0 THEN 14 ELSE new[s]]

AirspyTold(g, new, change) ==
  LET parts == [s \in Stages |-> IF change > 0 THEN new[s] - g[s] ELSE g[s] - new[s]]
      Left(s) == Most(change, -change) - TakenBefore(s, parts, change)
      Told(s) == Left(s) > 0 \/ (s = "if" /\ level = NoPower)
  IN  [s \in Stages |-> IF Told(s) THEN new[s] ELSE hw[s]]

-----------------------------------------------------------------------------
(* Commands and statuses *)

\* decode_hackrf_commands: "Fill this in later".
Stored(g, order) ==
  [s \in Stages |-> IF s \in DOMAIN order THEN DecodedInt(order[s]) % Base ELSE g[s]]

Types == {"dest", "rate", "gain"} \cup Stages

\* The items of send_hackrf_status that a change or a reader here depends on.
Status(g) ==
  [dest |-> DataAddress, rate |-> EncodedInt(Samprate),
   lna |-> EncodedByte(g["lna"]), mixer |-> EncodedByte(g["mixer"]),
   if |-> EncodedByte(g["if"]), gain |-> EncodedInt(Sum(g))]

\* Mutant: the counter is not set again.
CountedOut == IF counter <= 0 THEN -1 ELSE counter - 1

Counted == IF counter <= 0 THEN FullEvery ELSE counter - 1

\* send_hackrf_status; the packet may be lost.
Report(g) ==
  /\ Len(reports) < QueueSize
  /\ UNCHANGED listening
  /\ counter' = Counted
  /\ \E status \in {Status(g)} :
       /\ table' = Remembered(table, status)
       /\ \/ /\ reports' = IF ~listening THEN <<>>
                            ELSE Append(reports, Compacted(table, status, counter = 0))
             /\ UNCHANGED budget
          \/ listening /\ Spend("losses") /\ UNCHANGED reports

\* do_hackrf_agc, after the status: the next one tells what it did.
Agc(g) ==
  /\ level = NoPower => budget.blind
  /\ \E change \in Changes : \E new \in {Adjusted(g, change)} :
    /\ gains' = new
    /\ hw' = IF device = "hackrf" THEN HackrfTold(g, new) ELSE AirspyTold(g, new, change)
    /\ fresh' = (fresh /\ hw' = hw)

\* One pass of ncmd's loop, with a command.
ObeyOrder ==
  /\ up /\ orders # <<>>
  /\ orders' = Tail(orders)
  /\ Report(Stored(gains, Head(orders)))
  /\ Agc(Stored(gains, Head(orders)))
  /\ ordered' = (ordered \/ Head(orders) # NoItems)
  /\ UNCHANGED <<device, up, signal, level>>

\* One pass after 100 ms without one, in which a transfer takes place once
\* they have begun.  Its own statuses come back to it on the same address, and
\* are ignored.
NoOrder ==
  /\ up /\ orders = <<>>
  /\ fresh \/ level = NoPower
  /\ Report(gains)
  /\ Agc(gains)
  /\ UNCHANGED <<device, up, signal, level, ordered, orders>>

\* rx_callback, at the end of a USB transfer.
Measure ==
  /\ up /\ ~fresh
  /\ level' = Least(0, signal + Sum(hw))
  /\ fresh' = TRUE
  /\ UNCHANGED <<device, up, gains, hw, signal, ordered, table, counter, orders,
                 listening, reports, budget>>

FirstGains == IF device = "hackrf" THEN Gains(14, 24, 20) ELSE Gains(15, 15, 15)

\* main: the device is set up, then the threads are started.
StartFrontEnd ==
  /\ ~up /\ up' = TRUE
  /\ gains' = FirstGains /\ hw' = FirstGains
  /\ level' = NoPower /\ fresh' = FALSE
  /\ ordered' = FALSE
  /\ table' = EmptyTable(Types) /\ counter' = 0
  /\ UNCHANGED <<device, signal, orders, listening, reports, budget>>

\* It is stopped; what is in its sockets is lost.
StopFrontEnd ==
  /\ up /\ Spend("stops")
  /\ up' = FALSE /\ orders' = <<>>
  /\ UNCHANGED <<device, gains, hw, signal, level, fresh, ordered, table,
                 counter, listening, reports>>

SignalChanges ==
  /\ Spend("changes")
  /\ signal' \in budget.signals \ {signal}
  /\ fresh' = FALSE
  /\ UNCHANGED <<device, up, gains, hw, level, ordered, table, counter, orders,
                 listening, reports>>

\* Somebody sends a command; it is lost when nobody listens.
SendOrder(order) ==
  orders' = IF up /\ Len(orders) < QueueSize THEN Append(orders, order) ELSE orders

GiveOrder ==
  /\ up /\ Spend("orders")
  /\ \E order \in Orders : SendOrder(order)
  /\ UNCHANGED <<device, up, gains, hw, signal, level, fresh, ordered, table,
                 counter, listening, reports>>

FrontEndInit ==
  /\ device \in Devices /\ budget \in Budgets /\ signal \in budget.signals
  /\ up = FALSE /\ gains = FirstGains /\ hw = FirstGains
  /\ level = NoPower /\ fresh = FALSE /\ ordered = FALSE
  /\ table = EmptyTable(Types) /\ counter = 0
  /\ orders = <<>> /\ listening = FALSE /\ reports = <<>>

FrontEndNext ==
  \/ ObeyOrder \/ NoOrder \/ Measure
  \/ StartFrontEnd \/ StopFrontEnd \/ SignalChanges \/ GiveOrder
=============================================================================
