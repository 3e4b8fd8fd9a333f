---------------------------- MODULE FuncubeProofs ----------------------------
(***************************************************************************)
(* Proofs about the FUNcube dongle's control, for any command packets,     *)
(* tries, queue limit and number of troubles: what hid_close frees the USB *)
(* library no longer has, and a status that readback had no trouble with   *)
(* tells what the dongle is set to.                                        *)
(*                                                                         *)
(* The second rests on the order in which commands and answers travel.     *)
(* Whoever gives up on an answer leaves it on its way; but only the last   *)
(* on the way can be one still waited for, so an exchange begun with none  *)
(* given up on has the way for itself, and its answer is the next to come. *)
(***************************************************************************)
EXTENDS FuncubeControl, SequenceTheorems, TLAPS

-----------------------------------------------------------------------------
(* The library: who has the transfer, and why the device is shut down *)

\* The transfer is with the USB library only while the device is open and the
\* read thread has not seen its end.
TransferHeld ==
  /\ ~handle => urb = "none" /\ thread = "none"
  /\ thread = "none" => ~handle
  /\ thread = "stopped" => cancelled
  /\ cancelled => urb = "none"

\* An open device that nobody is closing is shut down only when it has gone, and
\* then it has no command nor answer.
ShutMeansGone ==
  /\ urb = "cancelled" => shutdown
  /\ shutdown /\ handle /\ pc # "join" => ~plugged
  /\ ~plugged => asked = <<>> /\ outbox = <<>>

-----------------------------------------------------------------------------
(* The exchanges *)

\* Where the thread is, and what it has at hand there.
Place ==
  /\ pc \in {"next", "reading", "send", "agc", "close", "join"} => handle
  /\ reader # "out" => pc = "reading"
  /\ pc = "reading" => todo # <<>>
  /\ pc # "reading" => tries < MaxTries
  /\ pc = "reading" /\ reader = "out" => answer \in Exchange \cup {Failed, TimedOut}

AllLate(s) == \A i \in DOMAIN s : s[i].late
FrontLate(s) == \A i \in 1..Len(s) - 1 : s[i].late

\* Of the commands and answers on their way only the very last may be one that
\* is still waited for.
OnlyLastAwaited ==
  /\ FrontLate(asked) /\ FrontLate(outbox) /\ FrontLate(reports)
  /\ asked # <<>> => AllLate(outbox) /\ AllLate(reports)
  /\ outbox # <<>> => AllLate(reports)

\* ... and none is, once the read has returned.
NoneAwaited == reader = "out" => AllLate(asked) /\ AllLate(outbox) /\ AllLate(reports)

-----------------------------------------------------------------------------
(* The readback *)

Nothing == asked = <<>> /\ outbox = <<>> /\ reports = <<>>

\* Settings first, and the four readings last.
ReadbackLast(s) ==
  \A i \in DOMAIN s : IF Len(s) - i < 4 THEN s[i] = Readback[4 - (Len(s) - i)]
                      ELSE s[i].cmd \in Sets

\* In the loop, what is left to do ends with the four readings.
EndsWithReadback ==
  /\ stage = "loop" => ReadbackLast(todo) /\ (pc = "open" => Len(todo) >= 4)
  /\ pc = "send" => stage = "loop" /\ todo = <<>>

\* Reading back, without trouble so far.
InReadback == stage = "loop" /\ sure /\ Len(todo) <= 4

\* Of a reading only the command or the answer is on its way, or nothing, and the
\* answer tells the register.
OneReading(cmd) ==
  /\ \/ Nothing
     \/ \E x \in Exchange : /\ x.cmd = cmd
                            /\ asked = <<x>> /\ outbox = <<>> /\ reports = <<>>
     \/ \E x \in Exchange : /\ x.val = dongle[Register(cmd)]
                            /\ asked = <<>> /\ outbox = <<x>> /\ reports = <<>>
     \/ \E x \in Exchange : /\ x.val = dongle[Register(cmd)]
                            /\ asked = <<>> /\ outbox = <<>> /\ reports = <<x>>
  /\ reader = "out" /\ answer \notin {Failed, TimedOut} =>
       Nothing /\ answer.val = dongle[Register(cmd)]

\* What has been read back is what the dongle is set to.
ReadSoFar ==
  /\ Len(todo) <= 3 => (sdr.lna = 0) = (dongle.lna = 0)
  /\ Len(todo) <= 2 => (sdr.mixer = 0) = (dongle.mixer = 0)
  /\ Len(todo) <= 1 => sdr.if = dongle.if
  /\ Len(todo) = 0 => sdr.freq = dongle.freq

ReadbackOK ==
  InReadback =>
    /\ pc = "reading" => OneReading(Head(todo).cmd)
    /\ pc \in {"next", "send"} /\ Len(todo) <= 3 => Nothing
    /\ pc \in {"next", "reading", "send"} => ReadSoFar

-----------------------------------------------------------------------------
(* Sequences *)

\* A queue is empty just when its length is zero.
LEMMA EmptyQueue ==
  ASSUME NEW S, NEW s \in Seq(S)
  PROVE  Len(s) \in Nat /\ (s = <<>> <=> Len(s) = 0) /\ DOMAIN s = 1..Len(s)
  <1>1. \A q \in Seq(S) : q # <<>> => Len(q) \in Nat \ {0}
    BY EmptySeq
  <1>2. Len(<<>>) = 0
    BY EmptySeq
  <1> QED
    BY <1>1, <1>2

\* Giving up on answers changes nothing but that they are late.
LEMMA GivenUp ==
  ASSUME NEW s \in Seq(Exchange)
  PROVE  /\ GiveUp(s) \in Seq(Exchange) /\ Len(GiveUp(s)) = Len(s)
         /\ AllLate(GiveUp(s)) /\ DOMAIN GiveUp(s) = DOMAIN s
         /\ \A i \in DOMAIN s : GiveUp(s)[i].cmd = s[i].cmd /\ GiveUp(s)[i].val = s[i].val
         /\ (GiveUp(s) = <<>>) = (s = <<>>)
  <1>1. Len(s) \in Nat /\ DOMAIN s = 1..Len(s) /\ \A i \in DOMAIN s : s[i] \in Exchange
    OBVIOUS
  <1>2. \A x \in Exchange : /\ [x EXCEPT !.late = TRUE] \in Exchange
                          /\ [x EXCEPT !.late = TRUE].late = TRUE
                          /\ [x EXCEPT !.late = TRUE].cmd = x.cmd
                          /\ [x EXCEPT !.late = TRUE].val = x.val
    BY DEF Exchange
  <1>3. GiveUp(s) \in [1..Len(s) -> Exchange]
    BY <1>1, <1>2 DEF GiveUp
  <1>4. GiveUp(s) \in Seq(Exchange) /\ Len(GiveUp(s)) = Len(s)
    BY <1>1, <1>3, SeqDef, LenProperties
  <1>5. \A i \in DOMAIN s : GiveUp(s)[i] = [s[i] EXCEPT !.late = TRUE]
    BY DEF GiveUp
  <1>8. DOMAIN GiveUp(s) = DOMAIN s
    BY <1>1, <1>3
  <1>9. \A i \in DOMAIN s : GiveUp(s)[i].late = TRUE
    BY <1>1, <1>2, <1>5
  <1>6. AllLate(GiveUp(s)) /\ DOMAIN GiveUp(s) = DOMAIN s
    BY <1>8, <1>9 DEF AllLate
  <1>7. (GiveUp(s) = <<>>) = (s = <<>>)
    BY <1>1, <1>4, EmptyQueue
  <1> QED
    BY <1>1, <1>2, <1>4, <1>5, <1>6, <1>7

-----------------------------------------------------------------------------
(* The library's state *)

\* The steps that change who has the transfer or the thread, by name.
LEMMA LibraryFrame ==
  ASSUME [Next]_vars
  PROVE  \/ Open \/ Close \/ Joined
         \/ UNCHANGED pc /\ (NothingReceived \/ Resubmit \/ TransferEnds \/ LeaveLoop \/ StopThread)
         \/ UNCHANGED <<pc, plugged, handle, thread, shutdown, cancelled>>
              /\ Received
         \/ UNCHANGED <<handle, thread, urb, shutdown, cancelled>>
  <1>1. CASE Ncmd
    BY <1>1 DEF Ncmd, WriteCommand, Retry, FinishExchange, Receive, OwnStatus, OpenFails,
       EndInit, EndReadback, SendStatus, AdjustGain, EndPass, libVars
  <1>2. CASE Reading
    BY <1>2 DEF Reading, TestQueue, Wait, libVars
  <1>3. CASE Library
    BY <1>3 DEF Library, ReadThread, SpuriousWakeup, Received, clientVars, libVars
  <1>4. CASE DongleAnswers \/ CommandHangs \/ Late \/ Unanswered \/ Unplug \/ OtherProgram
    BY <1>4 DEF DongleAnswers, CommandHangs, Late, Unanswered, Unplug, OtherProgram,
       ReadTimesOut, libVars
  <1>5. CASE UNCHANGED vars
    BY <1>5 DEF vars, libVars
  <1> QED
    BY <1>1, <1>2, <1>3, <1>4, <1>5 DEF Next

\* The transfer stays where it may be.
LEMMA TransferHeldStep ==
  ASSUME TransferHeld, [Next]_vars
  PROVE  TransferHeld'
  <1>1. CASE Open
    BY <1>1 DEF Open, OpenDevice, TransferHeld
  <1>2. CASE Close
    BY <1>2 DEF Close, BeginClose, AfterCancel, TransferHeld
  <1>3. CASE Joined
    BY <1>3 DEF Joined, FinishClose, TransferHeld
  <1>4. CASE NothingReceived \/ Resubmit \/ TransferEnds
    BY <1>4 DEF NothingReceived, Resubmit, TransferEnds, TransferHeld
  <1>5. CASE LeaveLoop \/ StopThread
    BY <1>5 DEF LeaveLoop, StopThread, AfterCancel, TransferHeld
  <1>6. CASE UNCHANGED <<handle, thread, shutdown, cancelled>> /\ Received
    BY <1>6 DEF Received, TransferHeld
  <1>7. CASE UNCHANGED <<handle, thread, urb, shutdown, cancelled>>
    BY <1>7 DEF TransferHeld
  <1> QED
    BY <1>1, <1>2, <1>3, <1>4, <1>5, <1>6, <1>7, LibraryFrame

\* Once hid_close has freed the transfer, the USB library no longer has it,
\* however the cancellation, the read thread and the device's loss interleave.
THEOREM FreedIsIdleThm == Spec => []FreedIsIdle
  <1>1. Init => TransferHeld
    BY DEF Init, HidInit, TransferHeld
  <1>2. TransferHeld => FreedIsIdle
    BY DEF TransferHeld, FreedIsIdle
  <1> QED
    BY <1>1, <1>2, TransferHeldStep, PTL DEF Spec

-----------------------------------------------------------------------------
(* Types *)

\* The thread's place, and what the library's steps have to do with it.
LEMMA PlaceFrame ==
  ASSUME Reading \/ Library \/ Late \/ Unanswered
  PROVE  UNCHANGED <<pc, stage, todo, tries, dongle, sdr, sure, handle, plugged, passes, initOK, noHoldOpen>>
  BY DEF Reading, Library, Late, Unanswered, TestQueue, Wait, ReadThread, Received, NothingReceived,
     Resubmit, TransferEnds, LeaveLoop, StopThread, SpuriousWakeup, ReadTimesOut, clientVars, libVars,
     deviceVars

\* What is sent, stored and answered has the type of what is asked.
LEMMA ExchangeTypes ==
  ASSUME TypeOK, NEW c \in Exchange
  PROVE  /\ OnWire(c) \in Exchange /\ Stored(c) \in [Sets -> Nat]
         /\ OnWire(c).cmd = c.cmd /\ OnWire(c).late = c.late
         /\ Treated(c) \in Exchange
         /\ Treated(c).cmd = c.cmd /\ Treated(c).late = c.late
         /\ c.cmd \in Gets => Treated(c).val = dongle[Register(c.cmd)]
         /\ c.cmd \in Sets => [dongle EXCEPT ![c.cmd] = c.val] \in [Sets -> Nat]
         /\ c.cmd \notin Sets => Stored(c) = sdr
  <1>1. /\ c.cmd \in Sets \cup Gets \cup {"mode", "caps"} /\ c.val \in Nat /\ c.late \in BOOLEAN
        /\ sdr \in [Sets -> Nat] /\ dongle \in [Sets -> Nat]
    BY DEF Exchange, TypeOK
  <1>2. /\ OnWire(c) \in Exchange /\ OnWire(c).cmd = c.cmd /\ OnWire(c).late = c.late
    BY DEF Exchange, OnWire
  <1>3. Stored(c) \in [Sets -> Nat]
    <2>1. CASE c.cmd = "freq"
      <3> DEFINE g == LnaGain(sdr.lna, c.val)
                 f == [sdr EXCEPT !.freq = c.val]
      <3>1. g \in Nat
        BY DEF LnaGain
      <3>2. f \in [Sets -> Nat] /\ f.lna = sdr.lna
        BY <1>1 DEF Sets
      <3>3. Stored(c) = [f EXCEPT !.lna = g]
        BY <2>1, <3>2 DEF Stored
      <3> HIDE DEF f, g
      <3> QED
        BY <3>1, <3>2, <3>3 DEF Sets
    <2>2. CASE c.cmd \in Sets \ {"freq"}
      BY <1>1, <2>2 DEF Stored
    <2>3. CASE c.cmd \notin Sets
      BY <1>1, <2>3 DEF Stored, Sets
    <2> QED
      BY <2>1, <2>2, <2>3
  <1>4. c.cmd \notin Sets => Stored(c) = sdr
    BY DEF Stored, Sets
  <1>5. /\ Treated(c) \in Exchange
        /\ Treated(c).cmd = c.cmd /\ Treated(c).late = c.late
        /\ c.cmd \in Gets => Treated(c).val = dongle[Register(c.cmd)]
    <2>1. CASE c.cmd \in Gets
      <3>1. Register(c.cmd) \in Sets /\ c.cmd \notin Sets
        BY <2>1 DEF Register, Sets, Gets
      <3>2. dongle[Register(c.cmd)] \in Nat
        BY <1>1, <3>1
      <3>3. Treated(c) = [c EXCEPT !.val = dongle[Register(c.cmd)]]
        BY <2>1, <3>1 DEF Treated
      <3> QED
        BY <3>2, <3>3 DEF Exchange
    <2>2. CASE c.cmd \notin Gets
      BY <2>2 DEF Treated, Exchange
    <2> QED
      BY <2>1, <2>2
  <1>6. c.cmd \in Sets => [dongle EXCEPT ![c.cmd] = c.val] \in [Sets -> Nat]
    BY <1>1
  <1> QED
    BY <1>2, <1>3, <1>4, <1>5, <1>6

\* What is read back has the type of a status.
LEMMA ReadbackTypes ==
  ASSUME TypeOK, NEW cmd, answer \in Exchange \cup {Failed, TimedOut}
  PROVE  ReadbackOf(cmd) \in [Sets -> Nat]
  <1>1. Data(cmd) \in Nat
    BY DEF Data, Exchange
  <1>2. sdr \in [Sets -> Nat]
    BY DEF TypeOK
  <1>3. ASSUME NEW on \in Nat, NEW freq PROVE LnaGain(on, freq) \in Nat
    BY DEF LnaGain
  <1>4. LnaGain(Data(cmd), sdr.freq) \in Nat
    BY <1>1, <1>3
  <1> QED
    BY <1>1, <1>2, <1>4 DEF ReadbackOf, Sets

\* Queues that are appended to and taken from keep their type.
LEMMA QueueTypes ==
  ASSUME NEW s \in Seq(Exchange)
  PROVE  /\ \A x \in Exchange : Append(s, x) \in Seq(Exchange)
         /\ s # <<>> => Head(s) \in Exchange /\ Tail(s) \in Seq(Exchange)
  OBVIOUS

\* The queues and the answer stay well-typed, whichever of the library's and the
\* device's steps is taken.
LEMMA HidTypeStep ==
  ASSUME TypeOK, [Next]_vars
  PROVE  HidTypeOK(Exchange, Exchange)'
  <1> USE DEF HidTypeOK
  <1>1. HidTypeOK(Exchange, Exchange)
    BY DEF TypeOK
  <1>2. <<>> \in Seq(Exchange)
    OBVIOUS
  <1>3. /\ asked \in Seq(Exchange) /\ outbox \in Seq(Exchange) /\ reports \in Seq(Exchange)
        /\ todo \in Seq(Exchange)
    BY DEF TypeOK
  <1>4. /\ reports # <<>> => Head(reports) \in Exchange /\ Tail(reports) \in Seq(Exchange)
        /\ outbox # <<>> => Head(outbox) \in Exchange /\ Tail(outbox) \in Seq(Exchange)
        /\ asked # <<>> => Head(asked) \in Exchange /\ Tail(asked) \in Seq(Exchange)
        /\ todo # <<>> => Head(todo) \in Exchange
    BY <1>3, QueueTypes
  <1>5. CASE WriteCommand
    <2>1. OnWire(Head(todo)) \in Exchange
      BY <1>4, <1>5, ExchangeTypes DEF WriteCommand
    <2>2. asked' \in Seq(Exchange)
      BY <1>3, <1>5, <2>1, QueueTypes DEF WriteCommand, Write
    <2>3. timed' \in BOOLEAN
      BY <1>5 DEF WriteCommand, WithLimit
    <2> QED
      BY <1>1, <1>5, <2>2, <2>3 DEF WriteCommand, libVars
  <1>6. CASE Retry \/ FinishExchange
    <2>1. UNCHANGED <<handle, thread, urb, shutdown, cancelled, reports, asked, outbox, reader, plugged>>
          /\ answer' = NoReport /\ timed' = FALSE
      BY <1>6 DEF Retry, FinishExchange, libVars, deviceVars
    <2> QED
      BY <1>1, <2>1
  <1>7. CASE Receive \/ OwnStatus \/ OpenFails \/ EndInit \/ EndReadback \/ SendStatus
               \/ AdjustGain \/ EndPass
    BY <1>1, <1>7 DEF Receive, OwnStatus, OpenFails, EndInit, EndReadback, SendStatus,
       AdjustGain, EndPass, libVars, readVars, deviceVars
  <1>8. CASE Open
    BY <1>1, <1>2, <1>8 DEF Open, OpenDevice, readVars
  <1>9. CASE Close \/ Joined
    BY <1>1, <1>2, <1>9 DEF Close, BeginClose, AfterCancel, Joined, FinishClose, readVars, deviceVars
  <1>10. CASE Reading
    <2>1. CASE TakeReport /\ UNCHANGED <<handle, thread, urb, shutdown, cancelled, timed, plugged>>
      <3>1. GiveUp(Tail(reports)) \in Seq(Exchange) /\ GiveUp(asked) \in Seq(Exchange)
            /\ GiveUp(outbox) \in Seq(Exchange)
        BY <1>3, <1>4, <2>1, GivenUp DEF TakeReport
      <3> QED
        BY <1>1, <1>4, <2>1, <3>1 DEF TakeReport
    <2>2. CASE ~TakeReport
      BY <1>1, <1>10, <2>2 DEF Reading, TestQueue, Wait, libVars, deviceVars
    <2> QED
      BY <1>10, <2>1, <2>2 DEF Reading, TestQueue, Wait, TakeReport
  <1>11. CASE Library
    <2>1. CASE Received
      <3> DEFINE grown == Append(reports, Head(outbox))
      <3>0. Head(outbox) \in Exchange
        BY <1>4, <2>1 DEF Received
      <3>1. grown \in Seq(Exchange) /\ Tail(grown) \in Seq(Exchange)
        <4>1. grown \in Seq(Exchange) /\ grown # <<>>
          BY <1>3, <3>0, AppendProperties
        <4> QED
          BY <4>1, QueueTypes
      <3>2. reports' \in Seq(Exchange)
        BY <2>1, <3>1 DEF Received
      <3> QED
        BY <1>1, <1>4, <2>1, <3>2 DEF Received
    <2>2. CASE NothingReceived \/ Resubmit \/ TransferEnds
      <3>1. /\ UNCHANGED <<handle, thread, reports, asked, outbox, plugged, reader, timed, answer>>
            /\ urb' \in {"none", "flying", "callback"}
            /\ \/ shutdown' = shutdown /\ cancelled' = cancelled
               \/ shutdown' = TRUE /\ cancelled' = TRUE
        BY <2>2 DEF NothingReceived, Resubmit, TransferEnds, readVars, deviceVars
      <3>2. shutdown' \in BOOLEAN /\ cancelled' \in BOOLEAN
        BY <1>1, <3>1
      <3>3. urb' \in {"none", "unsubmitted", "flying", "cancelled", "callback"}
        BY <3>1
      <3> QED
        BY <1>1, <3>1, <3>2, <3>3
    <2>4. CASE LeaveLoop
      BY <1>1, <2>4 DEF LeaveLoop, AfterCancel, readVars, deviceVars
    <2>5. CASE StopThread
      BY <1>1, <2>5 DEF StopThread, readVars, deviceVars
    <2>3. CASE SpuriousWakeup
      BY <1>1, <2>3 DEF SpuriousWakeup, libVars, deviceVars
    <2> QED
      BY <1>11, <2>1, <2>2, <2>3, <2>4, <2>5 DEF Library, ReadThread
  <1>12. CASE DongleAnswers
    <2>1. Treated(Head(asked)) \in Exchange
      BY <1>4, <1>12, ExchangeTypes DEF DongleAnswers
    <2>2. outbox' \in Seq(Exchange) /\ asked' \in Seq(Exchange)
      BY <1>3, <1>4, <1>12, <2>1, QueueTypes DEF DongleAnswers
    <2> QED
      BY <1>1, <1>12, <2>2 DEF DongleAnswers, libVars, readVars
  <1>13. CASE Late \/ Unanswered
    <2>1. GiveUp(reports) \in Seq(Exchange) /\ GiveUp(asked) \in Seq(Exchange)
          /\ GiveUp(outbox) \in Seq(Exchange)
      BY <1>3, GivenUp
    <2> QED
      BY <1>1, <1>13, <2>1 DEF Late, Unanswered, ReadTimesOut
  <1>14. CASE CommandHangs \/ Unplug \/ OtherProgram
    <2>1. CASE CommandHangs
      BY <1>1, <1>4, <2>1 DEF CommandHangs, libVars, readVars
    <2>2. CASE Unplug
      <3>1. /\ UNCHANGED <<handle, thread, urb, shutdown, cancelled, reports, reader, answer, timed>>
            /\ plugged' = FALSE /\ asked' = <<>> /\ outbox' = <<>>
        BY <2>2 DEF Unplug, libVars, readVars
      <3>2. asked' \in Seq(Exchange) /\ outbox' \in Seq(Exchange)
        BY <1>2, <3>1
      <3>3. plugged' \in BOOLEAN
        BY <3>1
      <3> QED
        BY <1>1, <3>1, <3>2, <3>3
    <2>3. CASE OtherProgram
      BY <1>1, <2>3 DEF OtherProgram, libVars, readVars, deviceVars
    <2> QED
      BY <1>14, <2>1, <2>2, <2>3
  <1>15. CASE UNCHANGED vars
    BY <1>1, <1>15 DEF vars, libVars, readVars, deviceVars
  <1> QED
    BY <1>5, <1>6, <1>7, <1>8, <1>9, <1>10, <1>11, <1>12, <1>13, <1>14, <1>15 DEF Next, Ncmd

\* The four readings are exchanges.
LEMMA ReadbackType ==
  /\ Readback \in Seq(Exchange) /\ Len(Readback) = 4
  /\ QueryMode \in Exchange /\ QueryCaps \in Exchange
  /\ Readback[1].cmd = "getlna" /\ Readback[2].cmd = "getmixer"
  /\ Readback[3].cmd = "getif" /\ Readback[4].cmd = "getfreq"
  <1>1. \A c \in Gets \cup {"mode", "caps"} : Command(c, 0) \in Exchange /\ Command(c, 0).cmd = c
    BY DEF Command, Exchange
  <1>2. /\ Command("getlna", 0) \in Exchange /\ Command("getmixer", 0) \in Exchange
        /\ Command("getif", 0) \in Exchange /\ Command("getfreq", 0) \in Exchange
        /\ QueryMode \in Exchange /\ QueryCaps \in Exchange
    BY <1>1 DEF Gets, QueryMode, QueryCaps
  <1>3. Readback \in Seq(Exchange) /\ Len(Readback) = 4
    BY <1>2 DEF Readback
  <1>4. /\ Readback[1] = Command("getlna", 0) /\ Readback[2] = Command("getmixer", 0)
        /\ Readback[3] = Command("getif", 0) /\ Readback[4] = Command("getfreq", 0)
    BY DEF Readback
  <1> QED
    BY <1>1, <1>2, <1>3, <1>4 DEF Gets

\* A command packet followed by the readings is a list of exchanges; the readings
\* are its last four and the packet sets parameters.
LEMMA PassTodo ==
  ASSUME NEW commands \in Packets \cup {<<>>}, NEW s, s = commands \o Readback
  PROVE  s \in Seq(Exchange) /\ Len(s) >= 4 /\ ReadbackLast(s)
  <1> DEFINE Setting == [cmd : Sets, val : Nat, late : {FALSE}]
  <1>1. commands \in Seq(Setting)
    <2>1. <<>> \in Seq(Setting)
      BY EmptySeq
    <2>2. Packets \subseteq Seq(Setting)
      BY ControlAssumption
    <2> HIDE DEF Setting
    <2> QED
      BY <2>1, <2>2
  <1>2. Setting \subseteq Exchange
    BY DEF Exchange
  <1>3. commands \in Seq(Exchange)
    BY <1>1, <1>2, SeqMonotonic
  <1>4. /\ s \in Seq(Exchange) /\ Len(s) = Len(commands) + 4
        /\ \A i \in 1..Len(commands) + 4 :
             s[i] = IF i <= Len(commands) THEN commands[i] ELSE Readback[i - Len(commands)]
    <2>1. \A r \in Seq(Exchange) :
            /\ commands \o r \in Seq(Exchange) /\ Len(commands \o r) = Len(commands) + Len(r)
            /\ \A i \in 1..Len(commands) + Len(r) : (commands \o r)[i] =
                 IF i <= Len(commands) THEN commands[i] ELSE r[i - Len(commands)]
      BY <1>3, ConcatProperties
    <2>2. /\ s \in Seq(Exchange) /\ Len(s) = Len(commands) + Len(Readback)
          /\ \A i \in 1..Len(commands) + Len(Readback) :
               s[i] = IF i <= Len(commands) THEN commands[i] ELSE Readback[i - Len(commands)]
      BY <2>1, ReadbackType, Zenon
    <2>3. Len(Readback) = 4
      BY ReadbackType
    <2> QED
      BY <2>2, <2>3, Zenon
  <1>5. Len(commands) \in Nat /\ \A i \in 1..Len(commands) : commands[i].cmd \in Sets
    <2>1. Len(commands) \in Nat /\ \A i \in 1..Len(commands) : commands[i] \in Setting
      <3> HIDE DEF Setting
      <3> QED
        BY <1>1, ElementOfSeq, LenProperties
    <2> QED
      BY <2>1
  <1> HIDE DEF Setting
  <1>6. DOMAIN s = 1..Len(commands) + 4
    BY <1>4, EmptyQueue
  <1>7. ASSUME NEW i \in DOMAIN s
        PROVE  IF Len(s) - i < 4 THEN s[i] = Readback[4 - (Len(s) - i)] ELSE s[i].cmd \in Sets
    <2>1. CASE i <= Len(commands)
      <3>1. ~(Len(s) - i < 4) /\ i \in 1..Len(commands)
        BY <1>4, <1>5, <1>6, <2>1
      <3> QED
        BY <1>4, <1>5, <1>6, <2>1, <3>1
    <2>2. CASE ~(i <= Len(commands))
      <3>1. Len(s) - i < 4 /\ 4 - (Len(s) - i) = i - Len(commands)
        BY <1>4, <1>5, <1>6, <2>2
      <3> QED
        BY <1>4, <1>6, <2>2, <3>1
    <2> QED
      BY <2>1, <2>2
  <1> QED
    BY <1>4, <1>5, <1>7 DEF ReadbackLast

\* The gain control asks for at most one exchange, which sets a parameter.
LEMMA AdjustmentType ==
  ASSUME TypeOK, NEW level
  PROVE  Adjustment(level) \in Seq(Exchange)
  <1>1. sdr.if \in Nat
    BY DEF TypeOK, Sets
  <1>2. Most(0, sdr.if - 10) \in Nat /\ Least(20, sdr.if + 10) \in Nat
    BY <1>1 DEF Most, Least
  <1>3. \A c \in Sets, v \in Nat : <<Command(c, v)>> \in Seq(Exchange)
    BY DEF Command, Exchange
  <1>4. <<>> \in Seq(Exchange)
    OBVIOUS
  <1> QED
    BY <1>2, <1>3, <1>4 DEF Adjustment, Sets

\* The thread's own variables and the dongle keep their types.
LEMMA TypeStep ==
  ASSUME TypeOK, Place, [Next]_vars
  PROVE  TypeOK'
  <1> DEFINE ClientOK == /\ dongle \in [Sets -> Nat] /\ sdr \in [Sets -> Nat]
                         /\ pc \in {"open", "recv", "decode", "next", "reading", "send", "agc",
                                    "close", "join", "ended"}
                         /\ stage \in {"init", "loop", "agc"}
                         /\ todo \in Seq(Exchange)
                         /\ tries \in 0..MaxTries
                         /\ initOK \in BOOLEAN /\ noHoldOpen \in BOOLEAN /\ sure \in BOOLEAN
                         /\ passes \in 0..MaxPasses /\ troubles \in 0..MaxTroubles
  <1>0. SUFFICES ClientOK'
    <2>1. ASSUME ClientOK' PROVE {initOK', noHoldOpen', sure'} \subseteq BOOLEAN
      BY <2>1
    <2> QED
      BY <2>1, HidTypeStep DEF TypeOK
  <1>1. ClientOK
    BY DEF TypeOK
  <1>2. MaxTries \in Nat \ {0} /\ MaxPasses \in Nat /\ MaxTroubles \in Nat
    BY ControlAssumption
  <1>3. todo # <<>> => Head(todo) \in Exchange /\ Tail(todo) \in Seq(Exchange)
    BY <1>1, QueueTypes
  <1>4. <<>> \in Seq(Exchange)
    OBVIOUS
  <1>5. CASE WriteCommand
    <2>1. sdr' \in [Sets -> Nat]
      BY <1>3, <1>5, ExchangeTypes DEF WriteCommand
    <2>2. tries' \in 0..MaxTries
      BY <1>1, <1>2, <1>5 DEF WriteCommand, Place
    <2> QED
      BY <1>1, <1>5, <2>1, <2>2 DEF WriteCommand
  <1>6. CASE Retry
    BY <1>1, <1>6 DEF Retry
  <1>7. CASE FinishExchange
    <2>1. todo # <<>> /\ answer \in Exchange \cup {Failed, TimedOut}
      BY <1>7 DEF FinishExchange, Answered, Place
    <2>2. sdr' \in [Sets -> Nat]
      BY <1>7, <2>1, ReadbackTypes DEF FinishExchange
    <2>3. todo' \in Seq(Exchange)
      BY <1>3, <1>4, <1>7, <2>1 DEF FinishExchange
    <2>4. tries' \in 0..MaxTries /\ pc' = "next"
      BY <1>2, <1>7 DEF FinishExchange
    <2>5. initOK' \in BOOLEAN
      BY <1>7 DEF FinishExchange
    <2>6. sure' \in BOOLEAN
      BY <1>7 DEF FinishExchange
    <2> QED
      BY <1>1, <1>7, <2>2, <2>3, <2>4, <2>5, <2>6 DEF FinishExchange
  <1>8. CASE Receive
    <2>1. todo' \in Seq(Exchange)
      BY <1>8, PassTodo DEF Receive
    <2>2. passes' \in 0..MaxPasses
      BY <1>1, <1>2, <1>8 DEF Receive
    <2> QED
      BY <1>1, <1>8, <2>1, <2>2 DEF Receive
  <1>9. CASE OwnStatus \/ OpenFails \/ EndInit \/ EndReadback \/ SendStatus \/ EndPass
    <2>1. CASE OpenFails
      <3>1. troubles' \in 0..MaxTroubles
        BY <1>1, <1>2, <2>1 DEF OpenFails
      <3> QED
        BY <1>1, <2>1, <3>1 DEF OpenFails
    <2>2. CASE OwnStatus
      BY <1>1, <1>4, <2>2 DEF OwnStatus
    <2>3. CASE EndInit \/ EndReadback \/ SendStatus \/ EndPass
      BY <1>1, <2>3 DEF EndInit, EndReadback, SendStatus, EndPass
    <2> QED
      BY <1>9, <2>1, <2>2, <2>3
  <1>10. CASE AdjustGain
    <2>1. todo' \in Seq(Exchange)
      BY <1>10, AdjustmentType DEF AdjustGain
    <2> QED
      BY <1>1, <1>10, <2>1 DEF AdjustGain
  <1>11. CASE Open \/ Close \/ Joined
    BY <1>1, <1>11 DEF Open, Close, Joined
  <1>12. CASE Reading \/ Library \/ Unanswered \/ UNCHANGED vars
    BY <1>1, <1>12 DEF Reading, Library, Unanswered, vars, clientVars
  <1>13. CASE DongleAnswers \/ CommandHangs
    <2>1. Head(asked) \in Exchange
      BY <1>13, QueueTypes DEF DongleAnswers, CommandHangs, TypeOK, HidTypeOK
    <2>2. dongle' \in [Sets -> Nat]
      BY <1>1, <1>13, <2>1, ExchangeTypes DEF DongleAnswers, CommandHangs
    <2> QED
      BY <1>1, <1>2, <1>13, <2>2 DEF DongleAnswers, CommandHangs, Trouble
  <1>14. CASE Late \/ Unplug \/ OtherProgram
    <2>1. troubles' \in 0..MaxTroubles
      BY <1>1, <1>2, <1>14 DEF Late, Unplug, OtherProgram, Trouble
    <2>2. dongle' \in [Sets -> Nat]
      BY <1>1, <1>14, ControlAssumption DEF Late, Unplug, OtherProgram
    <2>3. UNCHANGED <<sdr, pc, stage, todo, tries, initOK, passes, sure, noHoldOpen>>
      BY <1>14 DEF Late, Unplug, OtherProgram
    <2> QED
      BY <1>1, <2>1, <2>2, <2>3
  <1> QED
    BY <1>5, <1>6, <1>7, <1>8, <1>9, <1>10, <1>11, <1>12, <1>13, <1>14 DEF Next, Ncmd

-----------------------------------------------------------------------------
(* Where the thread is *)

\* The thread's steps that exchange nothing with the device.
Aside == Receive \/ OwnStatus \/ OpenFails \/ EndInit \/ EndReadback \/ SendStatus
           \/ AdjustGain \/ EndPass

\* They leave the library, the device and the dongle's and the stored settings alone.
LEMMA AsideFrame ==
  ASSUME Aside
  PROVE  /\ UNCHANGED <<handle, thread, urb, shutdown, cancelled, reports, reader, timed, answer,
                        asked, outbox, plugged, dongle, sdr, tries>>
         /\ pc # "reading" /\ pc' # "reading"
  BY DEF Aside, Receive, OwnStatus, OpenFails, EndInit, EndReadback, SendStatus, AdjustGain,
     EndPass, libVars, readVars, deviceVars

\* A read that has returned is followed by the next exchange or a repetition.
LEMMA ReturnFrame ==
  ASSUME Retry \/ FinishExchange
  PROVE  /\ UNCHANGED <<handle, thread, urb, shutdown, cancelled, reports, reader, asked, outbox,
                        plugged, dongle, stage>>
         /\ pc = "reading" /\ reader = "out" /\ pc' = "next"
         /\ tries' = 0 \/ (tries' = tries /\ tries < MaxTries)
  <1>1. CASE Retry
    BY <1>1 DEF Retry, Answered, libVars, deviceVars
  <1>2. CASE FinishExchange
    BY <1>2 DEF FinishExchange, Answered, libVars, deviceVars
  <1> QED
    BY <1>1, <1>2

\* What is at hand stays at hand.
LEMMA PlaceStep ==
  ASSUME TypeOK, Place, [Next]_vars
  PROVE  Place'
  <1>1. CASE WriteCommand
    BY <1>1 DEF WriteCommand, Place, libVars
  <1>2. CASE Retry \/ FinishExchange
    <2>1. MaxTries \in Nat \ {0}
      BY ControlAssumption
    <2> QED
      BY <1>2, <2>1, ReturnFrame DEF Place
  <1>3. CASE Aside
    <2>1. UNCHANGED <<handle, reader, tries>> /\ pc # "reading" /\ pc' # "reading"
      BY <1>3, AsideFrame
    <2>2. pc' \in {"next", "reading", "send", "agc", "close", "join"} => handle
      BY <1>3 DEF Aside, Receive, OwnStatus, OpenFails, EndInit, EndReadback, SendStatus,
         AdjustGain, EndPass, Place
    <2> QED
      BY <2>1, <2>2 DEF Place
  <1>4. CASE Open \/ Close \/ Joined
    <2>1. CASE Open
      BY <2>1 DEF Open, OpenDevice, Place, readVars
    <2>2. CASE Close
      BY <2>2 DEF Close, BeginClose, Place, readVars
    <2>3. CASE Joined
      BY <2>3 DEF Joined, FinishClose, Place, readVars
    <2> QED
      BY <1>4, <2>1, <2>2, <2>3
  <1>5. CASE Reading
    <2>1. /\ UNCHANGED <<handle, pc, todo, tries>> /\ reader # "out"
          /\ reader' = "out" => answer' = Failed \/ (reports # <<>> /\ answer' = Head(reports))
      BY <1>5 DEF Reading, TestQueue, TakeReport, Wait, libVars, clientVars
    <2>2. reports # <<>> => Head(reports) \in Exchange
      BY QueueTypes DEF TypeOK, HidTypeOK
    <2> QED
      BY <2>1, <2>2 DEF Place
  <1>6. CASE Library
    <2>1. /\ UNCHANGED <<handle, pc, todo, tries, answer>>
          /\ reader' # "out" => reader # "out"
          /\ reader' = "out" => reader = "out"
      BY <1>6 DEF Library, ReadThread, Received, NothingReceived, Resubmit, TransferEnds,
         LeaveLoop, StopThread, SpuriousWakeup, libVars, readVars, clientVars
    <2> QED
      BY <2>1 DEF Place
  <1>7. CASE Late \/ Unanswered
    BY <1>7 DEF Late, Unanswered, ReadTimesOut, Place, clientVars
  <1>8. CASE DongleAnswers \/ CommandHangs \/ Unplug \/ OtherProgram \/ UNCHANGED vars
    BY <1>8 DEF DongleAnswers, CommandHangs, Unplug, OtherProgram, Place, vars, libVars,
       readVars, clientVars
  <1> QED
    BY <1>1, <1>2, <1>3, <1>4, <1>5, <1>6, <1>7, <1>8 DEF Next, Ncmd, Aside

\* The device is shut down by its own loss or by whoever closes it.
LEMMA ShutMeansGoneStep ==
  ASSUME TypeOK, TransferHeld, Place, ShutMeansGone, [Next]_vars
  PROVE  ShutMeansGone'
  <1>1. CASE WriteCommand
    BY <1>1 DEF WriteCommand, Write, ShutMeansGone, libVars
  <1>2. CASE Retry \/ FinishExchange
    BY <1>2, ReturnFrame DEF ShutMeansGone
  <1>3. CASE Aside
    <2>1. pc # "join"
      BY <1>3 DEF Aside, Receive, OwnStatus, OpenFails, EndInit, EndReadback, SendStatus,
         AdjustGain, EndPass
    <2> QED
      BY <1>3, <2>1, AsideFrame DEF ShutMeansGone
  <1>4. CASE Open
    BY <1>4 DEF Open, OpenDevice, ShutMeansGone
  <1>5. CASE Close \/ Joined
    <2>1. CASE Close
      BY <2>1 DEF Close, BeginClose, AfterCancel, ShutMeansGone, deviceVars
    <2>2. CASE Joined
      BY <2>2 DEF Joined, FinishClose, TransferHeld, ShutMeansGone, deviceVars
    <2> QED
      BY <1>5, <2>1, <2>2
  <1>6. CASE Reading
    <2>1. /\ UNCHANGED <<urb, shutdown, handle, pc, plugged>>
          /\ UNCHANGED <<asked, outbox>> \/ (asked' = GiveUp(asked) /\ outbox' = GiveUp(outbox))
      BY <1>6 DEF Reading, TestQueue, TakeReport, Wait, libVars, deviceVars, clientVars
    <2>2. GiveUp(<<>>) = <<>>
      BY EmptySeq, GivenUp
    <2> QED
      BY <2>1, <2>2 DEF ShutMeansGone
  <1>7. CASE Library
    <2>1. CASE Received \/ NothingReceived \/ SpuriousWakeup
      BY <1>7, <2>1 DEF Library, Received, NothingReceived, SpuriousWakeup, ShutMeansGone,
         libVars, deviceVars, clientVars
    <2>2. CASE Resubmit \/ TransferEnds
      BY <1>7, <2>2 DEF Library, Resubmit, TransferEnds, ShutMeansGone, deviceVars, clientVars
    <2>3. CASE LeaveLoop \/ StopThread
      BY <1>7, <2>3 DEF Library, LeaveLoop, StopThread, AfterCancel, ShutMeansGone,
         deviceVars, clientVars
    <2> QED
      BY <1>7, <2>1, <2>2, <2>3 DEF Library, ReadThread
  <1>8. CASE Late \/ Unanswered
    <2>1. GiveUp(<<>>) = <<>>
      BY EmptySeq, GivenUp
    <2> QED
      BY <1>8, <2>1 DEF Late, Unanswered, ReadTimesOut, ShutMeansGone, clientVars
  <1>9. CASE DongleAnswers \/ CommandHangs
    BY <1>9 DEF DongleAnswers, CommandHangs, ShutMeansGone, libVars
  <1>10. CASE Unplug \/ OtherProgram \/ UNCHANGED vars
    BY <1>10 DEF Unplug, OtherProgram, ShutMeansGone, vars, libVars, deviceVars, clientVars
  <1> QED
    BY <1>1, <1>2, <1>3, <1>4, <1>5, <1>6, <1>7, <1>8, <1>9, <1>10 DEF Next, Ncmd, Aside

-----------------------------------------------------------------------------
(* The order of commands and answers *)

\* Which of a queue are late once the first is taken.
LEMMA LateOf ==
  ASSUME NEW s \in Seq(Exchange)
  PROVE  /\ AllLate(s) => FrontLate(s)
         /\ AllLate(<<>>)
         /\ s # <<>> /\ AllLate(s) => AllLate(Tail(s)) /\ Head(s).late
         /\ s # <<>> /\ FrontLate(s) => FrontLate(Tail(s)) /\ (Head(s).late \/ Tail(s) = <<>>)
  <1>1. Len(s) \in Nat /\ DOMAIN s = 1..Len(s) /\ (s = <<>> <=> Len(s) = 0)
    BY EmptyQueue
  <1>2. AllLate(s) => FrontLate(s)
    BY <1>1 DEF AllLate, FrontLate
  <1>3. AllLate(<<>>)
    BY DEF AllLate
  <1>5. ASSUME s # <<>>
        PROVE  /\ AllLate(s) => AllLate(Tail(s)) /\ Head(s).late
               /\ FrontLate(s) => FrontLate(Tail(s)) /\ (Head(s).late \/ Tail(s) = <<>>)
    <2>1. /\ Tail(s) \in Seq(Exchange) /\ Len(Tail(s)) = Len(s) - 1 /\ Len(s) >= 1
          /\ \A i \in 1..Len(s) - 1 : Tail(s)[i] = s[i + 1]
          /\ Head(s) = s[1]
      BY <1>1, <1>5
    <2> DEFINE t == Tail(s)
               h == Head(s)
    <2> HIDE DEF t, h
    <2>2. /\ t \in Seq(Exchange) /\ Len(t) = Len(s) - 1 /\ Len(s) >= 1
          /\ \A i \in 1..Len(s) - 1 : t[i] = s[i + 1]
          /\ h = s[1]
      BY <2>1 DEF t, h
    <2>3. DOMAIN t = 1..Len(s) - 1 /\ (t = <<>> <=> Len(s) = 1)
      BY <1>1, <2>2, EmptyQueue
    <2>4. ASSUME AllLate(s) PROVE AllLate(t) /\ h.late
      <3>1. \A i \in 1..Len(s) : s[i].late
        BY <1>1, <2>4 DEF AllLate
      <3>2. \A i \in 1..Len(s) - 1 : t[i].late
        BY <1>1, <2>2, <3>1
      <3> QED
        BY <1>1, <2>2, <2>3, <3>1, <3>2 DEF AllLate
    <2>5. FrontLate(s) => FrontLate(t) /\ (h.late \/ t = <<>>)
      BY <1>1, <2>2, <2>3 DEF FrontLate
    <2> QED
      BY <2>4, <2>5 DEF t, h
  <1> QED
    BY <1>2, <1>3, <1>5

\* What is appended to late ones may be awaited.
LEMMA LateAppend ==
  ASSUME NEW s \in Seq(Exchange), AllLate(s), NEW x \in Exchange, NEW t, t = Append(s, x)
  PROVE  FrontLate(t) /\ (x.late => AllLate(t)) /\ t \in Seq(Exchange) /\ t # <<>>
  <1>1. Len(s) \in Nat /\ DOMAIN s = 1..Len(s) /\ (s = <<>> <=> Len(s) = 0)
    BY EmptyQueue
  <1>2. /\ t \in Seq(Exchange) /\ Len(t) = Len(s) + 1
        /\ \A i \in 1..Len(s) : t[i] = s[i]
        /\ t[Len(s) + 1] = x
    BY AppendProperties
  <1>3. DOMAIN t = 1..Len(s) + 1 /\ t # <<>>
    BY <1>1, <1>2, EmptyQueue
  <1>4. FrontLate(t)
    BY <1>1, <1>2 DEF AllLate, FrontLate
  <1>5. x.late => AllLate(t)
    BY <1>1, <1>2, <1>3 DEF AllLate
  <1> QED
    BY <1>2, <1>3, <1>4, <1>5

\* The steps that change the queues or let the read return, by name.
LEMMA QueueFrame ==
  ASSUME [Next]_vars
  PROVE  \/ WriteCommand \/ Open \/ Joined
         \/ Reading /\ TakeReport
         \/ Reading /\ UNCHANGED <<asked, outbox, reports>> /\ shutdown /\ reports = <<>>
              /\ reader # "out" /\ reader' = "out" /\ answer' = Failed
         \/ Library /\ Received
         \/ DongleAnswers \/ CommandHangs
         \/ Late \/ Unanswered \/ Unplug
         \/ UNCHANGED <<asked, outbox, reports>> /\ (reader' = "out" => reader = "out")
  <1>1. CASE Retry \/ FinishExchange
    BY <1>1, ReturnFrame
  <1>2. CASE Aside
    BY <1>2, AsideFrame
  <1>3. CASE Close
    BY <1>3 DEF Close, BeginClose, readVars, deviceVars
  <1>4. CASE Reading
    <2>1. CASE TestQueue
      BY <1>4, <2>1 DEF TestQueue
    <2>2. CASE Wait
      BY <2>2 DEF Wait, libVars, deviceVars
    <2> QED
      BY <1>4, <2>1, <2>2 DEF Reading
  <1>5. CASE Library /\ ~Received
    BY <1>5 DEF Library, ReadThread, NothingReceived, Resubmit, TransferEnds, LeaveLoop,
       StopThread, SpuriousWakeup, libVars, readVars, deviceVars
  <1>6. CASE OtherProgram \/ UNCHANGED vars
    BY <1>6 DEF OtherProgram, vars, libVars, readVars, deviceVars
  <1> QED
    BY <1>1, <1>2, <1>3, <1>4, <1>5, <1>6 DEF Next, Ncmd, Aside

\* Whoever gives up on an answer, or takes a late one for it, leaves only late
\* ones behind; and a new command is written only when the read has returned.
LEMMA OrderStep ==
  ASSUME TypeOK, Place, ShutMeansGone, OnlyLastAwaited, NoneAwaited, [Next]_vars
  PROVE  OnlyLastAwaited' /\ NoneAwaited'
  <1>1. /\ asked \in Seq(Exchange) /\ outbox \in Seq(Exchange) /\ reports \in Seq(Exchange)
        /\ <<>> \in Seq(Exchange)
    BY DEF TypeOK, HidTypeOK
  <1>2. AllLate(<<>>) /\ FrontLate(<<>>)
    BY <1>1, LateOf
  <1>3. \A s \in Seq(Exchange) : AllLate(s) => FrontLate(s)
    BY LateOf
  <1>4. ASSUME AllLate(asked'), AllLate(outbox'), AllLate(reports')
        PROVE  OnlyLastAwaited' /\ NoneAwaited'
    <2>1. HidTypeOK(Exchange, Exchange)'
      BY HidTypeStep
    <2>2. FrontLate(asked') /\ FrontLate(outbox') /\ FrontLate(reports')
      BY <1>3, <1>4, <2>1 DEF HidTypeOK
    <2> QED
      BY <1>4, <2>2 DEF OnlyLastAwaited, NoneAwaited
  <1>5. CASE WriteCommand
    <2>1. reader = "out" /\ reader' # "out" /\ UNCHANGED <<outbox, reports>> /\ todo # <<>>
      BY <1>5 DEF WriteCommand, Place, libVars
    <2>2. AllLate(asked) /\ AllLate(outbox) /\ AllLate(reports)
      BY <2>1 DEF NoneAwaited
    <2>3. OnWire(Head(todo)) \in Exchange
      BY <2>1, ExchangeTypes, QueueTypes DEF TypeOK
    <2>4. FrontLate(Append(asked, OnWire(Head(todo))))
      BY <1>1, <2>2, <2>3, LateAppend
    <2>5. FrontLate(asked') /\ FrontLate(outbox) /\ FrontLate(reports)
      BY <1>1, <1>3, <1>5, <2>2, <2>4 DEF WriteCommand, Write
    <2> QED
      BY <2>1, <2>2, <2>5 DEF OnlyLastAwaited, NoneAwaited
  <1>6. CASE Open \/ Joined \/ Unplug
    <2>1. /\ UNCHANGED asked \/ asked' = <<>>
          /\ UNCHANGED outbox \/ outbox' = <<>>
          /\ UNCHANGED reports \/ reports' = <<>>
          /\ UNCHANGED reader
      BY <1>6 DEF Open, OpenDevice, Joined, FinishClose, Unplug, libVars, readVars, deviceVars
    <2> QED
      BY <1>2, <2>1 DEF OnlyLastAwaited, NoneAwaited
  <1>7. CASE Reading /\ TakeReport
    <2>1. CASE Head(reports).late
      <3>1. Tail(reports) \in Seq(Exchange)
        BY <1>1, <1>7, QueueTypes DEF TakeReport
      <3>2. AllLate(GiveUp(asked)) /\ AllLate(GiveUp(outbox)) /\ AllLate(GiveUp(Tail(reports)))
        BY <1>1, <3>1, GivenUp
      <3> QED
        BY <1>4, <1>7, <2>1, <3>2 DEF TakeReport
    <2>2. CASE ~Head(reports).late
      <3>1. Tail(reports) = <<>> /\ ~AllLate(reports)
        BY <1>1, <1>7, <2>2, LateOf DEF TakeReport, OnlyLastAwaited
      <3>2. asked = <<>> /\ outbox = <<>>
        BY <3>1 DEF OnlyLastAwaited
      <3> QED
        BY <1>2, <1>4, <1>7, <2>2, <3>1, <3>2 DEF TakeReport
    <2> QED
      BY <2>1, <2>2
  <1>8. CASE Reading /\ UNCHANGED <<asked, outbox, reports>> /\ shutdown /\ reports = <<>>
               /\ reader # "out"
    <2>1. pc = "reading" /\ handle
      BY <1>8 DEF Place
    <2>2. asked = <<>> /\ outbox = <<>>
      BY <1>8, <2>1 DEF ShutMeansGone
    <2> QED
      BY <1>2, <1>4, <1>8, <2>2
  <1>9. CASE Library /\ Received
    <2> DEFINE x == Head(outbox)
               grown == Append(reports, x)
    <2>1. outbox # <<>> /\ x \in Exchange /\ Tail(outbox) \in Seq(Exchange)
      BY <1>1, <1>9, QueueTypes DEF Received
    <2>2. AllLate(reports) /\ FrontLate(outbox)
      BY <2>1 DEF OnlyLastAwaited
    <2>3. /\ grown \in Seq(Exchange) /\ grown # <<>> /\ FrontLate(grown)
          /\ x.late => AllLate(grown)
      BY <1>1, <2>1, <2>2, LateAppend
    <2>4. /\ AllLate(outbox) => AllLate(Tail(outbox)) /\ x.late
          /\ FrontLate(Tail(outbox)) /\ (x.late \/ Tail(outbox) = <<>>)
      BY <1>1, <2>1, <2>2, LateOf
    <2>5. /\ FrontLate(Tail(grown)) /\ (AllLate(grown) => AllLate(Tail(grown)))
      BY <2>3, LateOf
    <2>6. /\ reports' = grown \/ reports' = Tail(grown)
          /\ outbox' = Tail(outbox) /\ UNCHANGED asked /\ (reader' = "out" => reader = "out")
      BY <1>9 DEF Received
    <2> HIDE DEF x, grown
    <2>7. FrontLate(reports') /\ (x.late => AllLate(reports'))
      BY <2>3, <2>5, <2>6
    <2> QED
      BY <2>1, <2>2, <2>4, <2>6, <2>7 DEF OnlyLastAwaited, NoneAwaited
  <1>10. CASE DongleAnswers
    <2> DEFINE x == Treated(Head(asked))
    <2>1. asked # <<>> /\ x \in Exchange /\ x.late = Head(asked).late
      BY <1>1, <1>10, QueueTypes, ExchangeTypes DEF DongleAnswers
    <2>2. AllLate(outbox) /\ AllLate(reports) /\ FrontLate(asked) /\ FrontLate(reports)
      BY <2>1 DEF OnlyLastAwaited
    <2>3. FrontLate(Append(outbox, x)) /\ (x.late => AllLate(Append(outbox, x)))
      BY <1>1, <2>1, <2>2, LateAppend
    <2>4. /\ AllLate(asked) => AllLate(Tail(asked)) /\ x.late
          /\ FrontLate(Tail(asked)) /\ (x.late \/ Tail(asked) = <<>>)
      BY <1>1, <2>1, <2>2, LateOf
    <2>5. outbox' = Append(outbox, x) /\ asked' = Tail(asked) /\ UNCHANGED <<reports, reader>>
      BY <1>10 DEF DongleAnswers, libVars, readVars
    <2> HIDE DEF x
    <2> QED
      BY <2>2, <2>3, <2>4, <2>5 DEF OnlyLastAwaited, NoneAwaited
  <1>11. CASE CommandHangs
    <2>1. asked # <<>> /\ asked' = Tail(asked) /\ UNCHANGED <<outbox, reports, reader>>
      BY <1>11 DEF CommandHangs, libVars, readVars
    <2>2. FrontLate(Tail(asked)) /\ (AllLate(asked) => AllLate(Tail(asked)))
      BY <1>1, <2>1, LateOf DEF OnlyLastAwaited
    <2> QED
      BY <2>1, <2>2 DEF OnlyLastAwaited, NoneAwaited
  <1>12. CASE Late \/ Unanswered
    <2>1. AllLate(GiveUp(asked)) /\ AllLate(GiveUp(outbox)) /\ AllLate(GiveUp(reports))
      BY <1>1, GivenUp
    <2> QED
      BY <1>4, <1>12, <2>1 DEF Late, Unanswered, ReadTimesOut
  <1>13. CASE UNCHANGED <<asked, outbox, reports>> /\ (reader' = "out" => reader = "out")
    BY <1>13 DEF OnlyLastAwaited, NoneAwaited
  <1> QED
    BY <1>5, <1>6, <1>7, <1>8, <1>9, <1>10, <1>11, <1>12, <1>13, QueueFrame

-----------------------------------------------------------------------------
(* The readback *)

\* What comes next is told by how much is left.
LEMMA NextReading ==
  ASSUME NEW s \in Seq(Exchange), s # <<>>, ReadbackLast(s)
  PROVE  /\ ReadbackLast(Tail(s))
         /\ Len(Tail(s)) = Len(s) - 1 /\ Len(s) \in Nat /\ Len(s) >= 1
         /\ Len(s) > 4 => Head(s).cmd \in Sets
         /\ Len(s) = 4 => Head(s).cmd = "getlna"
         /\ Len(s) = 3 => Head(s).cmd = "getmixer"
         /\ Len(s) = 2 => Head(s).cmd = "getif"
         /\ Len(s) = 1 => Head(s).cmd = "getfreq"
  <1>1. Len(s) \in Nat /\ DOMAIN s = 1..Len(s) /\ Len(s) >= 1
    BY EmptyQueue
  <1> DEFINE t == Tail(s)
             h == Head(s)
  <1>2. /\ t \in Seq(Exchange) /\ Len(t) = Len(s) - 1 /\ h = s[1]
        /\ \A i \in 1..Len(s) - 1 : t[i] = s[i + 1]
    BY <1>1
  <1> HIDE DEF t, h
  <1>3. DOMAIN t = 1..Len(s) - 1
    BY <1>1, <1>2, EmptyQueue
  <1>4. ASSUME NEW i \in DOMAIN s
        PROVE  IF Len(s) - i < 4 THEN s[i] = Readback[4 - (Len(s) - i)] ELSE s[i].cmd \in Sets
    BY <1>1 DEF ReadbackLast
  <1>5. ReadbackLast(t)
    <2>1. ASSUME NEW i \in DOMAIN t
          PROVE  IF Len(t) - i < 4 THEN t[i] = Readback[4 - (Len(t) - i)] ELSE t[i].cmd \in Sets
      <3>1. i + 1 \in DOMAIN s /\ Len(t) - i = Len(s) - (i + 1) /\ t[i] = s[i + 1]
        BY <1>1, <1>2, <1>3
      <3> QED
        BY <1>4, <3>1
    <2> QED
      BY <2>1 DEF ReadbackLast
  <1>6. 1 \in DOMAIN s
    BY <1>1
  <1>7. /\ Len(s) > 4 => h.cmd \in Sets
        /\ Len(s) <= 4 => h = Readback[4 - (Len(s) - 1)]
    BY <1>1, <1>2, <1>4, <1>6
  <1>8. /\ Len(s) = 4 => h.cmd = "getlna"
        /\ Len(s) = 3 => h.cmd = "getmixer"
        /\ Len(s) = 2 => h.cmd = "getif"
        /\ Len(s) = 1 => h.cmd = "getfreq"
    <2>1. /\ Len(s) = 4 => h = Readback[1]
          /\ Len(s) = 3 => h = Readback[2]
          /\ Len(s) = 2 => h = Readback[3]
          /\ Len(s) = 1 => h = Readback[4]
      <3>1. 4 - (4 - 1) = 1 /\ 4 - (3 - 1) = 2 /\ 4 - (2 - 1) = 3 /\ 4 - (1 - 1) = 4
        OBVIOUS
      <3>2. ASSUME Len(s) = 4 PROVE h = Readback[1]
        BY <1>7, <3>1, <3>2
      <3>3. ASSUME Len(s) = 3 PROVE h = Readback[2]
        BY <1>7, <3>1, <3>3
      <3>4. ASSUME Len(s) = 2 PROVE h = Readback[3]
        BY <1>7, <3>1, <3>4
      <3>5. ASSUME Len(s) = 1 PROVE h = Readback[4]
        BY <1>7, <3>1, <3>5
      <3> QED
        BY <3>2, <3>3, <3>4, <3>5
    <2> QED
      BY <2>1, ReadbackType
  <1> QED
    BY <1>1, <1>2, <1>5, <1>7, <1>8 DEF t, h

\* In the loop the mode is not asked for, so no exchange empties the list.
LEMMA LoopExchange ==
  ASSUME TypeOK, EndsWithReadback, stage = "loop", todo # <<>>
  PROVE  /\ ~NoMode
         /\ Len(todo) <= 4 => Head(todo).cmd \in Gets
         /\ Len(todo) > 4 => Head(todo).cmd \in Sets
         /\ Len(todo) \in Nat
  <1>1. todo \in Seq(Exchange) /\ ReadbackLast(todo)
    BY DEF TypeOK, EndsWithReadback
  <1>2. /\ Len(todo) \in Nat /\ Len(todo) >= 1
        /\ Len(todo) > 4 => Head(todo).cmd \in Sets
        /\ Len(todo) = 4 => Head(todo).cmd = "getlna"
        /\ Len(todo) = 3 => Head(todo).cmd = "getmixer"
        /\ Len(todo) = 2 => Head(todo).cmd = "getif"
        /\ Len(todo) = 1 => Head(todo).cmd = "getfreq"
    BY <1>1, NextReading
  <1> DEFINE c == Head(todo).cmd
             n == Len(todo)
  <1> HIDE DEF c, n
  <1>3. /\ n \in Nat /\ n >= 1 /\ (n > 4 => c \in Sets)
        /\ (n = 4 => c = "getlna") /\ (n = 3 => c = "getmixer")
        /\ (n = 2 => c = "getif") /\ (n = 1 => c = "getfreq")
    BY <1>2 DEF c, n
  <1>4. n <= 4 => n = 4 \/ n = 3 \/ n = 2 \/ n = 1
    BY <1>3
  <1>5. n <= 4 => c \in Gets
    BY <1>3, <1>4 DEF Gets
  <1>6. n <= 4 \/ n > 4
    BY <1>3
  <1>7. c # "mode"
    BY <1>3, <1>5, <1>6 DEF Sets, Gets
  <1> QED
    BY <1>3, <1>5, <1>7 DEF NoMode, c, n

\* The four readings stay last.
LEMMA EndsWithReadbackStep ==
  ASSUME TypeOK, Place, EndsWithReadback, [Next]_vars
  PROVE  EndsWithReadback'
  <1>1. CASE WriteCommand \/ Retry
    BY <1>1 DEF WriteCommand, Retry, EndsWithReadback, ReadbackLast
  <1>2. CASE FinishExchange
    <2>1. todo # <<>> /\ pc' = "next" /\ UNCHANGED stage
      BY <1>2 DEF FinishExchange, Answered, Place
    <2>2. CASE stage = "loop"
      <3>1. todo' = Tail(todo)
        BY <1>2, <2>1, <2>2, LoopExchange DEF FinishExchange
      <3>2. ReadbackLast(Tail(todo))
        BY <2>1, <2>2, NextReading DEF EndsWithReadback, TypeOK
      <3> QED
        BY <2>1, <3>1, <3>2 DEF EndsWithReadback, ReadbackLast
    <2> QED
      BY <2>1, <2>2 DEF EndsWithReadback
  <1>3. CASE Receive
    <2>1. ReadbackLast(todo') /\ Len(todo') >= 4 /\ pc' # "send"
      BY <1>3, PassTodo DEF Receive
    <2> QED
      BY <2>1 DEF EndsWithReadback, ReadbackLast
  <1>4. CASE OwnStatus \/ AdjustGain
    BY <1>4 DEF OwnStatus, AdjustGain, EndsWithReadback
  <1>5. CASE OpenFails \/ EndInit \/ EndReadback \/ SendStatus \/ EndPass \/ Open \/ Close \/ Joined
    <2>1. UNCHANGED <<stage, todo>> /\ pc' # "open" /\ (pc' = "send" => stage = "loop" /\ todo = <<>>)
      BY <1>5 DEF OpenFails, EndInit, EndReadback, SendStatus, EndPass, Open, Close, Joined
    <2> QED
      BY <2>1 DEF EndsWithReadback, ReadbackLast
  <1>6. CASE Reading \/ Library \/ Late \/ Unanswered
    BY <1>6, PlaceFrame DEF EndsWithReadback, ReadbackLast
  <1>7. CASE DongleAnswers \/ CommandHangs \/ Unplug \/ OtherProgram \/ UNCHANGED vars
    BY <1>7 DEF DongleAnswers, CommandHangs, Unplug, OtherProgram, EndsWithReadback,
       ReadbackLast, vars, clientVars
  <1> QED
    BY <1>1, <1>2, <1>3, <1>4, <1>5, <1>6, <1>7 DEF Next, Ncmd

\* A queue of one.
LEMMA OneQueued ==
  ASSUME NEW x \in Exchange
  PROVE  /\ Append(<<>>, x) = <<x>> /\ <<x>> # <<>> /\ Head(<<x>>) = x /\ Tail(<<x>>) = <<>>
         /\ GiveUp(<<>>) = <<>> /\ Len(<<>>) = 0
         /\ \E y \in Exchange : GiveUp(<<x>>) = <<y>> /\ y.cmd = x.cmd /\ y.val = x.val
  <1>1. Append(<<>>, x) = <<x>> /\ <<x>> # <<>> /\ Head(<<x>>) = x /\ Tail(<<x>>) = <<>>
    OBVIOUS
  <1>2. <<x>> \in Seq(Exchange) /\ Len(<<x>>) = 1 /\ <<x>>[1] = x /\ DOMAIN <<x>> = 1..1
    OBVIOUS
  <1>3. GiveUp(<<>>) = <<>> /\ Len(<<>>) = 0
    BY EmptySeq, GivenUp
  <1> DEFINE q == <<x>>
             g == GiveUp(q)
  <1>4. q \in Seq(Exchange) /\ Len(q) = 1 /\ q[1] = x /\ 1 \in DOMAIN q
    BY <1>2
  <1> HIDE DEF q
  <1>5. /\ g \in Seq(Exchange) /\ Len(g) = 1
        /\ g[1].cmd = x.cmd /\ g[1].val = x.val
    BY <1>4, GivenUp
  <1> HIDE DEF g
  <1>6. ASSUME NEW s \in Seq(Exchange), Len(s) = 1 PROVE s[1] \in Exchange /\ s = <<s[1]>>
    BY <1>6
  <1>7. g[1] \in Exchange /\ g = <<g[1]>>
    BY <1>5, <1>6
  <1> QED
    BY <1>1, <1>3, <1>5, <1>7 DEF g, q

\* Steps that leave the thread, the settings and the stored ones alone have only
\* what is on its way to answer for.
LEMMA ReadbackKept ==
  ASSUME ReadbackOK, UNCHANGED <<stage, todo, sure, pc, sdr, dongle>>,
         Nothing => Nothing',
         pc = "reading" /\ OneReading(Head(todo).cmd) /\ InReadback => OneReading(Head(todo).cmd)'
  PROVE  ReadbackOK'
  BY DEF ReadbackOK, InReadback, ReadSoFar

\* A command is written when nothing else is on its way.
LEMMA ReadbackWrites ==
  ASSUME TypeOK, Place, NoneAwaited, EndsWithReadback, ReadbackOK, WriteCommand
  PROVE  ReadbackOK'
  <1> DEFINE h == Head(todo)
  <1>1. SUFFICES ASSUME InReadback' PROVE ReadbackOK'
    BY DEF ReadbackOK
  <1>2. /\ InReadback /\ ~LateOnes /\ stage = "loop" /\ todo # <<>> /\ pc = "next" /\ reader = "out"
        /\ UNCHANGED <<todo, dongle, reports, outbox>> /\ pc' = "reading" /\ reader' = "test"
    BY <1>1 DEF WriteCommand, InReadback, Place, libVars
  <1>3. h \in Exchange /\ h.cmd \in Gets
    BY <1>2, LoopExchange, QueueTypes DEF InReadback, TypeOK
  <1>4. asked = <<>> /\ outbox = <<>> /\ reports = <<>>
    <2>1. ASSUME NEW s \in {asked, outbox, reports} PROVE s = <<>>
      <3>1. s \in Seq(Exchange) /\ AllLate(s)
        BY <1>2 DEF TypeOK, HidTypeOK, NoneAwaited
      <3>2. ~\E i \in DOMAIN s : s[i].late
        BY <1>2 DEF LateOnes
      <3>3. DOMAIN s = {}
        BY <3>1, <3>2 DEF AllLate
      <3> QED
        BY <3>1, <3>3, EmptyQueue
    <2> QED
      BY <2>1
  <1>5. OnWire(h) \in Exchange /\ OnWire(h).cmd = h.cmd /\ Stored(h) = sdr
    BY <1>3, ExchangeTypes DEF Sets, Gets
  <1>6. sdr' = sdr /\ (asked' = <<>> \/ asked' = <<OnWire(h)>>)
    BY <1>4, <1>5, OneQueued DEF WriteCommand, Write
  <1>7. OneReading(h.cmd)'
    BY <1>2, <1>4, <1>5, <1>6 DEF OneReading, Nothing
  <1>8. ReadSoFar'
    BY <1>2, <1>6 DEF ReadbackOK, ReadSoFar
  <1> QED
    BY <1>2, <1>7, <1>8 DEF ReadbackOK

\* What a reading returns is stored.
LEMMA ReadbackStores ==
  ASSUME TypeOK, Place, EndsWithReadback, ReadbackOK, FinishExchange
  PROVE  ReadbackOK'
  <1>1. SUFFICES ASSUME InReadback' PROVE ReadbackOK'
    BY DEF ReadbackOK
  <1>2. /\ stage = "loop" /\ todo # <<>> /\ todo \in Seq(Exchange) /\ pc = "reading" /\ reader = "out"
        /\ pc' = "next" /\ UNCHANGED <<dongle, asked, outbox, reports>>
        /\ sdr' = ReadbackOf(Head(todo).cmd)
    BY <1>1 DEF FinishExchange, Answered, InReadback, Place, TypeOK, libVars, deviceVars
  <1>3. todo' = Tail(todo)
    BY <1>2, LoopExchange DEF FinishExchange
  <1>4. /\ Len(todo') = Len(todo) - 1 /\ Len(todo) \in Nat /\ Len(todo) >= 1
        /\ Len(todo) = 4 => Head(todo).cmd = "getlna"
        /\ Len(todo) = 3 => Head(todo).cmd = "getmixer"
        /\ Len(todo) = 2 => Head(todo).cmd = "getif"
        /\ Len(todo) = 1 => Head(todo).cmd = "getfreq"
    BY <1>2, <1>3, NextReading DEF EndsWithReadback
  <1>5. CASE Len(todo) > 4
    BY <1>2, <1>4, <1>5 DEF ReadbackOK, ReadSoFar
  <1>6. CASE Len(todo) <= 4
    <2> DEFINE cmd == Head(todo).cmd
    <2>1. cmd \in Gets /\ cmd \notin Sets
      BY <1>2, <1>6, LoopExchange DEF Gets, Sets
    <2>2. sure /\ answer \notin {Failed, TimedOut}
      BY <1>1, <2>1 DEF FinishExchange, InReadback
    <2>3. OneReading(cmd) /\ ReadSoFar
      BY <1>2, <1>6, <2>2 DEF ReadbackOK, InReadback
    <2>4. Nothing /\ Data(cmd) = dongle[Register(cmd)]
      BY <1>2, <2>2, <2>3 DEF OneReading, Data
    <2>5. Nothing'
      BY <1>2, <2>4 DEF Nothing
    <2>6. sdr \in [Sets -> Nat] /\ dongle \in [Sets -> Nat]
      BY DEF TypeOK
    <2>7. ReadSoFar'
      <3> USE DEF ReadSoFar, Register, Sets
      <3>1. CASE Len(todo) = 4
        <4>1. sdr'.lna = LnaGain(dongle.lna, sdr.freq)
          BY <1>2, <1>4, <2>4, <2>6, <3>1 DEF ReadbackOf
        <4>2. (sdr'.lna = 0) = (dongle.lna = 0)
          BY <4>1 DEF LnaGain
        <4> QED
          BY <1>2, <1>4, <3>1, <4>2
      <3>2. CASE Len(todo) = 3
        BY <1>2, <1>4, <2>3, <2>4, <2>6, <3>2 DEF ReadbackOf
      <3>3. CASE Len(todo) = 2
        BY <1>2, <1>4, <2>3, <2>4, <2>6, <3>3 DEF ReadbackOf
      <3>4. CASE Len(todo) = 1
        BY <1>2, <1>4, <2>3, <2>4, <2>6, <3>4 DEF ReadbackOf
      <3> HIDE DEF ReadSoFar, Register, Sets
      <3>5. Len(todo) \in {1, 2, 3, 4}
        <4> DEFINE n == Len(todo)
        <4>1. n \in Nat /\ n >= 1 /\ n <= 4
          BY <1>4, <1>6
        <4> HIDE DEF n
        <4>2. n \in {1, 2, 3, 4}
          BY <4>1
        <4> QED
          BY <4>2 DEF n
      <3> QED
        BY <3>1, <3>2, <3>3, <3>4, <3>5
    <2> QED
      BY <1>2, <2>5, <2>7 DEF ReadbackOK
  <1> QED
    BY <1>4, <1>5, <1>6

\* The thread's other steps: a readback begins with everything left to read.
LEMMA ReadbackAside ==
  ASSUME TypeOK, Place, EndsWithReadback, ReadbackOK, Aside \/ Retry \/ Open \/ Close \/ Joined
  PROVE  ReadbackOK'
  <1>1. CASE Receive
    <2>1. Len(todo') >= 4 /\ todo' \in Seq(Exchange) /\ pc' # "reading"
      BY <1>1, PassTodo DEF Receive
    <2>2. Len(todo') \in Nat
      BY <2>1, EmptyQueue
    <2> QED
      BY <2>1, <2>2 DEF ReadbackOK, ReadSoFar
  <1>2. CASE OwnStatus \/ OpenFails \/ EndInit \/ SendStatus \/ AdjustGain \/ EndPass
               \/ Close \/ Joined
    <2>1. stage' # "loop" \/ pc' \notin {"next", "reading", "send"}
      BY <1>2 DEF OwnStatus, OpenFails, EndInit, SendStatus, AdjustGain, EndPass, Close, Joined
    <2> QED
      BY <2>1 DEF ReadbackOK, InReadback
  <1>3. CASE EndReadback
    <2>1. /\ UNCHANGED <<stage, todo, sure, sdr, dongle, asked, outbox, reports>>
          /\ pc = "next" /\ pc' = "send"
      BY <1>3 DEF EndReadback, libVars, deviceVars
    <2> QED
      BY <2>1 DEF ReadbackOK, InReadback, ReadSoFar, Nothing
  <1>4. CASE Retry
    <2>1. UNCHANGED <<stage, todo, sure>> /\ todo # <<>> /\ Head(todo).cmd = "freq"
      BY <1>4 DEF Retry, Answered, Place
    <2>2. ~InReadback
      BY <2>1, LoopExchange DEF InReadback, Gets
    <2> QED
      BY <2>1, <2>2 DEF ReadbackOK, InReadback
  <1>5. CASE Open
    <2>1. UNCHANGED <<stage, todo>> /\ pc = "open" /\ pc' = "next"
      BY <1>5 DEF Open
    <2>2. stage = "loop" => Len(todo) >= 4 /\ Len(todo) \in Nat
      BY <2>1, EmptyQueue DEF EndsWithReadback, TypeOK
    <2> QED
      BY <2>1, <2>2 DEF ReadbackOK, InReadback, ReadSoFar
  <1> QED
    BY <1>1, <1>2, <1>3, <1>4, <1>5 DEF Aside

\* The answer travels from the device to the thread, or is lost.
LEMMA ReadbackTravels ==
  ASSUME TypeOK, Place, EndsWithReadback, ReadbackOK,
         Reading \/ Library \/ Late \/ Unanswered \/ Unplug
  PROVE  ReadbackOK'
  <1> DEFINE cmd == Head(todo).cmd
             v == dongle[Register(cmd)]
  <1> HIDE DEF v
  <1>1. UNCHANGED <<stage, todo, sure, pc, sdr, dongle>>
    BY PlaceFrame DEF Unplug
  <1>2. v' = v
    BY <1>1 DEF v, Register
  <1>3. CASE Reading /\ TakeReport
    <2>1. /\ reports # <<>> /\ answer' = Head(reports) /\ ~Nothing /\ reader # "out"
          /\ UNCHANGED <<asked, outbox>> \/ (asked' = GiveUp(asked) /\ outbox' = GiveUp(outbox))
          /\ reports' = Tail(reports) \/ reports' = GiveUp(Tail(reports))
      BY <1>3 DEF TakeReport, Nothing, Reading, TestQueue, Wait
    <2>2. ASSUME OneReading(cmd) PROVE OneReading(cmd)'
      <3>1. PICK x \in Exchange : x.val = v /\ asked = <<>> /\ outbox = <<>> /\ reports = <<x>>
        BY <2>1, <2>2 DEF OneReading, v
      <3>2. asked' = <<>> /\ outbox' = <<>> /\ reports' = <<>> /\ answer'.val = v
        BY <2>1, <3>1, OneQueued
      <3> QED
        BY <1>2, <3>2 DEF OneReading, Nothing, v
    <2> QED
      BY <1>1, <2>1, <2>2, ReadbackKept
  <1>4. CASE Library /\ Received
    <2>1. /\ outbox # <<>> /\ ~Nothing /\ outbox' = Tail(outbox) /\ UNCHANGED <<asked, answer>>
          /\ reports = <<>> => reports' = Append(reports, Head(outbox))
          /\ reader' = "out" => reader = "out"
      <3>1. reports = <<>> => ~(Len(reports) > QueueLimit + 1)
        BY HidAssumption, EmptySeq
      <3> QED
        BY <1>4, <3>1 DEF Received, Nothing
    <2>2. ASSUME OneReading(cmd) PROVE OneReading(cmd)'
      <3>1. PICK x \in Exchange : x.val = v /\ asked = <<>> /\ outbox = <<x>> /\ reports = <<>>
        BY <2>1, <2>2 DEF OneReading, v
      <3>2. asked' = <<>> /\ outbox' = <<>> /\ reports' = <<x>>
        BY <2>1, <3>1, OneQueued
      <3>3. reader' = "out" => answer' \in {Failed, TimedOut}
        BY <2>1, <2>2 DEF OneReading
      <3> QED
        BY <1>2, <3>1, <3>2, <3>3 DEF OneReading, v
    <2> QED
      BY <1>1, <2>1, <2>2, ReadbackKept
  <1>5. CASE Late \/ Unanswered
    <2>1. /\ asked' = GiveUp(asked) /\ outbox' = GiveUp(outbox) /\ reports' = GiveUp(reports)
          /\ answer' = TimedOut
      BY <1>5 DEF Late, Unanswered, ReadTimesOut
    <2>2. GiveUp(<<>>) = <<>>
      BY EmptySeq, GivenUp
    <2>3. Nothing => Nothing'
      BY <2>1, <2>2 DEF Nothing
    <2>4. ASSUME OneReading(cmd) PROVE OneReading(cmd)'
      <3>1. CASE Nothing
        BY <2>1, <2>3, <3>1 DEF OneReading
      <3>2. CASE ~Nothing
        <4>1. CASE asked # <<>>
          <5>1. PICK x \in Exchange : x.cmd = cmd /\ asked = <<x>> /\ outbox = <<>> /\ reports = <<>>
            BY <2>4, <3>2, <4>1 DEF OneReading
          <5>2. PICK y \in Exchange : GiveUp(<<x>>) = <<y>> /\ y.cmd = x.cmd
            BY OneQueued
          <5>3. asked' = <<y>> /\ outbox' = <<>> /\ reports' = <<>> /\ y.cmd = cmd
            BY <2>1, <2>2, <5>1, <5>2
          <5> QED
            BY <1>1, <2>1, <5>3 DEF OneReading
        <4>2. CASE outbox # <<>>
          <5>1. PICK x \in Exchange : x.val = v /\ asked = <<>> /\ outbox = <<x>> /\ reports = <<>>
            BY <2>4, <3>2, <4>2 DEF OneReading, v
          <5>2. PICK y \in Exchange : GiveUp(<<x>>) = <<y>> /\ y.val = x.val
            BY OneQueued
          <5>3. asked' = <<>> /\ outbox' = <<y>> /\ reports' = <<>> /\ y.val = v
            BY <2>1, <2>2, <5>1, <5>2
          <5> QED
            BY <1>2, <2>1, <5>3 DEF OneReading, v
        <4>3. CASE reports # <<>>
          <5>1. PICK x \in Exchange : x.val = v /\ asked = <<>> /\ outbox = <<>> /\ reports = <<x>>
            BY <2>4, <3>2, <4>3 DEF OneReading, v
          <5>2. PICK y \in Exchange : GiveUp(<<x>>) = <<y>> /\ y.val = x.val
            BY OneQueued
          <5>3. asked' = <<>> /\ outbox' = <<>> /\ reports' = <<y>> /\ y.val = v
            BY <2>1, <2>2, <5>1, <5>2
          <5> QED
            BY <1>2, <2>1, <5>3 DEF OneReading, v
        <4> QED
          BY <3>2, <4>1, <4>2, <4>3 DEF Nothing
      <3> QED
        BY <3>1, <3>2
    <2> QED
      BY <1>1, <2>3, <2>4, ReadbackKept
  <1>6. CASE Unplug
    <2>1. asked' = <<>> /\ outbox' = <<>> /\ UNCHANGED <<reports, reader, answer>>
      BY <1>6 DEF Unplug, libVars, readVars
    <2>2. ASSUME OneReading(cmd) PROVE OneReading(cmd)'
      <3>1. Nothing => Nothing'
        BY <2>1 DEF Nothing
      <3>2. reports # <<>> => \E x \in Exchange : x.val = v /\ reports = <<x>>
        BY <2>2 DEF OneReading, Nothing, v
      <3>3. reader' = "out" /\ answer' \notin {Failed, TimedOut} => Nothing' /\ answer'.val = v'
        BY <1>2, <2>1, <2>2, <3>1 DEF OneReading, v
      <3> QED
        BY <1>2, <2>1, <3>2, <3>3 DEF OneReading, Nothing, v
    <2> QED
      BY <1>1, <2>1, <2>2, ReadbackKept DEF Nothing
  <1>7. CASE UNCHANGED <<asked, outbox, reports>>
               /\ (reader' = "out" => (reader = "out" /\ answer' = answer) \/ answer' = Failed)
    <2>1. Nothing => Nothing'
      BY <1>7 DEF Nothing
    <2>2. ASSUME OneReading(cmd) PROVE OneReading(cmd)'
      BY <1>1, <1>2, <1>7, <2>1, <2>2 DEF OneReading, v
    <2> QED
      BY <1>1, <2>1, <2>2, ReadbackKept
  <1>8. ASSUME (Reading /\ ~TakeReport) \/ (Library /\ ~Received)
        PROVE  UNCHANGED <<asked, outbox, reports>>
                 /\ (reader' = "out" => (reader = "out" /\ answer' = answer) \/ answer' = Failed)
    BY <1>8 DEF Reading, TestQueue, Wait, Library, ReadThread, NothingReceived, Resubmit,
       TransferEnds, LeaveLoop, StopThread, SpuriousWakeup, libVars, readVars, deviceVars
  <1> QED
    BY <1>3, <1>4, <1>5, <1>6, <1>7, <1>8

\* The dongle treats a reading, and nothing else, during a readback.
LEMMA ReadbackTreated ==
  ASSUME TypeOK, Place, EndsWithReadback, ReadbackOK, DongleAnswers \/ CommandHangs
  PROVE  ReadbackOK'
  <1> DEFINE cmd == Head(todo).cmd
  <1>1. /\ UNCHANGED <<stage, todo, sure, pc, sdr, reports, reader, answer>>
        /\ asked # <<>> /\ asked' = Tail(asked)
        /\ outbox' = outbox \/ outbox' = Append(outbox, Treated(Head(asked)))
        /\ Head(asked).cmd \notin Sets => dongle' = dongle
    BY DEF DongleAnswers, CommandHangs, libVars, readVars
  <1>2. ~Nothing
    BY <1>1 DEF Nothing
  <1>3. SUFFICES ASSUME InReadback' PROVE ReadbackOK'
    BY DEF ReadbackOK
  <1>4. InReadback /\ stage = "loop" /\ Len(todo) <= 4 /\ Len(todo) \in Nat
    BY <1>1, <1>3, EmptyQueue DEF InReadback, TypeOK
  <1>5. CASE pc = "reading"
    <2>1. OneReading(cmd) /\ ReadSoFar /\ todo # <<>>
      BY <1>4, <1>5 DEF ReadbackOK, Place
    <2>2. PICK x \in Exchange : x.cmd = cmd /\ asked = <<x>> /\ outbox = <<>> /\ reports = <<>>
      BY <1>1, <1>2, <2>1 DEF OneReading
    <2>3. cmd \in Gets /\ cmd \notin Sets
      BY <1>4, <2>1, LoopExchange DEF Gets, Sets
    <2>4. Head(asked) = x /\ asked' = <<>> /\ dongle' = dongle
      BY <1>1, <2>2, <2>3, OneQueued
    <2>5. Treated(x) \in Exchange /\ Treated(x).val = dongle[Register(cmd)]
      BY <2>2, <2>3, ExchangeTypes
    <2>6. outbox' = <<>> \/ outbox' = <<Treated(x)>>
      BY <1>1, <2>2, <2>4, <2>5, OneQueued
    <2>7. reader' = "out" => answer' \in {Failed, TimedOut}
      BY <1>1, <1>2, <2>1 DEF OneReading
    <2>8. OneReading(cmd)'
      BY <1>1, <2>2, <2>4, <2>5, <2>6, <2>7 DEF OneReading, Nothing
    <2>9. ReadSoFar'
      BY <1>1, <2>1, <2>4 DEF ReadSoFar
    <2> QED
      BY <1>1, <1>5, <2>8, <2>9 DEF ReadbackOK
  <1>6. CASE pc \in {"next", "send"}
    <2>1. ~(Len(todo) <= 3)
      BY <1>2, <1>4, <1>6 DEF ReadbackOK
    <2> QED
      BY <1>1, <1>4, <1>6, <2>1 DEF ReadbackOK, ReadSoFar
  <1>7. CASE pc \notin {"next", "reading", "send"}
    BY <1>1, <1>7 DEF ReadbackOK
  <1> QED
    BY <1>5, <1>6, <1>7

\* A readback stays one of single exchanges.
LEMMA ReadbackStep ==
  ASSUME TypeOK, Place, NoneAwaited, EndsWithReadback, ReadbackOK, [Next]_vars
  PROVE  ReadbackOK'
  <1>1. CASE OtherProgram
    <2>1. pc' \notin {"next", "reading", "send"}
      BY <1>1 DEF OtherProgram, Place
    <2> QED
      BY <2>1 DEF ReadbackOK
  <1>2. CASE UNCHANGED vars
    BY <1>2 DEF ReadbackOK, InReadback, OneReading, ReadSoFar, Nothing, Register, vars,
       clientVars, libVars, readVars, deviceVars
  <1> QED
    BY <1>1, <1>2, ReadbackWrites, ReadbackStores, ReadbackAside, ReadbackTravels,
       ReadbackTreated DEF Next, Ncmd, Aside

-----------------------------------------------------------------------------
(* The invariant *)

IInv ==
  /\ TypeOK /\ TransferHeld /\ ShutMeansGone /\ Place
  /\ OnlyLastAwaited /\ NoneAwaited
  /\ EndsWithReadback /\ ReadbackOK

\* The invariant holds at the start and every step keeps it.
THEOREM Inductive == Spec => []IInv
  <1>1. Init => IInv
    <2> SUFFICES ASSUME Init PROVE IInv
      OBVIOUS
    <2>1. /\ FirstSetting \in [Sets -> Nat] /\ HoldChoices \subseteq BOOLEAN
          /\ MaxTries \in Nat \ {0} /\ MaxPasses \in Nat /\ MaxTroubles \in Nat
      BY ControlAssumption
    <2>2. <<QueryMode, QueryCaps>> \in Seq(Exchange) /\ <<QueryMode, QueryCaps>> # <<>>
      BY ReadbackType
    <2>3. <<>> \in Seq(Exchange) /\ AllLate(<<>>)
      BY EmptySeq DEF AllLate
    <2>4. HidTypeOK(Exchange, Exchange)
      BY <2>3 DEF Init, HidInit, HidTypeOK
    <2>5. {initOK, noHoldOpen, sure} \subseteq BOOLEAN
      BY <2>1 DEF Init
    <2>6. TypeOK
      BY <2>1, <2>2, <2>4, <2>5 DEF Init, TypeOK
    <2>7. FrontLate(<<>>)
      BY <2>3, LateOf
    <2>8. TransferHeld /\ ShutMeansGone /\ OnlyLastAwaited /\ NoneAwaited
      BY <2>3, <2>7 DEF Init, HidInit, TransferHeld, ShutMeansGone, OnlyLastAwaited, NoneAwaited
    <2>9. Place /\ EndsWithReadback /\ ReadbackOK
      BY <2>1 DEF Init, HidInit, Place, EndsWithReadback, ReadbackOK, InReadback
    <2> QED
      BY <2>6, <2>8, <2>9 DEF IInv
  <1>2. IInv /\ [Next]_vars => IInv'
    BY TypeStep, TransferHeldStep, ShutMeansGoneStep, PlaceStep, OrderStep, EndsWithReadbackStep,
       ReadbackStep DEF IInv
  <1> QED
    BY <1>1, <1>2, PTL DEF Spec

\* Exchanges, settings and queues have their types, whatever is commanded, lost
\* or late.
THEOREM TypeCorrect == Spec => []TypeOK
  <1>1. IInv => TypeOK
    BY DEF IInv
  <1> QED
    BY <1>1, Inductive, PTL

\* A status that readback had no trouble with tells what the dongle is set to,
\* whatever was commanded, retried, lost or late before: the thread reads after
\* each write, and an answer given up on is not mistaken for another's.
THEOREM StatusTrueThm == Spec => []StatusTrue
  <1>1. IInv => StatusTrue
    <2> SUFFICES ASSUME IInv, pc = "send", sure PROVE StatusTrue
      BY DEF StatusTrue
    <2>1. stage = "loop" /\ Len(todo) = 0
      BY EmptySeq DEF IInv, EndsWithReadback
    <2>2. ReadSoFar
      BY <2>1 DEF IInv, ReadbackOK, InReadback
    <2> QED
      BY <2>1, <2>2 DEF ReadSoFar, StatusTrue
  <1> QED
    BY <1>1, Inductive, PTL
=============================================================================
