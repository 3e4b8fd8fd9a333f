---------------------------- MODULE TuningProofs ----------------------------
(***************************************************************************)
(* For any frequencies, sample rate, tuner step and queue sizes: radio is  *)
(* on the operator's frequency whenever no command is under way and it     *)
(* knows the tuner's frequency.                                            *)
(*                                                                         *)
(* What makes it so is what will be the tuner's frequency once it has      *)
(* obeyed the commands under way.  Either LO2 suits the frequency radio    *)
(* knows, or the tuner will end up on another one: then its status will    *)
(* differ from what radio knows and have LO2 recalculated.                 *)
(*                                                                         *)
(* The other conversation over status packets is with the control programs *)
(* (the second half): for any number of them, the steps of the arrow keys  *)
(* add up as far as each control has worked from the newest frequency.     *)
(***************************************************************************)
EXTENDS Tuning, RemoteControl, SequenceTheorems, TLAPS

\* The tuner's frequency once it has obeyed all commands under way.
Final == IF ctl = <<>> THEN lo1 ELSE Actual(ctl[Len(ctl)])

Recoverable == astray \/ ~Waiting \/ Final # known

IInv == TypeOK /\ Recoverable

-----------------------------------------------------------------------------

\* The tuner is less than one step below what it was asked for.
LEMMA ActualBounds ==
  ASSUME NEW f \in Tuner
  PROVE  Actual(f) \in Tuner /\ f - Actual(f) \in 0..Quantum - 1
  <1>1. Quantum \in Nat \ {0} /\ f \in Int
    BY TuningAssumption DEF Tuner
  <1>2. f % Quantum \in 0..Quantum - 1
    BY <1>1
  <1>3. f % Quantum <= f
    BY <1>1, <1>2 DEF Tuner
  <1> QED
    BY <1>1, <1>2, <1>3, TuningAssumption DEF Actual, Tuner

\* A queue is empty just when its length is zero.
LEMMA EmptyQueue ==
  ASSUME NEW queue \in Seq(Tuner)
  PROVE  Len(queue) \in Nat /\ (queue = <<>> <=> Len(queue) = 0)
  <1>1. \A q \in Seq(Tuner) : q # <<>> => Len(q) \in Nat \ {0}
    BY EmptySeq
  <1>2. Len(<<>>) = 0
    BY EmptySeq
  <1> QED
    BY <1>1, <1>2

\* Taking the first of several packets leaves the last one in place.
LEMMA LastSurvives ==
  ASSUME NEW queue \in Seq(Tuner), queue # <<>>, Len(queue) # 1
  PROVE  Tail(queue) # <<>> /\ Tail(queue)[Len(Tail(queue))] = queue[Len(queue)]
  <1>1. Len(queue) \in Nat /\ Len(queue) > 1
    <2>1. Len(queue) \in Nat /\ Len(queue) # 0
      BY EmptyQueue
    <2>2. \A n \in Nat : n # 0 /\ n # 1 => n > 1
      OBVIOUS
    <2> QED
      BY <2>1, <2>2
  <1>2. /\ Tail(queue) \in Seq(Tuner) /\ Len(Tail(queue)) = Len(queue) - 1
        /\ \A i \in 1..Len(Tail(queue)) : Tail(queue)[i] = queue[i + 1]
    BY HeadTailProperties
  <1>3. Tail(queue) # <<>>
    BY <1>1, <1>2, EmptyQueue
  <1> QED
    BY <1>1, <1>2, <1>3

\* A queue that packets of a kind are sent to holds only that kind, and no more
\* than it has room for; a packet that gets in is the last.
LEMMA SendQueues ==
  ASSUME NEW queue \in Seq(Tuner), Len(queue) <= QueueSize,
         NEW packet \in Tuner, NEW arrives \in BOOLEAN
  PROVE  /\ Send(queue, packet, arrives) \in Seq(Tuner)
         /\ Len(Send(queue, packet, arrives)) <= QueueSize
         /\ \/ Send(queue, packet, arrives) = queue
            \/ /\ Send(queue, packet, arrives) # <<>>
               /\ Send(queue, packet, arrives)[Len(Send(queue, packet, arrives))] = packet
  <1>1. QueueSize \in Nat
    BY TuningAssumption
  <1>2. CASE arrives /\ Len(queue) < QueueSize
    <2> DEFINE longer == Append(queue, packet)
    <2>1. longer \in Seq(Tuner) /\ Len(longer) = Len(queue) + 1 /\ longer[Len(longer)] = packet
      OBVIOUS
    <2>2. longer # <<>>
      BY <2>1
    <2>3. Send(queue, packet, arrives) = longer
      BY <1>2 DEF Send
    <2> QED
      BY <2>1, <2>2, <2>3, <1>1, <1>2
  <1>3. CASE ~(arrives /\ Len(queue) < QueueSize)
    BY <1>3 DEF Send
  <1> QED
    BY <1>2, <1>3

\* The LO2 that set_freq chooses is always one that it then sets.
LEMMA ChosenIsUsable ==
  ASSUME TypeOK, NEW f \in Tuner
  PROVE  ChosenLO2(f) \in Int /\ WithinNyquist(ChosenLO2(f))
  <1> DEFINE quarter == Samprate \div 4
  <1>1. /\ Samprate \in Nat /\ MaxIF \in Nat /\ 2 * MaxIF <= Samprate
        /\ Low \in Int /\ High \in Int
    BY TuningAssumption
  <1>2. quarter \in Nat /\ 4 * quarter <= Samprate
    BY <1>1
  <1>3. f \in Int /\ known \in Int
    BY DEF TypeOK, Tuner
  <1>4. CASE ClearOfAliases(known - f)
    BY <1>1, <1>3, <1>4
    DEF ChosenLO2, ClearOfAliases, WithinNyquist, Most, Least, Abs
  <1>5. CASE ~ClearOfAliases(known - f)
    <2>1. ChosenLO2(f) \in {0, -quarter, quarter}
      BY <1>5 DEF ChosenLO2
    <2> HIDE DEF quarter
    <2>2. \A x \in {0, -quarter, quarter} : x \in Int /\ 2 * Abs(x) <= Samprate
      BY <1>1, <1>2 DEF Abs
    <2> QED
      BY <2>1, <2>2 DEF WithinNyquist
  <1> QED
    BY <1>4, <1>5

\* set_first_LO keeps the queue of commands well-formed; if it sends, the
\* tuner will end up where it was told.
LEMMA CommandStep ==
  ASSUME TypeOK, NEW f \in Int, f <= TopFreq, NEW arrives \in BOOLEAN,
         Command(f, arrives)
  PROVE  /\ ctl' \in Seq(Tuner) /\ Len(ctl') <= QueueSize
         /\ \/ ctl' = ctl
            \/ f # known /\ f \in Tuner /\ ctl' # <<>> /\ ctl'[Len(ctl')] = f
  <1>1. CASE NeedsCommand(f)
    <2>1. f \in Tuner /\ f # known
      BY <1>1, TuningAssumption DEF NeedsCommand, Tuner
    <2>2. ctl' = Send(ctl, f, arrives)
      BY <1>1 DEF Command
    <2>3. ctl \in Seq(Tuner) /\ Len(ctl) <= QueueSize
      BY DEF TypeOK
    <2> QED
      BY <2>1, <2>2, <2>3, SendQueues
  <1>2. CASE ~NeedsCommand(f)
    BY <1>2 DEF Command, TypeOK
  <1> QED
    BY <1>1, <1>2

\* set_freq, with a usable LO2.
LEMMA RetuneStep ==
  ASSUME TypeOK, NEW f \in Tuner, NEW l \in Int, WithinNyquist(l),
         NEW arrives \in BOOLEAN, Retune(f, l, arrives), known' = known, lo1' = lo1
  PROVE  /\ freq' \in Tuner /\ lo2' \in Int /\ astray' \in BOOLEAN
         /\ ctl' \in Seq(Tuner) /\ Len(ctl') <= QueueSize
         /\ Recoverable'
  <1>1. /\ freq' = f /\ lo2' = l /\ f + l \in Int /\ f + l <= TopFreq
        /\ Command(f + l, arrives)
        /\ astray' = (f + l # known /\ ctl' = ctl)
    BY DEF Retune, Tuner
  <1>2. /\ ctl' \in Seq(Tuner) /\ Len(ctl') <= QueueSize
        /\ \/ ctl' = ctl
           \/ /\ f + l # known /\ f + l \in Tuner
              /\ ctl' # <<>> /\ ctl'[Len(ctl')] = f + l
    BY <1>1, CommandStep
  <1>3. Quantum \in Nat \ {0} /\ known \in Int /\ f \in Int
    BY TuningAssumption DEF TypeOK, Tuner
  <1>4. Recoverable'
    <2>1. CASE f + l = known
      <3>1. freq' + lo2' - known' = 0
        BY <1>1, <1>3, <2>1
      <3> QED
        BY <3>1, <1>3 DEF Recoverable, Waiting, Abs
    <2>2. CASE f + l # known /\ ctl' = ctl
      BY <1>1, <2>2 DEF Recoverable
    <2>3. CASE ctl' # ctl
      <3>1. f + l \in Tuner /\ Final' = Actual(f + l)
        BY <1>2, <2>3 DEF Final, Actual
      <3>2. f + l - Actual(f + l) \in 0..Quantum - 1 /\ Actual(f + l) \in Int
        BY <3>1, ActualBounds DEF Tuner
      <3>3. CASE Actual(f + l) = known
        <4>1. freq' + lo2' - known' \in 0..Quantum - 1
          BY <1>1, <3>2, <3>3
        <4> QED
          BY <4>1, <1>3 DEF Recoverable, Waiting, Abs
      <3>4. CASE Actual(f + l) # known
        BY <3>1, <3>4 DEF Recoverable
      <3> QED
        BY <3>3, <3>4
    <2> QED
      BY <2>1, <2>2, <2>3
  <1> QED
    BY <1>1, <1>2, <1>4 DEF Tuner

-----------------------------------------------------------------------------

\* Every operator's command preserves the invariant.
LEMMA CommandsPreserve ==
  ASSUME IInv,
         \/ \E f \in Freqs : SetFreq(f)
         \/ \E f \in Freqs, l \in LO2s : SetFreqAndLO2(f, l)
         \/ \E l \in LO2s : TuneAround(l)
         \/ \E f \in Freqs : SetFirstLO(f)
  PROVE  IInv'
  <1>1. TypeOK /\ Recoverable
    BY DEF IInv
  <1>2. /\ TopFreq \in Nat /\ Samprate \in Nat /\ MaxCommands \in Nat
        /\ Freqs \subseteq 1..TopFreq - Samprate /\ LO2s \subseteq Int
    BY TuningAssumption
  <1>3. Freqs \subseteq Tuner /\ Freqs \subseteq Int /\ \A f \in Freqs : f <= TopFreq
    BY <1>2 DEF Tuner
  <1>4. ASSUME UserCommand
        PROVE  /\ known' \in Tuner /\ known' = known /\ lo1' = lo1
               /\ status' \in Seq(Tuner) /\ Len(status') <= QueueSize
               /\ lo1' \in Tuner /\ told' \in Tuner /\ counter' \in 0..FullEvery
               /\ commands' \in 0..MaxCommands /\ others' \in 0..MaxOthers
    BY <1>1, <1>2, <1>4 DEF UserCommand, frontVars, TypeOK
  <1>5. ASSUME UserCommand, NEW f \in Tuner, NEW l \in Int, WithinNyquist(l),
               NEW arrives \in BOOLEAN, Retune(f, l, arrives),
               choice' \in {"none", "informed", "stale"}
        PROVE  IInv'
    BY <1>1, <1>4, <1>5, RetuneStep DEF IInv, TypeOK
  <1>6. ASSUME NEW f \in Freqs, SetFreq(f) PROVE IInv'
    BY <1>1, <1>3, <1>5, <1>6, ChosenIsUsable DEF SetFreq
  <1>7. ASSUME NEW f \in Freqs, NEW l \in LO2s, SetFreqAndLO2(f, l) PROVE IInv'
    <2>1. /\ (IF WithinNyquist(l) THEN l ELSE ChosenLO2(f)) \in Int
          /\ WithinNyquist(IF WithinNyquist(l) THEN l ELSE ChosenLO2(f))
      BY <1>1, <1>2, <1>3, ChosenIsUsable
    <2> QED
      BY <1>3, <1>5, <1>7, <2>1 DEF SetFreqAndLO2
  <1>8. ASSUME NEW l \in LO2s, TuneAround(l) PROVE IInv'
    <2>1. 1..TopFreq \subseteq Tuner
      BY <1>2 DEF Tuner
    <2> QED
      BY <1>2, <1>5, <1>8, <2>1 DEF TuneAround
  <1>9. ASSUME NEW f \in Freqs, SetFirstLO(f) PROVE IInv'
    <2>1. PICK arrives \in BOOLEAN : Command(f, arrives)
      BY <1>9 DEF SetFirstLO
    <2>2. UserCommand /\ astray' = (astray \/ Waiting) /\ choice' = "none"
          /\ freq' = freq /\ lo2' = lo2
      BY <1>9 DEF SetFirstLO
    <2>3. ctl' \in Seq(Tuner) /\ Len(ctl') <= QueueSize
      BY <1>1, <1>3, <2>1, CommandStep
    <2>4. TypeOK'
      BY <1>1, <1>4, <2>2, <2>3 DEF TypeOK
    <2>5. Waiting' = Waiting
      BY <1>4, <2>2 DEF Waiting
    <2>6. Recoverable'
      BY <2>2, <2>5 DEF Recoverable
    <2> QED
      BY <2>4, <2>6 DEF IInv
  <1> QED
    BY <1>6, <1>7, <1>8, <1>9

\* A status preserves the invariant: LO2 is made to suit what radio now knows.
LEMMA ReceivePreserves ==
  ASSUME IInv, ReceiveStatus
  PROVE  IInv'
  <1>1. TypeOK /\ Recoverable
    BY DEF IInv
  <1>2. Head(status) \in Tuner /\ Tail(status) \in Seq(Tuner)
        /\ Len(Tail(status)) <= QueueSize
    <2>1. QueueSize \in Nat
      BY TuningAssumption
    <2> QED
      BY <1>1, <2>1 DEF ReceiveStatus, TypeOK
  <1>3. /\ freq' = freq /\ ctl' = ctl /\ lo1' = lo1 /\ status' = Tail(status)
        /\ UNCHANGED <<told, counter, commands, others, choice>>
    BY DEF ReceiveStatus, frontVars
  <1>4. CASE Head(status) = known
    <2>1. known' = known /\ lo2' = lo2 /\ astray' = astray
      BY <1>4 DEF ReceiveStatus
    <2>2. TypeOK'
      BY <1>1, <1>2, <1>3, <2>1 DEF TypeOK, ReceiveStatus, frontVars
    <2>3. Recoverable'
      BY <1>1, <1>3, <2>1 DEF Recoverable, Waiting, Final
    <2> QED
      BY <2>2, <2>3 DEF IInv
  <1>5. CASE Head(status) # known
    <2>1. known' = Head(status) /\ lo2' = Head(status) - freq /\ astray' = FALSE
      BY <1>5 DEF ReceiveStatus
    <2>2. freq \in Int /\ Head(status) \in Int /\ Quantum \in Nat \ {0}
      <3>1. Tuner \subseteq Int
        BY TuningAssumption DEF Tuner
      <3>2. freq \in Tuner
        BY <1>1 DEF TypeOK
      <3> QED
        BY <1>2, <3>1, <3>2, TuningAssumption
    <2>3. TypeOK'
      <3>1. lo2' \in Int /\ known' \in Tuner
        BY <1>2, <2>1, <2>2
      <3>4. astray' \in BOOLEAN
        BY <2>1
      <3>2. /\ freq' \in Tuner /\ ctl' \in Seq(Tuner) /\ Len(ctl') <= QueueSize
            /\ status' \in Seq(Tuner) /\ Len(status') <= QueueSize
        BY <1>1, <1>2, <1>3 DEF TypeOK
      <3>3. /\ lo1' \in Tuner /\ told' \in Tuner /\ counter' \in 0..FullEvery
            /\ commands' \in 0..MaxCommands /\ others' \in 0..MaxOthers
            /\ choice' \in {"none", "informed", "stale"}
        BY <1>1, <1>3 DEF TypeOK
      <3> QED
        BY <3>1, <3>2, <3>3, <3>4 DEF TypeOK
    <2>4. freq' + lo2' - known' = 0
      BY <1>3, <2>1, <2>2
    <2>5. ~Waiting'
      BY <2>2, <2>4 DEF Waiting, Abs
    <2> QED
      BY <2>3, <2>5 DEF IInv, Recoverable
  <1> QED
    BY <1>4, <1>5

\* What the front end sends keeps its own state well-formed.
LEMMA StatusStep ==
  ASSUME TypeOK, NEW full \in BOOLEAN, NEW arrives \in BOOLEAN,
         lo1' \in Tuner, counter > 0 \/ full, SendStatus(full, arrives)
  PROVE  /\ told' \in Tuner /\ counter' \in 0..FullEvery
         /\ status' \in Seq(Tuner) /\ Len(status') <= QueueSize
  <1>1. FullEvery \in Nat
    BY TuningAssumption
  <1>2. status \in Seq(Tuner) /\ Len(status) <= QueueSize /\ counter \in 0..FullEvery
    BY DEF TypeOK
  <1>3. /\ Send(status, lo1', arrives) \in Seq(Tuner)
        /\ Len(Send(status, lo1', arrives)) <= QueueSize
    BY <1>2, SendQueues
  <1> QED
    BY <1>1, <1>2, <1>3 DEF SendStatus

\* The front end's own steps, and those of other programs, preserve the
\* invariant.
LEMMA FrontEndPreserves ==
  ASSUME IInv,
         \/ ObeyCommand
         \/ \E arrives \in BOOLEAN : Report(arrives)
         \/ \E f \in Freqs : OtherProgram(f)
  PROVE  IInv'
  <1>1. TypeOK /\ Recoverable
    BY DEF IInv
  <1>2. Freqs \subseteq Tuner /\ QueueSize \in Nat /\ MaxOthers \in Nat
    BY TuningAssumption DEF Tuner
  <1>3. CASE ObeyCommand
    <2>1. PICK arrives \in BOOLEAN : SendStatus(TRUE, arrives)
      BY <1>3 DEF ObeyCommand
    <2>2. /\ ctl # <<>> /\ ctl' = Tail(ctl) /\ lo1' = Actual(Head(ctl))
          /\ UNCHANGED <<radioVars, commands, others, astray, choice>>
      BY <1>3 DEF ObeyCommand
    <2>3. ctl \in Seq(Tuner) /\ Len(ctl) <= QueueSize
      BY <1>1 DEF TypeOK
    <2>4. Head(ctl) \in Tuner /\ Tail(ctl) \in Seq(Tuner) /\ Len(Tail(ctl)) <= QueueSize
      BY <1>2, <2>2, <2>3
    <2>5. lo1' \in Tuner
      BY <2>2, <2>4, ActualBounds
    <2>6. TypeOK'
      BY <1>1, <2>1, <2>2, <2>4, <2>5, StatusStep DEF TypeOK, radioVars
    <2>7. Final' = Final
      <3>1. CASE Len(ctl) = 1
        <4>1. ctl' = <<>> /\ ctl[Len(ctl)] = Head(ctl)
          BY <2>2, <2>3, <3>1
        <4> QED
          BY <2>2, <4>1 DEF Final
      <3>2. CASE Len(ctl) # 1
        <4>1. ctl' # <<>> /\ ctl'[Len(ctl')] = ctl[Len(ctl)]
          BY <2>2, <2>3, <3>2, LastSurvives
        <4> QED
          BY <2>2, <4>1 DEF Final, Actual
      <3> QED
        BY <3>1, <3>2
    <2>8. Recoverable'
      BY <1>1, <2>2, <2>7 DEF Recoverable, Waiting, radioVars
    <2> QED
      BY <2>6, <2>8 DEF IInv
  <1>4. ASSUME NEW arrives \in BOOLEAN, Report(arrives) PROVE IInv'
    <2>1. /\ lo1' = lo1 /\ ctl' = ctl /\ SendStatus(counter = 0, arrives)
          /\ UNCHANGED <<radioVars, commands, others, astray, choice>>
      BY <1>4 DEF Report
    <2>2. lo1' \in Tuner /\ (counter > 0 \/ counter = 0)
      BY <1>1, <2>1, TuningAssumption DEF TypeOK
    <2>3. TypeOK'
      BY <1>1, <2>1, <2>2, StatusStep DEF TypeOK, radioVars
    <2>4. Recoverable'
      BY <1>1, <2>1 DEF Recoverable, Waiting, Final, radioVars
    <2> QED
      BY <2>3, <2>4 DEF IInv
  <1>5. ASSUME NEW f \in Freqs, OtherProgram(f) PROVE IInv'
    <2>1. Actual(f) \in Tuner
      BY <1>2, ActualBounds
    <2>2. /\ astray' = (astray \/ Waiting) /\ lo1' = Actual(f) /\ choice' = "none"
          /\ others' = others + 1 /\ others < MaxOthers
          /\ UNCHANGED <<radioVars, told, counter, ctl, status, commands>>
      BY <1>5 DEF OtherProgram
    <2>3. TypeOK'
      BY <1>1, <1>2, <2>1, <2>2 DEF TypeOK, radioVars
    <2>4. Waiting' = Waiting
      BY <2>2 DEF Waiting, radioVars
    <2> QED
      BY <2>2, <2>3, <2>4 DEF IInv, Recoverable
  <1> QED
    BY <1>3, <1>4, <1>5

\* The invariant holds at the start: LO2 suits what radio knows.
LEMMA InitIInv == Init => IInv
  <1> SUFFICES ASSUME Init PROVE IInv
    OBVIOUS
  <1>1. /\ Freqs \subseteq Tuner /\ FirstLO1 \in Tuner /\ Tuner \subseteq Int
        /\ Quantum \in Nat \ {0} /\ FullEvery \in Nat /\ QueueSize \in Nat
        /\ MaxCommands \in Nat /\ MaxOthers \in Nat
    BY TuningAssumption DEF Tuner
  <1>2. TypeOK
    <2>1. <<>> \in Seq(Tuner) /\ Len(<<>>) = 0
      BY EmptySeq
    <2>2. /\ freq \in Tuner /\ lo2 \in Int /\ known \in Tuner
          /\ ctl \in Seq(Tuner) /\ Len(ctl) <= QueueSize
          /\ status \in Seq(Tuner) /\ Len(status) <= QueueSize
      BY <1>1, <2>1 DEF Init
    <2>3. /\ lo1 \in Tuner /\ told \in Tuner /\ counter \in 0..FullEvery
          /\ commands \in 0..MaxCommands /\ others \in 0..MaxOthers
      BY <1>1 DEF Init
    <2>4. astray \in BOOLEAN /\ choice \in {"none", "informed", "stale"}
      BY DEF Init
    <2> QED
      BY <2>2, <2>3, <2>4 DEF TypeOK
  <1>3. freq + lo2 - known = 0
    BY <1>1 DEF Init
  <1>4. ~Waiting
    BY <1>1, <1>3 DEF Waiting, Abs
  <1> QED
    BY <1>2, <1>4 DEF IInv, Recoverable

\* The variables always have values of their types, and LO2 is always right, or
\* will be made right by a status, unless it is known to have gone astray.
THEOREM Inductive == Spec => []IInv
  <1>1. IInv /\ [Next]_vars => IInv'
    <2> SUFFICES ASSUME IInv, [Next]_vars PROVE IInv'
      OBVIOUS
    <2>1. CASE UNCHANGED vars
      BY <2>1 DEF IInv, TypeOK, Recoverable, Waiting, Final, vars, radioVars, frontVars
    <2>2. CASE Next
      BY <2>2, CommandsPreserve, ReceivePreserves, FrontEndPreserves DEF Next
    <2> QED
      BY <2>1, <2>2
  <1> QED
    BY <1>1, InitIInv, PTL DEF Spec

\* The variables always have values of their types.
THEOREM TypeCorrect == Spec => []TypeOK
  <1>1. IInv => TypeOK
    BY DEF IInv
  <1> QED
    BY <1>1, Inductive, PTL

\* When no command is under way and radio knows the tuner's frequency, it is on
\* the operator's frequency, for every sample rate, step of the tuner, filter
\* and queue size, however many packets are lost and whoever else retunes.
THEOREM SettledMeansTunedThm == Spec => []SettledMeansTuned
  <1>1. IInv => SettledMeansTuned
    <2> SUFFICES ASSUME IInv, ctl = <<>>, known = lo1, ~astray
                 PROVE  Abs(lo1 - lo2 - freq) < Quantum
      BY DEF SettledMeansTuned
    <2>1. ~Waiting
      BY DEF IInv, Recoverable, Final
    <2>2. freq \in Int /\ lo2 \in Int /\ known \in Int /\ Quantum \in Nat
      BY TuningAssumption DEF IInv, TypeOK, Tuner
    <2> QED
      BY <2>1, <2>2 DEF Waiting, Abs
  <1> QED
    BY <1>1, Inductive, PTL
-----------------------------------------------------------------------------
(* The passband.  What set_freq chose for a tuner it knew stays in the band *)
(* because the tuner moves once, to a frequency that suits the choice, and  *)
(* radio learns of the move in order: no status that tells of the old       *)
(* frequency comes after one that tells of the new.                         *)

\* With the tuner on v and LO2 set for it, the passband is inside the band.
Suits(v) == (v - freq) - Low <= MaxIF /\ High - (v - freq) <= MaxIF

Informed ==
  choice = "informed" =>
    /\ InBand
    /\ lo1 = known \/ Suits(lo1)
    /\ \A i \in DOMAIN status : status[i] \in {known, lo1}
    /\ \A i, j \in DOMAIN status : i < j /\ status[i] = lo1 => status[j] = lo1
    /\ ctl # <<>> => lo1 = known /\ Len(ctl) = 1 /\ Suits(Actual(ctl[1]))

\* The LO2 that set_freq chooses leaves the passband in the band, by a step of
\* the tuner to spare when the tuner has to move.
LEMMA ChosenSuits ==
  ASSUME TypeOK, NEW f \in Tuner, NEW l, l = ChosenLO2(f)
  PROVE  /\ l - Low <= MaxIF /\ High - l <= MaxIF
         /\ l = known - f \/ High - (l - Quantum) <= MaxIF
  <1> DEFINE quarter == Samprate \div 4
  <1>1. /\ Samprate \in Nat /\ MaxIF \in Nat /\ Quantum \in Nat
        /\ Low \in Int /\ High \in Int /\ Low <= High
        /\ quarter + Most(Abs(Low), Abs(High)) + Quantum <= MaxIF
    BY TuningAssumption
  <1>2. quarter \in Nat
    BY <1>1
  <1>3. f \in Int /\ known \in Int
    BY DEF TypeOK, Tuner
  <1>4. CASE ClearOfAliases(known - f)
    BY <1>1, <1>3, <1>4 DEF ChosenLO2, ClearOfAliases, Most, Least
  <1>5. CASE ~ClearOfAliases(known - f)
    <2>1. l \in {0, -quarter, quarter}
      BY <1>5 DEF ChosenLO2
    <2> HIDE DEF quarter
    <2> QED
      BY <1>1, <1>2, <2>1 DEF Most, Abs
  <1> QED
    BY <1>4, <1>5

\* A choice made on what is known to be right starts well.
LEMMA SetFreqInforms ==
  ASSUME TypeOK, NEW f \in Freqs, SetFreq(f)
  PROVE  Informed'
  <1>1. SUFFICES ASSUME choice' = "informed" PROVE Informed'
    BY DEF Informed
  <1> DEFINE l == ChosenLO2(f)
  <1>2. UpToDate /\ known' = known /\ lo1' = lo1 /\ status' = status
    BY <1>1 DEF SetFreq, UserCommand, frontVars
  <1>3. ctl = <<>> /\ lo1 = known /\ \A i \in DOMAIN status : status[i] = lo1
    BY <1>2 DEF UpToDate
  <1>4. f \in Tuner /\ Tuner \subseteq Int
    BY TuningAssumption DEF Tuner
  <1>5. l \in Int /\ WithinNyquist(l)
    BY <1>4, ChosenIsUsable
  <1>6. /\ l - Low <= MaxIF /\ High - l <= MaxIF
        /\ l = known - f \/ High - (l - Quantum) <= MaxIF
    BY <1>4, ChosenSuits
  <1> HIDE DEF l
  <1>7. PICK arrives \in BOOLEAN : Retune(f, l, arrives)
    BY DEF SetFreq, l
  <1>8. /\ freq' = f /\ lo2' = l /\ f + l <= TopFreq
        /\ ctl' = IF NeedsCommand(f + l) THEN Send(ctl, f + l, arrives) ELSE ctl
    BY <1>5, <1>7 DEF Retune, Command
  <1>9. /\ MaxIF \in Int /\ Low \in Int /\ High \in Int /\ Quantum \in Nat
        /\ TopFreq \in Nat /\ f \in Int /\ known \in Int
    <2>1. known \in Tuner
      BY DEF TypeOK
    <2>2. /\ MaxIF \in Int /\ Low \in Int /\ High \in Int /\ Quantum \in Nat
          /\ TopFreq \in Nat
      BY TuningAssumption
    <2> QED
      BY <1>4, <2>1, <2>2
  <1>10. InBand'
    BY <1>5, <1>6, <1>8, <1>9 DEF InBand
  <1>11. ASSUME ctl' # <<>> PROVE Len(ctl') = 1 /\ Suits(Actual(ctl[1]))'
    <2>1. f + l # known /\ f + l \in Tuner /\ ctl' = <<f + l>>
      BY <1>3, <1>5, <1>8, <1>9, <1>11 DEF NeedsCommand, Send, Tuner
    <2> DEFINE a == Actual(f + l)
    <2>2. a \in Tuner /\ (f + l) - a \in 0..Quantum - 1
      BY <2>1, ActualBounds
    <2>3. ctl'[1] = f + l /\ Len(ctl') = 1
      BY <2>1
    <2>4. Actual(ctl[1])' = a
      BY <2>3 DEF Actual
    <2> HIDE DEF a
    <2>5. a \in Int
      BY <1>4, <2>2
    <2>6. (a - f) - Low <= MaxIF /\ High - (a - f) <= MaxIF
      BY <1>5, <1>6, <1>9, <2>1, <2>2, <2>5
    <2> QED
      BY <1>8, <2>3, <2>4, <2>6 DEF Suits
  <1> QED
    BY <1>2, <1>3, <1>10, <1>11 DEF Informed

\* Sending a status of the frequency the tuner is on keeps the statuses in order.
LEMMA StatusInOrder ==
  ASSUME TypeOK, NEW full \in BOOLEAN, NEW arrives \in BOOLEAN,
         SendStatus(full, arrives), lo1' \in Tuner, known' = known,
         \A i \in DOMAIN status : status[i] \in {known, lo1'},
         \A i, j \in DOMAIN status : i < j /\ status[i] = lo1' => status[j] = lo1'
  PROVE  /\ \A i \in DOMAIN status' : status'[i] \in {known', lo1'}
         /\ \A i, j \in DOMAIN status' : i < j /\ status'[i] = lo1' => status'[j] = lo1'
  <1>1. status \in Seq(Tuner)
    BY DEF TypeOK
  <1>2. status' = status \/ status' = Append(status, lo1')
    BY DEF SendStatus, Send
  <1>3. CASE status' = status
    BY <1>3
  <1>4. CASE status' = Append(status, lo1')
    <2> DEFINE n == Len(status)
    <2>1. /\ n \in Nat /\ DOMAIN status = 1..n /\ DOMAIN status' = 1..n + 1
          /\ status'[n + 1] = lo1'
          /\ \A i \in 1..n : status'[i] = status[i]
      BY <1>1, <1>4
    <2>2. \A i \in 1..n + 1 : i \in 1..n \/ i = n + 1
      BY <2>1
    <2>3. \A i, j \in 1..n + 1 : i < j => i \in 1..n
      BY <2>1
    <2> HIDE DEF n
    <2>4. \A i \in DOMAIN status' : status'[i] \in {known', lo1'}
      BY <2>1, <2>2
    <2>5. ASSUME NEW i \in DOMAIN status', NEW j \in DOMAIN status', i < j, status'[i] = lo1'
          PROVE  status'[j] = lo1'
      <3>1. i \in 1..n /\ status[i] = lo1'
        BY <2>1, <2>3, <2>5
      <3>2. CASE j \in 1..n
        BY <2>1, <2>5, <3>1, <3>2
      <3>3. CASE j = n + 1
        BY <2>1, <3>3
      <3> QED
        BY <2>1, <2>2, <2>5, <3>2, <3>3
    <2> QED
      BY <2>4, <2>5
  <1> QED
    BY <1>2, <1>3, <1>4

\* The next status tells of what radio knows, or of the last move of the tuner.
LEMMA ReceiveInforms ==
  ASSUME TypeOK, Informed, ReceiveStatus
  PROVE  Informed'
  <1>1. SUFFICES ASSUME choice' = "informed" PROVE Informed'
    BY DEF Informed
  <1> DEFINE h == Head(status)
             n == Len(status)
  <1>2. /\ freq' = freq /\ ctl' = ctl /\ lo1' = lo1 /\ status' = Tail(status)
        /\ choice = "informed" /\ status # <<>>
        /\ h = known => known' = known /\ lo2' = lo2
        /\ h # known => known' = h /\ lo2' = h - freq
    BY <1>1 DEF ReceiveStatus, frontVars
  <1>3. status \in Seq(Tuner)
    BY DEF TypeOK
  <1>4. /\ n \in Nat /\ DOMAIN status = 1..n /\ 1 \in 1..n /\ h = status[1]
        /\ DOMAIN status' = 1..n - 1
        /\ \A i \in 1..n - 1 : status'[i] = status[i + 1] /\ i + 1 \in 1..n
    BY <1>2, <1>3
  <1>5. /\ InBand /\ (lo1 = known \/ Suits(lo1))
        /\ \A i \in DOMAIN status : status[i] \in {known, lo1}
        /\ \A i, j \in DOMAIN status : i < j /\ status[i] = lo1 => status[j] = lo1
        /\ ctl # <<>> => lo1 = known /\ Len(ctl) = 1 /\ Suits(Actual(ctl[1]))
    BY <1>2 DEF Informed
  <1> HIDE DEF h, n
  <1>6. \A i, j \in DOMAIN status' : i < j /\ status'[i] = lo1' => status'[j] = lo1'
    <2>1. \A i, j \in 1..n - 1 : i < j => i + 1 < j + 1
      BY <1>4
    <2> QED
      BY <1>2, <1>4, <1>5, <2>1
  <1>7. Actual(ctl[1])' = Actual(ctl[1])
    BY <1>2 DEF Actual
  <1>8. CASE h = known
    <2>1. InBand' /\ (lo1' = known' \/ Suits(lo1)')
      BY <1>2, <1>5, <1>8 DEF InBand, Suits
    <2>2. \A i \in DOMAIN status' : status'[i] \in {known', lo1'}
      BY <1>2, <1>4, <1>5, <1>8
    <2>3. ctl' # <<>> => lo1' = known' /\ Len(ctl') = 1 /\ Suits(Actual(ctl[1]))'
      BY <1>2, <1>5, <1>7, <1>8 DEF Suits
    <2> QED
      BY <1>6, <2>1, <2>2, <2>3 DEF Informed
  <1>9. CASE h # known
    <2>1. h = lo1 /\ Suits(lo1) /\ ctl = <<>> /\ known' = lo1 /\ lo2' = lo1 - freq
      BY <1>2, <1>4, <1>5, <1>9
    <2>2. InBand'
      <3>1. /\ lo1 \in Int /\ freq \in Int /\ MaxIF \in Int /\ Low \in Int /\ High \in Int
        BY TuningAssumption DEF TypeOK, Tuner
      <3> QED
        BY <2>1, <3>1 DEF InBand, Suits
    <2>3. \A i \in DOMAIN status' : status'[i] \in {known', lo1'}
      <3>1. \A i \in 1..n - 1 : 1 < i + 1
        BY <1>4
      <3>2. \A j \in 1..n : 1 < j => status[j] = lo1
        BY <1>4, <1>5, <2>1
      <3>3. \A i \in 1..n - 1 : status'[i] = lo1
        BY <1>4, <3>1, <3>2
      <3> QED
        BY <1>2, <1>4, <3>3
    <2> QED
      BY <1>2, <1>6, <2>1, <2>2, <2>3 DEF Informed
  <1> QED
    BY <1>8, <1>9

\* The front end moves once, to what suits the choice, and says so afterwards.
LEMMA FrontEndInforms ==
  ASSUME TypeOK, Informed, ObeyCommand \/ \E arrives \in BOOLEAN : Report(arrives)
  PROVE  Informed'
  <1>1. SUFFICES ASSUME choice' = "informed" PROVE Informed'
    BY DEF Informed
  <1>2. UNCHANGED <<radioVars, choice>>
    BY DEF ObeyCommand, Report
  <1>3. /\ InBand /\ (lo1 = known \/ Suits(lo1))
        /\ \A i \in DOMAIN status : status[i] \in {known, lo1}
        /\ \A i, j \in DOMAIN status : i < j /\ status[i] = lo1 => status[j] = lo1
        /\ ctl # <<>> => lo1 = known /\ Len(ctl) = 1 /\ Suits(Actual(ctl[1]))
    BY <1>1, <1>2 DEF Informed
  <1>4. InBand' /\ freq' = freq /\ known' = known
    BY <1>2, <1>3 DEF InBand, radioVars
  <1>5. CASE ObeyCommand
    <2>1. PICK arrives \in BOOLEAN : SendStatus(TRUE, arrives)
      BY <1>5 DEF ObeyCommand
    <2>2. ctl # <<>> /\ ctl' = Tail(ctl) /\ lo1' = Actual(Head(ctl)) /\ ctl \in Seq(Tuner)
      BY <1>5 DEF ObeyCommand, TypeOK
    <2>3. ctl' = <<>> /\ Head(ctl) = ctl[1] /\ Head(ctl) \in Tuner
      BY <1>3, <2>2
    <2>4. lo1' \in Tuner
      BY <2>2, <2>3, ActualBounds
    <2>5. Suits(lo1)'
      BY <1>3, <1>4, <2>2, <2>3 DEF Suits
    <2>6. \A i \in DOMAIN status : status[i] = known
      BY <1>3, <2>2
    <2>7. /\ \A i \in DOMAIN status' : status'[i] \in {known', lo1'}
          /\ \A i, j \in DOMAIN status' : i < j /\ status'[i] = lo1' => status'[j] = lo1'
      BY <1>4, <2>1, <2>4, <2>6, StatusInOrder
    <2> QED
      BY <1>4, <2>3, <2>5, <2>7 DEF Informed
  <1>6. ASSUME NEW arrives \in BOOLEAN, Report(arrives) PROVE Informed'
    <2>1. /\ lo1' = lo1 /\ ctl' = ctl /\ SendStatus(counter = 0, arrives)
          /\ lo1 \in Tuner
      BY <1>6 DEF Report, TypeOK
    <2>2. /\ \A i \in DOMAIN status' : status'[i] \in {known', lo1'}
          /\ \A i, j \in DOMAIN status' : i < j /\ status'[i] = lo1' => status'[j] = lo1'
      BY <1>3, <1>4, <2>1, StatusInOrder
    <2>3. Suits(lo1)' = Suits(lo1) /\ Suits(Actual(ctl[1]))' = Suits(Actual(ctl[1]))
      BY <1>4, <2>1 DEF Suits, Actual
    <2> QED
      BY <1>3, <1>4, <2>1, <2>2, <2>3 DEF Informed
  <1> QED
    BY <1>5, <1>6

\* Whenever set_freq chose LO2 itself and knew where the tuner was, the whole
\* passband is inside the front end's band, for every filter, rate and spacing
\* of the tuner's frequencies.
THEOREM ChosenInBandThm == Spec => []ChosenInBand
  <1>1. Init => Informed
    BY DEF Init, Informed
  <1>2. IInv /\ Informed /\ [Next]_vars => Informed'
    <2> SUFFICES ASSUME TypeOK, Informed, [Next]_vars PROVE Informed'
      BY DEF IInv
    <2>1. ASSUME choice' = "none" PROVE Informed'
      BY <2>1 DEF Informed
    <2>2. ASSUME NEW f \in Freqs, SetFreq(f) PROVE Informed'
      BY <2>2, SetFreqInforms
    <2>3. CASE UNCHANGED vars
      <3>1. Actual(ctl[1])' = Actual(ctl[1])
        BY <2>3 DEF Actual, vars
      <3> QED
        BY <2>3, <3>1 DEF Informed, InBand, Suits, vars, radioVars, frontVars
    <2>4. CASE \/ \E f \in Freqs, l \in LO2s : SetFreqAndLO2(f, l)
               \/ \E l \in LO2s : TuneAround(l)
               \/ \E f \in Freqs : SetFirstLO(f) \/ OtherProgram(f)
      BY <2>1, <2>4 DEF SetFreqAndLO2, TuneAround, SetFirstLO, OtherProgram
    <2> QED
      BY <2>2, <2>3, <2>4, ReceiveInforms, FrontEndInforms DEF Next
  <1>3. Informed => ChosenInBand
    BY DEF Informed, ChosenInBand
  <1> QED
    BY <1>1, <1>2, <1>3, Inductive, PTL DEF Spec
-----------------------------------------------------------------------------
(* The control programs *)

Values == {"FM", "LINEAR"} \cup BOOLEAN \cup Nat \cup {NaN} \cup Tuners

\* Parameters, and some of them.
Whole == [Param -> Values]
Parts == UNION {[S -> Values] : S \in SUBSET Param}

Orders == [params : Parts, from : Controls]
Reports == [params : Parts, current : BOOLEAN]

HasFreq(m) == "freq" \in DOMAIN m.params

\* What has a frequency has a number, or says in a copy that it does not know.
ControlShapes ==
  /\ radio \in Whole /\ radio.freq \in Nat
  /\ view \in [Controls -> Whole] /\ \A c \in Controls : view[c].freq \in Nat \cup {NaN}
  /\ toRadio \in Seq(Orders)
  /\ \A i \in DOMAIN toRadio : HasFreq(toRadio[i]) => toRadio[i].params.freq \in Nat
  /\ statuses \in [Controls -> Seq(Reports)]
  /\ \A c \in Controls : \A i \in DOMAIN statuses[c] :
       HasFreq(statuses[c][i]) => statuses[c][i].params.freq \in Nat
  /\ expected \in Nat \cup {NaN}

\* The last frequency radio has been told is the expected one.
LastWord ==
  expected # NaN =>
    \/ \E i \in DOMAIN toRadio :
         /\ HasFreq(toRadio[i]) /\ toRadio[i].params.freq = expected
         /\ \A j \in DOMAIN toRadio : j > i => ~HasFreq(toRadio[j])
    \/ radio.freq = expected /\ \A i \in DOMAIN toRadio : ~HasFreq(toRadio[i])

\* A report with a frequency counts as current only while it is radio's and no
\* command is on the way; one without is always current.
Current ==
  \A c \in Controls : \A i \in DOMAIN statuses[c] :
    LET m == statuses[c][i] IN
    IF HasFreq(m) THEN m.current => toRadio = <<>> /\ m.params.freq = radio.freq
    ELSE m.current

\* A control that has all the news, but for its own commands, knows the expected
\* frequency or is about to be told it.
HasNews(c) ==
  /\ \A i \in DOMAIN toRadio : toRadio[i].from = c
  /\ \A i \in DOMAIN statuses[c] : statuses[c][i].current

Knowing ==
  expected # NaN => \A c \in Controls : HasNews(c) =>
    \/ view[c].freq \in {NaN, expected}
    \/ \E i \in DOMAIN statuses[c] : HasFreq(statuses[c][i])

ControlInv == ControlShapes /\ LastWord /\ Current /\ Knowing

\* The part of a parameter set that is sent.
LEMMA PartOf ==
  ASSUME NEW r \in Parts, NEW S \in SUBSET DOMAIN r
  PROVE  /\ Restrict(r, S) \in Parts /\ DOMAIN Restrict(r, S) = S
         /\ \A p \in S : Restrict(r, S)[p] = r[p]
  <1>1. PICK D \in SUBSET Param : r \in [D -> Values]
    BY DEF Parts
  <1>2. S \in SUBSET Param /\ DOMAIN r = D
    BY <1>1
  <1>3. Restrict(r, S) \in [S -> Values]
    BY <1>1, <1>2 DEF Restrict
  <1> QED
    BY <1>2, <1>3 DEF Parts, Restrict

\* What is received overrides what was there.
LEMMA Overridden ==
  ASSUME NEW f \in Parts, NEW r \in Whole
  PROVE  /\ Over(f, r) \in Whole
         /\ "freq" \in DOMAIN f => Over(f, r).freq = f.freq
         /\ "freq" \notin DOMAIN f => Over(f, r).freq = r.freq
  <1>1. PICK D \in SUBSET Param : f \in [D -> Values]
    BY DEF Parts
  <1>2. Over(f, r) = [x \in D \cup Param |-> IF x \in D THEN f[x] ELSE r[x]]
    BY <1>1 DEF Over, Whole
  <1>3. D \cup Param = Param /\ "freq" \in Param
    BY DEF Param
  <1> QED
    BY <1>1, <1>2, <1>3 DEF Whole

\* A set of parameters, written out.
LEMMA Written ==
  ASSUME NEW d \in {"FM", "LINEAR"}, NEW p \in BOOLEAN, NEW s \in BOOLEAN, NEW e \in BOOLEAN,
         NEW f \in Nat \cup {NaN}, NEW t \in Tuners \cup {NaN}
  PROVE  [demod |-> d, pll |-> p, square |-> s, env |-> e, freq |-> f, tuner |-> t] \in Whole
  <1> DEFINE r == [demod |-> d, pll |-> p, square |-> s, env |-> e, freq |-> f, tuner |-> t]
  <1>1. Param = {"demod", "pll", "square", "env", "freq", "tuner"}
    BY DEF Param, Setting, Option
  <1>2. {d, p, s, e, f, t} \subseteq Values
    BY DEF Values
  <1>3. \A x \in Param : r[x] \in {d, p, s, e, f, t}
    BY <1>1
  <1>4. r = [x \in Param |-> r[x]]
    BY <1>1
  <1> HIDE DEF r
  <1>5. \A x \in Param : r[x] \in Values
    BY <1>2, <1>3
  <1>6. r \in Whole
    BY <1>4, <1>5 DEF Whole
  <1> QED
    BY <1>6 DEF r

\* What the mode table says of a mode are parameters, without a frequency.
LEMMA PresetParts ==
  ASSUME NEW m \in Modes
  PROVE  Presets[m] \in Parts /\ "freq" \notin DOMAIN Presets[m]
  <1> DEFINE r == Presets[m]
             S == {"demod", "pll", "square", "env"}
  <1>1. r \in Flags
    BY RemoteAssumption
  <1>2. /\ r = [demod |-> r.demod, pll |-> r.pll, square |-> r.square, env |-> r.env]
        /\ r.demod \in {"FM", "LINEAR"} /\ r.pll \in BOOLEAN /\ r.square \in BOOLEAN
        /\ r.env \in BOOLEAN
    BY <1>1 DEF Flags
  <1> HIDE DEF r
  <1>3. DOMAIN r = S /\ r = [x \in S |-> r[x]]
    BY <1>2
  <1>4. {r.demod, r.pll, r.square, r.env} \subseteq Values
    BY <1>2 DEF Values
  <1>5. \A x \in S : r[x] \in Values
    BY <1>4
  <1>6. r \in [S -> Values]
    BY <1>3, <1>5
  <1>7. S \in SUBSET Param /\ "freq" \notin S
    BY DEF Param, Setting, Option
  <1>8. r \in Parts
    BY <1>6, <1>7 DEF Parts
  <1> QED
    BY <1>3, <1>7, <1>8 DEF r

\* In the beginning nobody has pressed a key.
LEMMA ControlBegins ==
  ASSUME ControlInit
  PROVE  ControlInv
  <1> DEFINE t == CHOOSE x \in Tuners : TRUE
             r == Presets[FirstMode]
             v == [demod |-> "LINEAR", pll |-> FALSE, square |-> FALSE,
                   env |-> FALSE, freq |-> NaN, tuner |-> NaN]
  <1>1. t \in Tuners
    BY RemoteAssumption
  <1>2. r \in Flags
    BY RemoteAssumption
  <1>3. /\ r = [demod |-> r.demod, pll |-> r.pll, square |-> r.square, env |-> r.env]
        /\ r.demod \in {"FM", "LINEAR"} /\ r.pll \in BOOLEAN /\ r.square \in BOOLEAN
        /\ r.env \in BOOLEAN
    BY <1>2 DEF Flags
  <1>4. radio = Over(r, [freq |-> 0, tuner |-> t])
    BY DEF ControlInit
  <1> HIDE DEF t, r
  <1>5. radio = [demod |-> r.demod, pll |-> r.pll, square |-> r.square, env |-> r.env,
                 freq |-> 0, tuner |-> t]
    BY <1>3, <1>4 DEF Over
  <1>6. radio \in Whole /\ radio.freq = 0
    BY <1>1, <1>3, <1>5, Written
  <1>7. v \in Whole /\ v.freq = NaN
    BY Written
  <1>8. /\ view = [c \in Controls |-> v] /\ toRadio = <<>> /\ statuses = [c \in Controls |-> <<>>]
        /\ expected = 0
    BY DEF ControlInit
  <1> HIDE DEF v
  <1>9. \A c \in Controls : view[c] = v /\ statuses[c] = <<>> /\ DOMAIN statuses[c] = {}
    BY <1>8
  <1>10. DOMAIN toRadio = {} /\ toRadio \in Seq(Orders)
    BY <1>8
  <1>11. statuses \in [Controls -> Seq(Reports)] /\ view \in [Controls -> Whole]
    BY <1>7, <1>8
  <1>12. ControlShapes
    BY <1>6, <1>7, <1>8, <1>9, <1>10, <1>11 DEF ControlShapes
  <1>13. LastWord /\ Current /\ Knowing
    BY <1>6, <1>7, <1>8, <1>9, <1>10 DEF LastWord, Current, Knowing
  <1> QED
    BY <1>12, <1>13 DEF ControlInv

\* What send_status makes of the parameters r: one report, which some get.  One
\* that is complete tells the frequency, and if it is unexpected that anyone misses
\* it, everyone has got it.
LEMMA ReportMade ==
  ASSUME ControlShapes, NEW r \in Whole, r.freq \in Nat, NEW count, SendRadioStatus(r, count)
  PROVE  \E m \in Reports :
           /\ HasFreq(m) => m.params.freq = r.freq
           /\ m.current = (toRadio' = <<>> \/ ~HasFreq(m))
           /\ count = 0 => HasFreq(m)
           /\ \A c \in Controls : statuses'[c] \in {statuses[c], Append(statuses[c], m)}
           /\ expected' # NaN => /\ expected' = expected
                                 /\ \A c \in Controls : statuses'[c] = Append(statuses[c], m)
           /\ statuses' \in [Controls -> Seq(Reports)]
           /\ expected' \in {expected, NaN}
  <1> DEFINE S == News(r, count = 0)
             q == Restrict(r, S)
             b == (toRadio' = <<>> \/ "freq" \notin DOMAIN q)
             m == [params |-> q, current |-> b]
  <1>1. S \in SUBSET Param /\ (count = 0 => "freq" \in S)
    BY DEF News, Reported, Param, Setting, Option
  <1>2. r \in Parts /\ DOMAIN r = Param
    BY DEF Whole, Parts
  <1>3. q \in Parts /\ DOMAIN q = S /\ ("freq" \in S => q.freq = r.freq)
    BY <1>1, <1>2, PartOf
  <1>4. PICK kept \in SUBSET Controls :
          /\ statuses' = [c \in Controls |-> IF c \in kept THEN Append(statuses[c], m) ELSE statuses[c]]
          /\ expected' = IF kept = Controls THEN expected ELSE NaN
    BY DEF SendRadioStatus
  <1> HIDE DEF q, S
  <1>5. m \in Reports /\ m.params = q /\ m.current = b
    BY <1>3 DEF Reports
  <1>6. HasFreq(m) <=> "freq" \in S
    BY <1>3, <1>5 DEF HasFreq
  <1> HIDE DEF m
  <1>7. \A c \in Controls : statuses[c] \in Seq(Reports) /\ Append(statuses[c], m) \in Seq(Reports)
    BY <1>5, AppendProperties DEF ControlShapes
  <1>8. statuses' \in [Controls -> Seq(Reports)]
    BY <1>4, <1>7
  <1>9. \A c \in Controls : statuses'[c] = IF c \in kept THEN Append(statuses[c], m) ELSE statuses[c]
    BY <1>4
  <1>10. b = (toRadio' = <<>> \/ ~HasFreq(m))
    BY <1>3, <1>6
  <1> HIDE DEF b
  <1> QED
    BY <1>1, <1>3, <1>4, <1>5, <1>6, <1>8, <1>9, <1>10

\* One more at the end.
LEMMA Appended ==
  ASSUME NEW S, NEW s \in Seq(S), NEW e \in S
  PROVE  /\ Append(s, e) \in Seq(S) /\ Len(s) \in Nat
         /\ DOMAIN s = 1..Len(s) /\ DOMAIN Append(s, e) = 1..Len(s) + 1
         /\ \A i \in DOMAIN s : Append(s, e)[i] = s[i]
         /\ Append(s, e)[Len(s) + 1] = e
         /\ \A i \in DOMAIN Append(s, e) : i \in DOMAIN s \/ i = Len(s) + 1
  <1>1. /\ Append(s, e) \in Seq(S) /\ Len(s) \in Nat /\ DOMAIN s = 1..Len(s)
        /\ Len(Append(s, e)) = Len(s) + 1
        /\ \A i \in 1..Len(s) : Append(s, e)[i] = s[i]
        /\ Append(s, e)[Len(s) + 1] = e
    BY AppendProperties, LenProperties
  <1>2. DOMAIN Append(s, e) = 1..Len(s) + 1
    BY <1>1, LenProperties
  <1> QED
    BY <1>1, <1>2

\* One fewer at the front.
LEMMA Rest ==
  ASSUME NEW S, NEW s \in Seq(S), s # <<>>
  PROVE  /\ Head(s) \in S /\ Head(s) = s[1] /\ 1 \in DOMAIN s
         /\ Tail(s) \in Seq(S) /\ \A i \in DOMAIN Tail(s) : i + 1 \in DOMAIN s /\ Tail(s)[i] = s[i + 1]
         /\ \A i \in DOMAIN s : /\ i \in Nat
                                /\ i > 1 => i - 1 \in DOMAIN Tail(s) /\ Tail(s)[i - 1] = s[i]
         /\ DOMAIN Tail(s) \subseteq Nat \ {0}
  <1>1. /\ Len(s) \in Nat \ {0} /\ DOMAIN s = 1..Len(s) /\ Head(s) = s[1] /\ Head(s) \in S
        /\ Tail(s) \in Seq(S) /\ Len(Tail(s)) = Len(s) - 1
        /\ \A i \in 1..Len(Tail(s)) : Tail(s)[i] = s[i + 1]
    BY HeadTailProperties, LenProperties, EmptySeq
  <1>2. DOMAIN Tail(s) = 1..Len(s) - 1
    BY <1>1, LenProperties
  <1> QED
    BY <1>1, <1>2

\* radio has obeyed the first command.
Obeyed ==
  /\ toRadio # <<>> /\ toRadio' = Tail(toRadio)
  /\ radio'.freq = IF HasFreq(Head(toRadio)) THEN Head(toRadio).params.freq ELSE radio.freq

\* Whatever radio does, it reports, and leaves the copies alone.
LEMMA RadioKeeps ==
  ASSUME ControlInv, UNCHANGED view, radio' \in Whole, NEW count, SendRadioStatus(radio', count),
         (UNCHANGED toRadio /\ radio'.freq = radio.freq) \/ (Obeyed /\ count = 0)
  PROVE  ControlInv'
  <1>1. /\ radio.freq \in Nat /\ toRadio \in Seq(Orders)
        /\ \A i \in DOMAIN toRadio : HasFreq(toRadio[i]) => toRadio[i].params.freq \in Nat
        /\ \A c \in Controls : statuses[c] \in Seq(Reports)
        /\ expected \in Nat \cup {NaN}
        /\ ControlShapes /\ LastWord /\ Current /\ Knowing
    BY DEF ControlInv, ControlShapes
  <1>2. /\ toRadio' \in Seq(Orders) /\ radio'.freq \in Nat
        /\ \A i \in DOMAIN toRadio' : HasFreq(toRadio'[i]) => toRadio'[i].params.freq \in Nat
    <2>1. CASE UNCHANGED toRadio /\ radio'.freq = radio.freq
      BY <1>1, <2>1
    <2>2. CASE Obeyed
      <3>1. toRadio # <<>> /\ toRadio' = Tail(toRadio)
        BY <2>2 DEF Obeyed
      <3>2. /\ toRadio' \in Seq(Orders) /\ Head(toRadio) = toRadio[1] /\ 1 \in DOMAIN toRadio
            /\ \A i \in DOMAIN toRadio' : i + 1 \in DOMAIN toRadio /\ toRadio'[i] = toRadio[i + 1]
        BY <1>1, <3>1, Rest
      <3>3. radio'.freq \in Nat
        BY <1>1, <2>2, <3>2 DEF Obeyed
      <3> QED
        BY <1>1, <3>2, <3>3
    <2> QED
      BY <2>1, <2>2
  <1>3. PICK m \in Reports :
           /\ HasFreq(m) => m.params.freq = radio'.freq
           /\ m.current = (toRadio' = <<>> \/ ~HasFreq(m))
           /\ count = 0 => HasFreq(m)
           /\ \A c \in Controls : statuses'[c] \in {statuses[c], Append(statuses[c], m)}
           /\ expected' # NaN => /\ expected' = expected
                                 /\ \A c \in Controls : statuses'[c] = Append(statuses[c], m)
           /\ statuses' \in [Controls -> Seq(Reports)]
           /\ expected' \in {expected, NaN}
    BY <1>1, <1>2, ReportMade
  <1>4. ASSUME NEW c \in Controls, NEW i \in DOMAIN statuses'[c]
        PROVE  (i \in DOMAIN statuses[c] /\ statuses'[c][i] = statuses[c][i]) \/ statuses'[c][i] = m
    <2>1. /\ statuses'[c] = statuses[c] \/ statuses'[c] = Append(statuses[c], m)
          /\ statuses[c] \in Seq(Reports)
      BY <1>1, <1>3
    <2> QED
      BY <2>1, Appended
  <1>5. ControlShapes'
    <2>1. \A c \in Controls : \A i \in DOMAIN statuses'[c] :
            HasFreq(statuses'[c][i]) => statuses'[c][i].params.freq \in Nat
      <3>1. \A c \in Controls : \A i \in DOMAIN statuses[c] :
              HasFreq(statuses[c][i]) => statuses[c][i].params.freq \in Nat
        BY <1>1 DEF ControlShapes
      <3>2. HasFreq(m) => m.params.freq \in Nat
        BY <1>2, <1>3
      <3> QED
        BY <1>4, <3>1, <3>2
    <2>2. \A i \in DOMAIN toRadio' : HasFreq(toRadio[i])' => toRadio'[i].params.freq \in Nat
      BY <1>2 DEF HasFreq
    <2>3. \A c \in Controls : \A i \in DOMAIN statuses'[c] :
            HasFreq(statuses[c][i])' => statuses'[c][i].params.freq \in Nat
      BY <2>1 DEF HasFreq
    <2> QED
      BY <1>1, <1>2, <1>3, <2>2, <2>3 DEF ControlShapes
  <1>6. LastWord'
    <2> SUFFICES ASSUME expected' # NaN
                 PROVE  \/ \E i \in DOMAIN toRadio' :
                             /\ HasFreq(toRadio'[i]) /\ toRadio'[i].params.freq = expected
                             /\ \A j \in DOMAIN toRadio' : j > i => ~HasFreq(toRadio'[j])
                        \/ /\ radio'.freq = expected
                           /\ \A i \in DOMAIN toRadio' : ~HasFreq(toRadio'[i])
      BY <1>3 DEF LastWord, HasFreq
    <2>1. expected # NaN
      BY <1>3
    <2>2. CASE UNCHANGED toRadio /\ radio'.freq = radio.freq
      BY <1>1, <2>1, <2>2 DEF LastWord
    <2>3. CASE Obeyed
      <3>1. /\ toRadio # <<>> /\ toRadio' = Tail(toRadio)
            /\ radio'.freq = IF HasFreq(toRadio[1]) THEN toRadio[1].params.freq ELSE radio.freq
            /\ 1 \in DOMAIN toRadio
            /\ \A i \in DOMAIN toRadio' : i + 1 \in DOMAIN toRadio /\ toRadio'[i] = toRadio[i + 1]
            /\ \A i \in DOMAIN toRadio : i \in Nat /\ (i > 1 => i - 1 \in DOMAIN toRadio' /\ toRadio'[i - 1] = toRadio[i])
            /\ DOMAIN toRadio' \subseteq Nat \ {0}
        <4>1. toRadio # <<>> /\ toRadio' = Tail(toRadio)
          BY <2>3 DEF Obeyed
        <4>2. Head(toRadio) = toRadio[1]
          BY <1>1, <4>1, Rest
        <4>3. radio'.freq = IF HasFreq(toRadio[1]) THEN toRadio[1].params.freq ELSE radio.freq
          BY <2>3, <4>2 DEF Obeyed
        <4> QED
          BY <1>1, <4>1, <4>3, Rest
      <3>2. CASE \A i \in DOMAIN toRadio : ~HasFreq(toRadio[i])
        <4>1. radio.freq = expected
          BY <1>1, <2>1, <3>2 DEF LastWord
        <4> QED
          BY <3>1, <3>2, <4>1
      <3>3. CASE \E i \in DOMAIN toRadio : HasFreq(toRadio[i])
        <4>1. PICK i \in DOMAIN toRadio :
                /\ HasFreq(toRadio[i]) /\ toRadio[i].params.freq = expected
                /\ \A j \in DOMAIN toRadio : j > i => ~HasFreq(toRadio[j])
          BY <1>1, <2>1, <3>3 DEF LastWord
        <4>2. CASE i = 1
          <5>1. \A j \in DOMAIN toRadio' : ~HasFreq(toRadio'[j])
            <6>1. \A j \in DOMAIN toRadio' : j + 1 > 1
              BY <3>1
            <6> QED
              BY <3>1, <4>1, <4>2, <6>1
          <5> QED
            BY <3>1, <4>1, <4>2, <5>1
        <4>3. CASE i > 1
          <5>1. i - 1 \in DOMAIN toRadio' /\ toRadio'[i - 1] = toRadio[i] /\ i \in Nat
            BY <3>1, <4>3
          <5>2. \A j \in DOMAIN toRadio' : j > i - 1 => ~HasFreq(toRadio'[j])
            <6>1. \A j \in DOMAIN toRadio' : j > i - 1 => j + 1 > i
              BY <3>1, <5>1
            <6> QED
              BY <3>1, <4>1, <6>1
          <5> QED
            BY <4>1, <5>1, <5>2
        <4>4. i \in 1..Len(toRadio) /\ Len(toRadio) \in Nat
          BY <1>1, LenProperties
        <4> QED
          BY <4>2, <4>3, <4>4
      <3> QED
        BY <3>2, <3>3
    <2> QED
      BY <2>2, <2>3
  <1>7. Current'
    <2> SUFFICES ASSUME NEW c \in Controls, NEW i \in DOMAIN statuses'[c]
                 PROVE  IF HasFreq(statuses'[c][i])
                        THEN statuses'[c][i].current =>
                               toRadio' = <<>> /\ statuses'[c][i].params.freq = radio'.freq
                        ELSE statuses'[c][i].current
      BY DEF Current, HasFreq
    <2>1. CASE statuses'[c][i] = m
      BY <1>3, <2>1
    <2>2. CASE i \in DOMAIN statuses[c] /\ statuses'[c][i] = statuses[c][i]
      <3>1. IF HasFreq(statuses[c][i])
            THEN statuses[c][i].current => toRadio = <<>> /\ statuses[c][i].params.freq = radio.freq
            ELSE statuses[c][i].current
        BY <1>1, <2>2 DEF Current
      <3>2. toRadio # <<>> \/ (UNCHANGED toRadio /\ radio'.freq = radio.freq)
        BY DEF Obeyed
      <3> QED
        BY <2>2, <3>1, <3>2
    <2> QED
      BY <1>4, <2>1, <2>2
  <1>8. Knowing'
    <2> SUFFICES ASSUME expected' # NaN, NEW c \in Controls, HasNews(c)'
                 PROVE  \/ view[c].freq \in {NaN, expected}
                        \/ \E i \in DOMAIN statuses'[c] : HasFreq(statuses'[c][i])
      BY <1>3 DEF Knowing, HasFreq
    <2>1. /\ expected # NaN /\ statuses'[c] = Append(statuses[c], m) /\ statuses[c] \in Seq(Reports)
      BY <1>1, <1>3
    <2>2. /\ Len(statuses[c]) + 1 \in DOMAIN statuses'[c] /\ statuses'[c][Len(statuses[c]) + 1] = m
          /\ \A i \in DOMAIN statuses[c] : i \in DOMAIN statuses'[c] /\ statuses'[c][i] = statuses[c][i]
      BY <2>1, Appended
    <2>3. CASE HasFreq(m)
      BY <2>2, <2>3
    <2>4. CASE ~HasFreq(m)
      <3>1. UNCHANGED toRadio
        BY <1>3, <2>4
      <3>2. HasNews(c)
        BY <2>2, <3>1 DEF HasNews
      <3>3. view[c].freq \in {NaN, expected} \/ \E i \in DOMAIN statuses[c] : HasFreq(statuses[c][i])
        BY <1>1, <2>1, <3>2 DEF Knowing
      <3> QED
        BY <2>2, <3>3
    <2> QED
      BY <2>3, <2>4
  <1> QED
    BY <1>5, <1>6, <1>7, <1>8 DEF ControlInv

\* A control takes the next report.
LEMMA ReceiveKeeps ==
  ASSUME ControlInv, NEW c \in Controls, Receive(c)
  PROVE  ControlInv'
  <1> DEFINE m == Head(statuses[c])
             q == Restrict(m.params, DOMAIN m.params \ {"env"})
  <1>1. /\ radio \in Whole /\ radio.freq \in Nat /\ toRadio \in Seq(Orders)
        /\ view \in [Controls -> Whole] /\ \A d \in Controls : view[d].freq \in Nat \cup {NaN}
        /\ statuses \in [Controls -> Seq(Reports)] /\ expected \in Nat \cup {NaN}
        /\ ControlShapes /\ LastWord /\ Current /\ Knowing
    BY DEF ControlInv, ControlShapes
  <1>2. /\ statuses[c] # <<>> /\ view' = [view EXCEPT ![c] = Over(q, view[c])]
        /\ expected' = IF m.current THEN expected ELSE NaN
        /\ statuses' = [statuses EXCEPT ![c] = Tail(statuses[c])]
        /\ UNCHANGED <<radio, toRadio>>
    BY DEF Receive, paramVars
  <1>3. /\ m \in Reports /\ m = statuses[c][1] /\ 1 \in DOMAIN statuses[c]
        /\ Tail(statuses[c]) \in Seq(Reports)
        /\ \A i \in DOMAIN Tail(statuses[c]) :
             i + 1 \in DOMAIN statuses[c] /\ Tail(statuses[c])[i] = statuses[c][i + 1]
        /\ \A i \in DOMAIN statuses[c] :
             /\ i \in Nat
             /\ i > 1 => i - 1 \in DOMAIN Tail(statuses[c]) /\ Tail(statuses[c])[i - 1] = statuses[c][i]
        /\ DOMAIN Tail(statuses[c]) \subseteq Nat \ {0}
    BY <1>1, <1>2, Rest
  <1>4. /\ q \in Parts /\ ("freq" \in DOMAIN q <=> HasFreq(m))
        /\ HasFreq(m) => q.freq = m.params.freq
    <2>1. m.params \in Parts /\ DOMAIN m.params \ {"env"} \in SUBSET DOMAIN m.params
      BY <1>3 DEF Reports
    <2> QED
      BY <2>1, PartOf DEF HasFreq
  <1> HIDE DEF q, m
  <1>5. /\ Over(q, view[c]) \in Whole
        /\ HasFreq(m) => Over(q, view[c]).freq = m.params.freq
        /\ ~HasFreq(m) => Over(q, view[c]).freq = view[c].freq
    BY <1>1, <1>4, Overridden
  <1>6. /\ view' \in [Controls -> Whole] /\ statuses' \in [Controls -> Seq(Reports)]
        /\ view'[c] = Over(q, view[c]) /\ statuses'[c] = Tail(statuses[c])
        /\ \A d \in Controls \ {c} : view'[d] = view[d] /\ statuses'[d] = statuses[d]
    BY <1>1, <1>2, <1>3, <1>5
  <1>7. ASSUME NEW d \in Controls, NEW i \in DOMAIN statuses'[d]
        PROVE  \E j \in DOMAIN statuses[d] : statuses'[d][i] = statuses[d][j]
    <2>1. CASE d = c
      <3>1. i \in DOMAIN Tail(statuses[c]) /\ statuses'[d][i] = Tail(statuses[c])[i]
        BY <1>6, <1>7, <2>1
      <3> QED
        BY <1>3, <2>1, <3>1
    <2>2. CASE d # c
      BY <1>6, <1>7, <2>2
    <2> QED
      BY <2>1, <2>2
  <1>8. HasFreq(m) => m.params.freq \in Nat
    BY <1>1, <1>3 DEF ControlShapes
  <1>9. ControlShapes'
    <2>1. \A d \in Controls : view'[d].freq \in Nat \cup {NaN}
      BY <1>1, <1>5, <1>6, <1>8
    <2>2. \A d \in Controls : \A i \in DOMAIN statuses'[d] :
            HasFreq(statuses'[d][i]) => statuses'[d][i].params.freq \in Nat
      BY <1>1, <1>7 DEF ControlShapes
    <2>3. \A d \in Controls : \A i \in DOMAIN statuses'[d] :
            HasFreq(statuses[d][i])' => statuses'[d][i].params.freq \in Nat
      BY <2>2 DEF HasFreq
    <2>4. expected' \in Nat \cup {NaN}
      BY <1>1, <1>2
    <2> QED
      BY <1>1, <1>2, <1>6, <2>1, <2>3, <2>4 DEF ControlShapes, HasFreq
  <1>10. LastWord'
    BY <1>1, <1>2 DEF LastWord, HasFreq
  <1>11. Current'
    <2> SUFFICES ASSUME NEW d \in Controls, NEW i \in DOMAIN statuses'[d]
                 PROVE  IF HasFreq(statuses'[d][i])
                        THEN statuses'[d][i].current =>
                               toRadio = <<>> /\ statuses'[d][i].params.freq = radio.freq
                        ELSE statuses'[d][i].current
      BY <1>2 DEF Current, HasFreq
    <2>1. PICK j \in DOMAIN statuses[d] : statuses'[d][i] = statuses[d][j]
      BY <1>7
    <2> QED
      BY <1>1, <2>1 DEF Current
  <1>12. Knowing'
    <2> SUFFICES ASSUME expected' # NaN, NEW d \in Controls, HasNews(d)'
                 PROVE  \/ view'[d].freq \in {NaN, expected}
                        \/ \E i \in DOMAIN statuses'[d] : HasFreq(statuses'[d][i])
      BY <1>2 DEF Knowing, HasFreq
    <2>1. expected # NaN /\ m.current
      BY <1>2
    <2>2. CASE d # c
      <3>1. HasNews(d) /\ view'[d] = view[d] /\ statuses'[d] = statuses[d]
        BY <1>2, <1>6, <2>2 DEF HasNews
      <3> QED
        BY <1>1, <2>1, <3>1 DEF Knowing
    <2>3. CASE d = c
      <3>1. CASE HasFreq(m)
        <4>1. toRadio = <<>> /\ m.params.freq = radio.freq
          BY <1>1, <1>3, <2>1, <3>1 DEF Current
        <4>2. radio.freq = expected
          BY <1>1, <2>1, <4>1 DEF LastWord
        <4> QED
          BY <1>5, <1>6, <2>3, <3>1, <4>1, <4>2
      <3>2. CASE ~HasFreq(m)
        <4>1. \A i \in DOMAIN statuses[c] : statuses[c][i].current
          <5>1. \A i \in DOMAIN statuses[c] : i = 1 \/ i > 1
            BY <1>1, LenProperties
          <5>2. \A i \in DOMAIN statuses'[c] : statuses'[c][i].current
            BY <2>3 DEF HasNews
          <5>3. ASSUME NEW i \in DOMAIN statuses[c], i > 1
                PROVE  statuses[c][i].current
            <6>1. i - 1 \in DOMAIN statuses'[c] /\ statuses'[c][i - 1] = statuses[c][i]
              BY <1>3, <1>6, <5>3
            <6> QED
              BY <5>2, <6>1
          <5>4. statuses[c][1].current
            BY <1>3, <2>1
          <5> QED
            BY <5>1, <5>3, <5>4
        <4>2. HasNews(c)
          BY <1>2, <2>3, <4>1 DEF HasNews
        <4>3. view[c].freq \in {NaN, expected} \/ \E i \in DOMAIN statuses[c] : HasFreq(statuses[c][i])
          BY <1>1, <2>1, <4>2 DEF Knowing
        <4>4. ASSUME NEW i \in DOMAIN statuses[c], HasFreq(statuses[c][i])
              PROVE  \E j \in DOMAIN statuses'[c] : HasFreq(statuses'[c][j])
          <5>1. i > 1
            <6>1. i # 1
              BY <1>3, <3>2, <4>4
            <6> QED
              BY <1>1, <6>1, LenProperties
          <5>2. i - 1 \in DOMAIN statuses'[c] /\ statuses'[c][i - 1] = statuses[c][i]
            BY <1>3, <1>6, <5>1
          <5> QED
            BY <4>4, <5>2
        <4> QED
          BY <1>5, <1>6, <2>3, <3>2, <4>3, <4>4
      <3> QED
        BY <3>1, <3>2
    <2> QED
      BY <2>2, <2>3
  <1> QED
    BY <1>9, <1>10, <1>11, <1>12 DEF ControlInv

\* Reports that are older than a command: only those without a frequency are
\* current.
Marked(s) == [i \in DOMAIN s |-> [s[i] EXCEPT !.current = "freq" \notin DOMAIN s[i].params]]

\* They are the same otherwise.
LEMMA MarkedReports ==
  ASSUME NEW s \in Seq(Reports), NEW t, t = Marked(s)
  PROVE  /\ t \in Seq(Reports) /\ DOMAIN t = DOMAIN s
         /\ \A i \in DOMAIN s :
              /\ t[i].params = s[i].params
              /\ t[i].current = ~HasFreq(s[i])
              /\ HasFreq(t[i]) <=> HasFreq(s[i])
  <1>1. Len(s) \in Nat /\ DOMAIN s = 1..Len(s)
    BY LenProperties
  <1>2. t = [i \in 1..Len(s) |-> [s[i] EXCEPT !.current = "freq" \notin DOMAIN s[i].params]]
    BY <1>1 DEF Marked
  <1>3. \A i \in 1..Len(s) : s[i] \in Reports
    BY ElementOfSeq
  <1>4. \A i \in 1..Len(s) : /\ t[i] \in Reports /\ t[i].params = s[i].params
                            /\ t[i].current = ("freq" \notin DOMAIN s[i].params)
    <2> SUFFICES ASSUME NEW i \in 1..Len(s)
                 PROVE  /\ t[i] \in Reports /\ t[i].params = s[i].params
                        /\ t[i].current = ("freq" \notin DOMAIN s[i].params)
      OBVIOUS
    <2>1. t[i] = [s[i] EXCEPT !.current = "freq" \notin DOMAIN s[i].params]
      BY <1>2
    <2>2. s[i] \in Reports
      BY <1>3
    <2> QED
      BY <2>1, <2>2 DEF Reports
  <1>5. t \in [1..Len(s) -> Reports]
    BY <1>2, <1>4
  <1>6. t \in Seq(Reports)
    BY <1>1, <1>5, Zenon, SeqDef
  <1> QED
    BY <1>1, <1>2, <1>4, <1>6 DEF HasFreq

\* A key that makes v of the copy leaves the invariant, if the frequency it expects
\* is either the one before, and the key has not touched the frequency, or the new
\* one of a copy that no report will change.
LEMMA PressKeeps ==
  ASSUME ControlInv, NEW c \in Controls, NEW v \in Whole, v.freq \in Nat \cup {NaN},
         NEW makes \in Nat \cup {NaN}, Press(c, v, makes),
         makes # NaN =>
           \/ v.freq = view[c].freq /\ makes = expected
           \/ v.freq = makes /\ v.freq # view[c].freq
  PROVE  ControlInv'
  <1>1. /\ radio \in Whole /\ radio.freq \in Nat /\ toRadio \in Seq(Orders)
        /\ \A i \in DOMAIN toRadio : HasFreq(toRadio[i]) => toRadio[i].params.freq \in Nat
        /\ view \in [Controls -> Whole] /\ \A d \in Controls : view[d].freq \in Nat \cup {NaN}
        /\ statuses \in [Controls -> Seq(Reports)] /\ expected \in Nat \cup {NaN}
        /\ ControlShapes /\ LastWord /\ Current /\ Knowing
    BY DEF ControlInv, ControlShapes
  <1>2. view' = [view EXCEPT ![c] = v] /\ UNCHANGED radio
    BY DEF Press, paramVars
  <1>3. /\ view' \in [Controls -> Whole] /\ view'[c] = v
        /\ \A d \in Controls : view'[d].freq \in Nat \cup {NaN}
    BY <1>1, <1>2
  <1>4. CASE expected' = NaN /\ UNCHANGED netVars
    <2>1. expected' = NaN /\ UNCHANGED <<toRadio, statuses>>
      BY <1>4 DEF netVars
    <2>2. ControlShapes'
      BY <1>1, <1>2, <1>3, <2>1 DEF ControlShapes, HasFreq
    <2>3. LastWord' /\ Knowing'
      BY <2>1 DEF LastWord, Knowing
    <2>4. Current'
      BY <1>1, <1>2, <2>1 DEF Current, HasFreq
    <2> QED
      BY <2>2, <2>3, <2>4 DEF ControlInv
  <1>5. CASE ~(expected' = NaN /\ UNCHANGED netVars)
    <2> DEFINE q == Restrict(v, Changed(view[c], v))
               o == [params |-> q, from |-> c]
    <2>1. /\ toRadio' = Append(toRadio, o)
          /\ statuses' = [d \in Controls |-> Marked(statuses[d])]
          /\ expected' = makes
      BY <1>5 DEF Press, Marked
    <2>2. /\ q \in Parts /\ ("freq" \in DOMAIN q <=> v.freq # view[c].freq /\ v.freq # NaN)
          /\ "freq" \in DOMAIN q => q.freq = v.freq
      <3>1. v \in Parts /\ DOMAIN v = Param /\ "freq" \in Param
        BY DEF Whole, Parts, Param
      <3>2. Changed(view[c], v) \in SUBSET DOMAIN v
        BY <3>1 DEF Changed
      <3>3. "freq" \in Changed(view[c], v) <=> v.freq # view[c].freq /\ v.freq # NaN
        BY <3>1 DEF Changed
      <3> HIDE DEF Changed
      <3> QED
        BY <3>1, <3>2, <3>3, PartOf
    <2> HIDE DEF q
    <2>3. /\ o \in Orders /\ o.from = c /\ o.params = q
          /\ HasFreq(o) <=> v.freq # view[c].freq /\ v.freq # NaN
          /\ HasFreq(o) => o.params.freq = v.freq
      BY <2>2 DEF Orders, HasFreq
    <2> HIDE DEF o
    <2>4. /\ toRadio' \in Seq(Orders) /\ Len(toRadio) \in Nat
          /\ DOMAIN toRadio = 1..Len(toRadio) /\ DOMAIN toRadio' = 1..Len(toRadio) + 1
          /\ \A i \in DOMAIN toRadio : toRadio'[i] = toRadio[i]
          /\ toRadio'[Len(toRadio) + 1] = o
          /\ \A i \in DOMAIN toRadio' : i \in DOMAIN toRadio \/ i = Len(toRadio) + 1
      BY <1>1, <2>1, <2>3, Appended
    <2>5. ASSUME NEW d \in Controls
          PROVE  /\ statuses'[d] \in Seq(Reports) /\ DOMAIN statuses'[d] = DOMAIN statuses[d]
                 /\ \A i \in DOMAIN statuses[d] :
                      /\ statuses'[d][i].params = statuses[d][i].params
                      /\ statuses'[d][i].current = ~HasFreq(statuses[d][i])
                      /\ HasFreq(statuses'[d][i]) <=> HasFreq(statuses[d][i])
      <3>1. statuses[d] \in Seq(Reports) /\ statuses'[d] = Marked(statuses[d])
        BY <1>1, <2>1
      <3> QED
        BY <3>1, MarkedReports
    <2>6. ControlShapes'
      <3>1. statuses' \in [Controls -> Seq(Reports)]
        BY <2>1, <2>5
      <3>2. \A d \in Controls : \A i \in DOMAIN statuses'[d] :
              HasFreq(statuses'[d][i]) => statuses'[d][i].params.freq \in Nat
        BY <1>1, <2>5 DEF ControlShapes
      <3>3. \A d \in Controls : \A i \in DOMAIN statuses'[d] :
              HasFreq(statuses[d][i])' => statuses'[d][i].params.freq \in Nat
        BY <3>2 DEF HasFreq
      <3>4. \A i \in DOMAIN toRadio' : HasFreq(toRadio'[i]) => toRadio'[i].params.freq \in Nat
        BY <1>1, <2>3, <2>4
      <3>5. \A i \in DOMAIN toRadio' : HasFreq(toRadio[i])' => toRadio'[i].params.freq \in Nat
        BY <3>4 DEF HasFreq
      <3> QED
        BY <1>1, <1>2, <1>3, <2>1, <2>4, <3>1, <3>3, <3>5 DEF ControlShapes
    <2>7. LastWord'
      <3> SUFFICES ASSUME makes # NaN
                   PROVE  \/ \E i \in DOMAIN toRadio' :
                               /\ HasFreq(toRadio'[i]) /\ toRadio'[i].params.freq = makes
                               /\ \A j \in DOMAIN toRadio' : j > i => ~HasFreq(toRadio'[j])
                          \/ radio.freq = makes /\ \A i \in DOMAIN toRadio' : ~HasFreq(toRadio'[i])
        BY <1>2, <2>1 DEF LastWord, HasFreq
      <3>1. CASE v.freq = view[c].freq /\ makes = expected
        <4>1. ~HasFreq(o)
          BY <2>3, <3>1
        <4>2. CASE radio.freq = expected /\ \A i \in DOMAIN toRadio : ~HasFreq(toRadio[i])
          BY <2>4, <3>1, <4>1, <4>2
        <4>3. CASE ~(radio.freq = expected /\ \A i \in DOMAIN toRadio : ~HasFreq(toRadio[i]))
          <5>1. PICK i \in DOMAIN toRadio :
                  /\ HasFreq(toRadio[i]) /\ toRadio[i].params.freq = expected
                  /\ \A j \in DOMAIN toRadio : j > i => ~HasFreq(toRadio[j])
            BY <1>1, <3>1, <4>3 DEF LastWord
          <5> QED
            BY <2>4, <3>1, <4>1, <5>1
        <4> QED
          BY <4>2, <4>3
      <3>2. CASE v.freq = makes /\ v.freq # view[c].freq
        <4>1. HasFreq(o) /\ o.params.freq = makes
          BY <2>3, <3>2
        <4>2. \A j \in DOMAIN toRadio' : ~(j > Len(toRadio) + 1)
          BY <2>4
        <4>3. Len(toRadio) + 1 \in DOMAIN toRadio'
          BY <2>4
        <4> QED
          BY <2>4, <4>1, <4>2, <4>3
      <3> QED
        BY <3>1, <3>2
    <2>8. Current'
      BY <2>5 DEF Current, HasFreq
    <2>9. Knowing'
      <3> SUFFICES ASSUME makes # NaN, NEW d \in Controls, HasNews(d)'
                   PROVE  view'[d].freq \in {NaN, makes}
        BY <2>1 DEF Knowing
      <3>1. d = c
        BY <2>3, <2>4 DEF HasNews
      <3>2. CASE v.freq = makes
        BY <1>3, <3>1, <3>2
      <3>3. CASE v.freq = view[c].freq /\ makes = expected
        <4>1. \A i \in DOMAIN statuses[c] : ~HasFreq(statuses[c][i])
          <5>1. \A i \in DOMAIN statuses'[c] : statuses'[c][i].current
            BY <3>1 DEF HasNews
          <5> QED
            BY <2>5, <5>1
        <4>2. \A i \in DOMAIN statuses[c] : statuses[c][i].current
          BY <1>1, <4>1 DEF Current
        <4>3. \A i \in DOMAIN toRadio : toRadio[i].from = c
          BY <2>4, <3>1 DEF HasNews
        <4>4. HasNews(c)
          BY <4>2, <4>3 DEF HasNews
        <4> QED
          BY <1>1, <1>3, <3>1, <3>3, <4>1, <4>4 DEF Knowing
      <3> QED
        BY <3>2, <3>3
    <2> QED
      BY <2>6, <2>7, <2>8, <2>9 DEF ControlInv
  <1> QED
    BY <1>4, <1>5

\* An arrow key adds one to the frequency of the copy; the new one is expected when
\* no report can change the copy: then it has had the frequency that was expected.
LEMMA AdjustKeeps ==
  ASSUME ControlInv, NEW c \in Controls, Adjust(c)
  PROVE  ControlInv'
  <1> DEFINE step(f) == IF NaN \in {f, view[c].freq} THEN f ELSE f + 1
             v == [view[c] EXCEPT !.freq = step(@)]
             makes == IF Aware(c) THEN step(expected) ELSE NaN
  <1>1. /\ view[c] \in Whole /\ view[c].freq \in Nat \cup {NaN} /\ expected \in Nat \cup {NaN}
        /\ NaN \notin Nat /\ Knowing
    BY RemoteAssumption DEF ControlInv, ControlShapes
  <1>2. Press(c, v, makes)
    BY DEF Adjust
  <1>3. step(view[c].freq) \in Nat \cup {NaN} /\ makes \in Nat \cup {NaN}
    BY <1>1
  <1>4. v \in Whole /\ v.freq = step(view[c].freq)
    <2>1. "freq" \in Param /\ step(view[c].freq) \in Values
      BY <1>3 DEF Param, Values
    <2> HIDE DEF step
    <2> QED
      BY <1>1, <2>1 DEF Whole
  <1>5. ASSUME makes # NaN
        PROVE  \/ v.freq = view[c].freq /\ makes = expected
               \/ v.freq = makes /\ v.freq # view[c].freq
    <2>1. Aware(c) /\ expected # NaN /\ makes = step(expected)
      BY <1>1, <1>5
    <2>2. HasNews(c) /\ DOMAIN statuses[c] = {}
      BY <2>1 DEF Aware, HasNews
    <2>3. view[c].freq \in {NaN, expected}
      BY <1>1, <2>1, <2>2 DEF Knowing
    <2> QED
      BY <1>1, <1>4, <2>1, <2>3
  <1> HIDE DEF v, makes
  <1> QED
    BY <1>2, <1>3, <1>4, <1>5, PressKeeps

\* A mode has no frequency.
LEMMA SelectModeKeeps ==
  ASSUME ControlInv, NEW c \in Controls, SelectMode(c)
  PROVE  ControlInv'
  <1>1. PICK m \in Modes : Press(c, Over(Presets[m], view[c]), expected)
    BY DEF SelectMode
  <1>2. view[c] \in Whole /\ view[c].freq \in Nat \cup {NaN} /\ expected \in Nat \cup {NaN}
    BY DEF ControlInv, ControlShapes
  <1>3. Over(Presets[m], view[c]) \in Whole /\ Over(Presets[m], view[c]).freq = view[c].freq
    BY <1>2, PresetParts, Overridden
  <1> QED
    BY <1>1, <1>2, <1>3, PressKeeps

\* Neither has an option.
LEMMA ToggleOptionKeeps ==
  ASSUME ControlInv, NEW c \in Controls, ToggleOption(c)
  PROVE  ControlInv'
  <1> DEFINE w == view[c]
  <1>1. PICK v \in Toggled(w) : Press(c, v, expected)
    BY DEF ToggleOption
  <1>2. w \in Whole /\ w.freq \in Nat \cup {NaN} /\ expected \in Nat \cup {NaN}
    BY DEF ControlInv, ControlShapes
  <1> HIDE DEF w
  <1>3. Option \subseteq Param /\ "freq" \in Param /\ BOOLEAN \subseteq Values
    BY DEF Param, Setting, Values
  <1>4. ASSUME NEW a \in BOOLEAN, NEW b \in BOOLEAN
        PROVE  /\ [w EXCEPT !.pll = a] \in Whole /\ [w EXCEPT !.pll = a].freq = w.freq
               /\ [w EXCEPT !.square = b] \in Whole /\ [w EXCEPT !.square = b].freq = w.freq
               /\ [w EXCEPT !.env = a] \in Whole /\ [w EXCEPT !.env = a].freq = w.freq
               /\ [w EXCEPT !.pll = a, !.square = b] \in Whole
               /\ [w EXCEPT !.pll = a, !.square = b].freq = w.freq
    BY <1>2, <1>3 DEF Whole
  <1>5. v \in Whole /\ v.freq = w.freq
    <2>1. (~w.pll) \in BOOLEAN /\ (~w.env) \in BOOLEAN
      OBVIOUS
    <2> QED
      BY <1>4, <2>1 DEF Toggled
  <1> QED
    BY <1>1, <1>2, <1>5, PressKeeps DEF w

\* No step of radio, a control or its operator breaks the invariant.
LEMMA ControlStep ==
  ASSUME ControlInv, [ControlNext]_controlVars
  PROVE  ControlInv'
  <1>1. /\ radio \in Whole /\ radio.freq \in Nat /\ toRadio \in Seq(Orders)
    BY DEF ControlInv, ControlShapes
  <1>2. CASE Obey
    <2> DEFINE h == Head(toRadio)
    <2>1. /\ toRadio # <<>> /\ toRadio' = Tail(toRadio) /\ radio' = Over(h.params, radio)
          /\ SendRadioStatus(radio', 0) /\ UNCHANGED view
      BY <1>2 DEF Obey
    <2>2. h \in Orders
      BY <1>1, <2>1, Rest
    <2>3. h.params \in Parts
      BY <2>2 DEF Orders
    <2> HIDE DEF h
    <2>4. /\ radio' \in Whole
          /\ radio'.freq = IF HasFreq(h) THEN h.params.freq ELSE radio.freq
      BY <1>1, <2>1, <2>3, Overridden DEF HasFreq
    <2>5. Obeyed
      BY <2>1, <2>4 DEF Obeyed, h
    <2> QED
      BY <2>1, <2>4, <2>5, RadioKeeps
  <1>3. CASE SdrStatus
    <2>1. /\ \E t \in Tuners : radio' = [radio EXCEPT !.tuner = t]
          /\ SendRadioStatus(radio', full_status_counter) /\ UNCHANGED <<view, toRadio>>
      BY <1>3 DEF SdrStatus
    <2>2. radio' \in Whole /\ radio'.freq = radio.freq
      <3>1. Tuners \subseteq Values /\ "freq" \in Param
        BY DEF Values, Param
      <3> QED
        BY <1>1, <2>1, <3>1 DEF Whole
    <2> QED
      BY <2>1, <2>2, RadioKeeps
  <1>4. CASE Timeout
    <2>1. SendRadioStatus(radio, full_status_counter) /\ UNCHANGED <<radio, view, toRadio>>
      BY <1>4 DEF Timeout
    <2> QED
      BY <1>1, <2>1, RadioKeeps
  <1>5. ASSUME NEW c \in Controls, Receive(c) \/ Operator(c)
        PROVE  ControlInv'
    BY <1>5, ReceiveKeeps, AdjustKeeps, SelectModeKeeps, ToggleOptionKeeps DEF Operator
  <1>6. CASE UNCHANGED controlVars
    <2>1. UNCHANGED <<radio, view, toRadio, statuses, expected>>
      BY <1>6 DEF controlVars, paramVars, netVars
    <2> QED
      BY <2>1 DEF ControlInv, ControlShapes, LastWord, Current, Knowing, HasNews, HasFreq
  <1> QED
    BY <1>2, <1>3, <1>4, <1>5, <1>6 DEF ControlNext, Radio

\* In every behaviour of radio and its control programs, whatever is lost and
\* whoever presses keys: the last frequency radio was told is the expected one, and
\* a control that has all the news knows it (decode_radio_commands, send_status,
\* decode_radio_status, adjust_item).
THEOREM ControlInductive == ControlSpec => []ControlInv
  <1>1. ControlInit => ControlInv
    BY ControlBegins
  <1>2. ControlInv /\ [ControlNext]_controlVars => ControlInv'
    BY ControlStep
  <1> QED
    BY <1>1, <1>2, PTL DEF ControlSpec

\* For any number of controls, modes and keys: once radio has obeyed all commands
\* its frequency has moved by one for every press of an arrow key, unless something
\* was lost or a control worked from an old frequency (adjust_item,
\* decode_radio_status).
THEOREM StepsAddUpThm == ControlSpec => []StepsAddUp
  <1>1. ControlInv => StepsAddUp
    BY DEF ControlInv, LastWord, StepsAddUp
  <1> QED
    BY <1>1, ControlInductive, PTL
=============================================================================
