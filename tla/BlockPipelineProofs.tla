------------------------ MODULE BlockPipelineProofs ------------------------
(***************************************************************************)
(* The safety properties of BlockPipeline, for every set of demodulators   *)
(* and every number of blocks.                                             *)
(*                                                                         *)
(* The argument: the block numbers only grow and a claim takes a number    *)
(* nobody had (ClaimBounds, NoBlockClaimedTwice).  If the pipeline was     *)
(* caught up when the last FFT began, nobody can be busy before that block *)
(* is published, and from then on the one thread that claims it is the     *)
(* only user (OnTime), reads the spectrum while proc_samples only fills    *)
(* its input buffer, and finishes after every earlier block was sent.      *)
(*                                                                         *)
(* Then the two ends of the chain.  The last programs of packet radio:     *)
(* what aprsfeed loses has been paid for by an outage, because only a      *)
(* broken connection loses frames, those it holds and one more, and only   *)
(* an outage breaks it; and what the server has got and what still waits   *)
(* have increasing places among the frames packet has sent.                *)
(* radio's main and status threads, which both make the response of the    *)
(* filter: what either is about to put into use suits what was asked for,  *)
(* and it is made for the rate that the front end told.                    *)
(* And the AGC of the front end: as long as program and device agree on    *)
(* the gains, what its stages take adds up to no more than the change.     *)
(***************************************************************************)
EXTENDS BlockPipeline, AprsFeed, StartUp, ModularArithmetic, SequenceTheorems, FiniteSetTheorems

\* What the spectrum array holds at each point of execute_filter_input.
SpectrumPhase ==
  /\ inputPhase = "filling" => fdomain = masterBlock
  /\ inputPhase = "transform" => fdomain = Torn /\ masterBlock < MaxBlock
  /\ inputPhase = "publish" => fdomain = masterBlock + 1 /\ masterBlock < MaxBlock

\* No thread is ahead of the slave, the slave is not ahead of the master.
ClaimBounds ==
  /\ slaveBlock <= masterBlock
  /\ delivered <= slaveBlock
  /\ \A d \in Demods : claimed[d] <= slaveBlock

\* The pipeline's state when the last block was finished in time.
OnTime ==
  ~late =>
    /\ inputPhase # "filling" => CaughtUp
    /\ \A d \in Demods : phase[d] \in Busy =>
         /\ slaveBlock = masterBlock
         /\ claimed[d] = masterBlock
         /\ delivered < claimed[d]

IInv ==
  /\ TypeOK
  /\ SpectrumPhase
  /\ ClaimBounds
  /\ NoBlockClaimedTwice
  /\ OnTime
  /\ IntactWhenOnTime

USE PipelineAssumption DEF Block, Phase, Busy, Using, Goto, Broadcast

-----------------------------------------------------------------------------
\* Every variable keeps its type: block numbers stay within the blocks that
\* arrive and every thread is at a known place of its loop.
THEOREM TypeCorrect == Spec => []TypeOK
<1>1. Init => TypeOK
  <2> SUFFICES ASSUME Init PROVE TypeOK
    OBVIOUS
  <2>1. inputPhase \in {"filling", "transform", "publish"}
    BY DEF Init
  <2>2. 0 \in Block
    OBVIOUS
  <2>3. "check" \in Phase
    OBVIOUS
  <2>4. phase \in [Demods -> Phase]
    BY <2>3 DEF Init
  <2>5. claimed \in [Demods -> Block]
    BY <2>2 DEF Init
  <2>6. work \in [Demods -> Block \cup {Torn}]
    BY <2>2 DEF Init
  <2>7. late \in BOOLEAN /\ respOwner \in Demods \cup {Nobody} /\ demodType \in Demods
    BY DEF Init
  <2>8. QED
    BY <2>1, <2>2, <2>4, <2>5, <2>6, <2>7 DEF Init, TypeOK
<1>2. TypeOK /\ SpectrumPhase /\ [Next]_vars => TypeOK' /\ SpectrumPhase'
  <2> SUFFICES ASSUME TypeOK, SpectrumPhase, [Next]_vars
               PROVE  TypeOK' /\ SpectrumPhase'
    OBVIOUS
  <2> USE DEF TypeOK, SpectrumPhase, Torn
  <2>1. CASE BeginTransform
    BY <2>1 DEF BeginTransform
  <2>2. CASE EndTransform
    BY <2>2 DEF EndTransform
  <2>3. CASE Publish
    BY <2>3 DEF Publish
  <2>4. ASSUME NEW t \in Demods, SetDemodType(t)
        PROVE  TypeOK' /\ SpectrumPhase'
    BY <2>4 DEF SetDemodType
  <2>5. ASSUME NEW d \in Demods, CheckActive(d)
        PROVE  TypeOK' /\ SpectrumPhase'
    BY <2>5 DEF CheckActive
  <2>6. ASSUME NEW d \in Demods, Sleep(d)
        PROVE  TypeOK' /\ SpectrumPhase'
    BY <2>6 DEF Sleep
  <2>7. ASSUME NEW d \in Demods, Claim(d)
        PROVE  TypeOK' /\ SpectrumPhase'
    BY <2>7 DEF Claim
  <2>8. ASSUME NEW d \in Demods, BeginMultiply(d)
        PROVE  TypeOK' /\ SpectrumPhase'
    BY <2>8 DEF BeginMultiply
  <2>9. ASSUME NEW d \in Demods, BeginInverse(d)
        PROVE  TypeOK' /\ SpectrumPhase'
    BY <2>9 DEF BeginInverse
  <2>10. ASSUME NEW d \in Demods, BeginDemodulate(d)
         PROVE  TypeOK' /\ SpectrumPhase'
    BY <2>10 DEF BeginDemodulate
  <2>11. ASSUME NEW d \in Demods, SendOutput(d)
         PROVE  TypeOK' /\ SpectrumPhase'
    BY <2>11 DEF SendOutput
  <2>12. ASSUME NEW d \in Demods, SpuriousWakeup(d)
         PROVE  TypeOK' /\ SpectrumPhase'
    BY <2>12 DEF SpuriousWakeup
  <2>13. CASE UNCHANGED vars
    BY <2>13 DEF vars
  <2>14. QED
    BY <2>1, <2>2, <2>3, <2>4, <2>5, <2>6, <2>7, <2>8, <2>9, <2>10, <2>11, <2>12,
       <2>13 DEF Next, ProcSamples, DemodThread
<1>3. Init => SpectrumPhase
  BY DEF Init, SpectrumPhase
<1>4. QED
  BY <1>1, <1>2, <1>3, PTL DEF Spec

-----------------------------------------------------------------------------
\* Nobody sleeps through a block, nobody stays parked while it is the active
\* demodulator: the tests and the broadcasts are under the same mutexes.
THEOREM NoLostWakeupThm == Spec => []NoLostWakeup
<1>1. Init => NoLostWakeup
  BY DEF Init, NoLostWakeup
<1>2. TypeOK /\ NoLostWakeup /\ [Next]_vars => NoLostWakeup'
  <2> SUFFICES ASSUME TypeOK, NoLostWakeup, [Next]_vars
               PROVE  NoLostWakeup'
    OBVIOUS
  <2> USE DEF TypeOK, NoLostWakeup
  <2>1. CASE BeginTransform
    BY <2>1 DEF BeginTransform
  <2>2. CASE EndTransform
    BY <2>2 DEF EndTransform
  <2>3. CASE Publish
    BY <2>3 DEF Publish
  <2>4. ASSUME NEW t \in Demods, SetDemodType(t)
        PROVE  NoLostWakeup'
    BY <2>4 DEF SetDemodType
  <2>5. ASSUME NEW d \in Demods, CheckActive(d)
        PROVE  NoLostWakeup'
    BY <2>5 DEF CheckActive
  <2>6. ASSUME NEW d \in Demods, Sleep(d)
        PROVE  NoLostWakeup'
    BY <2>6 DEF Sleep
  <2>7. ASSUME NEW d \in Demods, Claim(d)
        PROVE  NoLostWakeup'
    BY <2>7 DEF Claim
  <2>8. ASSUME NEW d \in Demods, BeginMultiply(d)
        PROVE  NoLostWakeup'
    BY <2>8 DEF BeginMultiply
  <2>9. ASSUME NEW d \in Demods, BeginInverse(d)
        PROVE  NoLostWakeup'
    BY <2>9 DEF BeginInverse
  <2>10. ASSUME NEW d \in Demods, BeginDemodulate(d)
        PROVE  NoLostWakeup'
    BY <2>10 DEF BeginDemodulate
  <2>11. ASSUME NEW d \in Demods, SendOutput(d)
        PROVE  NoLostWakeup'
    BY <2>11 DEF SendOutput
  <2>12. ASSUME NEW d \in Demods, SpuriousWakeup(d)
        PROVE  NoLostWakeup'
    BY <2>12 DEF SpuriousWakeup
  <2>13. CASE UNCHANGED vars
    BY <2>13 DEF vars
  <2>14. QED
    BY <2>1, <2>2, <2>3, <2>4, <2>5, <2>6, <2>7, <2>8, <2>9, <2>10, <2>11, <2>12, <2>13
       DEF Next, ProcSamples, DemodThread
<1>3. QED
  BY <1>1, <1>2, TypeCorrect, PTL DEF Spec

-----------------------------------------------------------------------------
\* The order of the block numbers, and the numbers of busy threads: a claim
\* takes the master's number, which is above every number claimed before.
LEMMA ClaimStep ==
  ASSUME TypeOK, ClaimBounds, NoBlockClaimedTwice, [Next]_vars
  PROVE  ClaimBounds' /\ NoBlockClaimedTwice'
<1> USE DEF TypeOK, ClaimBounds, NoBlockClaimedTwice
<1>1. CASE BeginTransform
  BY <1>1 DEF BeginTransform
<1>2. CASE EndTransform
  BY <1>2 DEF EndTransform
<1>3. CASE Publish
  BY <1>3 DEF Publish
<1>4. ASSUME NEW t \in Demods, SetDemodType(t)
      PROVE  ClaimBounds' /\ NoBlockClaimedTwice'
  BY <1>4 DEF SetDemodType
<1>5. ASSUME NEW d \in Demods, CheckActive(d)
      PROVE  ClaimBounds' /\ NoBlockClaimedTwice'
  BY <1>5 DEF CheckActive
<1>6. ASSUME NEW d \in Demods, Sleep(d)
      PROVE  ClaimBounds' /\ NoBlockClaimedTwice'
  BY <1>6 DEF Sleep
<1>7. ASSUME NEW d \in Demods, Claim(d)
      PROVE  ClaimBounds' /\ NoBlockClaimedTwice'
  BY <1>7 DEF Claim
<1>8. ASSUME NEW d \in Demods, BeginMultiply(d)
      PROVE  ClaimBounds' /\ NoBlockClaimedTwice'
  BY <1>8 DEF BeginMultiply
<1>9. ASSUME NEW d \in Demods, BeginInverse(d)
      PROVE  ClaimBounds' /\ NoBlockClaimedTwice'
  BY <1>9 DEF BeginInverse
<1>10. ASSUME NEW d \in Demods, BeginDemodulate(d)
      PROVE  ClaimBounds' /\ NoBlockClaimedTwice'
  BY <1>10 DEF BeginDemodulate
<1>11. ASSUME NEW d \in Demods, SendOutput(d)
      PROVE  ClaimBounds' /\ NoBlockClaimedTwice'
  BY <1>11 DEF SendOutput
<1>12. ASSUME NEW d \in Demods, SpuriousWakeup(d)
      PROVE  ClaimBounds' /\ NoBlockClaimedTwice'
  BY <1>12 DEF SpuriousWakeup
<1>13. CASE UNCHANGED vars
  BY <1>13 DEF vars
<1>14. QED
  BY <1>1, <1>2, <1>3, <1>4, <1>5, <1>6, <1>7,
     <1>8, <1>9, <1>10, <1>11, <1>12, <1>13
  DEF Next, ProcSamples, DemodThread

\* Once caught up, the pipeline stays so until the block is published, and the
\* thread that claims it is alone until the next FFT begins.
LEMMA OnTimeStep ==
  ASSUME TypeOK, SpectrumPhase, ClaimBounds, NoBlockClaimedTwice, OnTime,
         [Next]_vars
  PROVE  OnTime'
<1> USE DEF TypeOK, SpectrumPhase, ClaimBounds, NoBlockClaimedTwice, OnTime,
            CaughtUp, Idle
<1>1. CASE BeginTransform
  BY <1>1 DEF BeginTransform
<1>2. CASE EndTransform
  BY <1>2 DEF EndTransform
<1>3. CASE Publish
  BY <1>3 DEF Publish
<1>4. ASSUME NEW t \in Demods, SetDemodType(t)
      PROVE  OnTime'
  BY <1>4 DEF SetDemodType
<1>5. ASSUME NEW d \in Demods, CheckActive(d)
      PROVE  OnTime'
  BY <1>5 DEF CheckActive
<1>6. ASSUME NEW d \in Demods, Sleep(d)
      PROVE  OnTime'
  BY <1>6 DEF Sleep
<1>7. ASSUME NEW d \in Demods, Claim(d)
      PROVE  OnTime'
  BY <1>7 DEF Claim
<1>8. ASSUME NEW d \in Demods, BeginMultiply(d)
      PROVE  OnTime'
  BY <1>8 DEF BeginMultiply
<1>9. ASSUME NEW d \in Demods, BeginInverse(d)
      PROVE  OnTime'
  BY <1>9 DEF BeginInverse
<1>10. ASSUME NEW d \in Demods, BeginDemodulate(d)
      PROVE  OnTime'
  BY <1>10 DEF BeginDemodulate
<1>11. ASSUME NEW d \in Demods, SendOutput(d)
      PROVE  OnTime'
  BY <1>11 DEF SendOutput
<1>12. ASSUME NEW d \in Demods, SpuriousWakeup(d)
      PROVE  OnTime'
  BY <1>12 DEF SpuriousWakeup
<1>13. CASE UNCHANGED vars
  BY <1>13 DEF vars
<1>14. QED
  BY <1>1, <1>2, <1>3, <1>4, <1>5, <1>6, <1>7,
     <1>8, <1>9, <1>10, <1>11, <1>12, <1>13
  DEF Next, ProcSamples, DemodThread

\* On time, the only user reads a spectrum nobody is writing and arrays nobody
\* else touches.
LEMMA IntactStep ==
  ASSUME TypeOK, SpectrumPhase, ClaimBounds, NoBlockClaimedTwice, OnTime,
         IntactWhenOnTime, [Next]_vars
  PROVE  IntactWhenOnTime'
<1> USE DEF TypeOK, SpectrumPhase, ClaimBounds, NoBlockClaimedTwice, OnTime,
            CaughtUp, Idle, IntactWhenOnTime, Torn
<1>1. CASE BeginTransform
  BY <1>1 DEF BeginTransform
<1>2. CASE EndTransform
  BY <1>2 DEF EndTransform
<1>3. CASE Publish
  BY <1>3 DEF Publish
<1>4. ASSUME NEW t \in Demods, SetDemodType(t)
      PROVE  IntactWhenOnTime'
  BY <1>4 DEF SetDemodType
<1>5. ASSUME NEW d \in Demods, CheckActive(d)
      PROVE  IntactWhenOnTime'
  BY <1>5 DEF CheckActive
<1>6. ASSUME NEW d \in Demods, Sleep(d)
      PROVE  IntactWhenOnTime'
  BY <1>6 DEF Sleep
<1>7. ASSUME NEW d \in Demods, Claim(d)
      PROVE  IntactWhenOnTime'
  BY <1>7 DEF Claim
<1>8. ASSUME NEW d \in Demods, BeginMultiply(d)
      PROVE  IntactWhenOnTime'
  BY <1>8 DEF BeginMultiply
<1>9. ASSUME NEW d \in Demods, BeginInverse(d)
      PROVE  IntactWhenOnTime'
  BY <1>9 DEF BeginInverse
<1>10. ASSUME NEW d \in Demods, BeginDemodulate(d)
      PROVE  IntactWhenOnTime'
  BY <1>10 DEF BeginDemodulate
<1>11. ASSUME NEW d \in Demods, SendOutput(d)
      PROVE  IntactWhenOnTime'
  BY <1>11 DEF SendOutput
<1>12. ASSUME NEW d \in Demods, SpuriousWakeup(d)
      PROVE  IntactWhenOnTime'
  BY <1>12 DEF SpuriousWakeup
<1>13. CASE UNCHANGED vars
  BY <1>13 DEF vars
<1>14. QED
  BY <1>1, <1>2, <1>3, <1>4, <1>5, <1>6, <1>7,
     <1>8, <1>9, <1>10, <1>11, <1>12, <1>13
  DEF Next, ProcSamples, DemodThread

\* At the start no block has been published and none is claimed.
LEMMA InitIInv == Init => SpectrumPhase /\ ClaimBounds /\ NoBlockClaimedTwice
                          /\ OnTime /\ IntactWhenOnTime
  BY DEF Init, SpectrumPhase, ClaimBounds, NoBlockClaimedTwice, OnTime,
         IntactWhenOnTime

\* Every step of the pipeline keeps what the spectrum array holds at each point.
LEMMA SpectrumStep ==
  ASSUME TypeOK, SpectrumPhase, [Next]_vars
  PROVE  SpectrumPhase'
<1> USE DEF TypeOK, SpectrumPhase
<1>1. CASE BeginTransform
  BY <1>1 DEF BeginTransform
<1>2. CASE EndTransform
  BY <1>2 DEF EndTransform
<1>3. CASE Publish
  BY <1>3 DEF Publish
<1>4. ASSUME NEW t \in Demods, SetDemodType(t)
      PROVE  SpectrumPhase'
  BY <1>4 DEF SetDemodType
<1>5. ASSUME NEW d \in Demods, CheckActive(d)
      PROVE  SpectrumPhase'
  BY <1>5 DEF CheckActive
<1>6. ASSUME NEW d \in Demods, Sleep(d)
      PROVE  SpectrumPhase'
  BY <1>6 DEF Sleep
<1>7. ASSUME NEW d \in Demods, Claim(d)
      PROVE  SpectrumPhase'
  BY <1>7 DEF Claim
<1>8. ASSUME NEW d \in Demods, BeginMultiply(d)
      PROVE  SpectrumPhase'
  BY <1>8 DEF BeginMultiply
<1>9. ASSUME NEW d \in Demods, BeginInverse(d)
      PROVE  SpectrumPhase'
  BY <1>9 DEF BeginInverse
<1>10. ASSUME NEW d \in Demods, BeginDemodulate(d)
      PROVE  SpectrumPhase'
  BY <1>10 DEF BeginDemodulate
<1>11. ASSUME NEW d \in Demods, SendOutput(d)
      PROVE  SpectrumPhase'
  BY <1>11 DEF SendOutput
<1>12. ASSUME NEW d \in Demods, SpuriousWakeup(d)
      PROVE  SpectrumPhase'
  BY <1>12 DEF SpuriousWakeup
<1>13. CASE UNCHANGED vars
  BY <1>13 DEF vars
<1>14. QED
  BY <1>1, <1>2, <1>3, <1>4, <1>5, <1>6, <1>7,
     <1>8, <1>9, <1>10, <1>11, <1>12, <1>13
  DEF Next, ProcSamples, DemodThread

\* The inductive invariant.
LEMMA Inductive == Spec => []IInv
<1>1. Init => SpectrumPhase /\ ClaimBounds /\ NoBlockClaimedTwice
             /\ OnTime /\ IntactWhenOnTime
  BY InitIInv
<1>2. TypeOK /\ IInv /\ [Next]_vars =>
        SpectrumPhase' /\ ClaimBounds' /\ NoBlockClaimedTwice'
        /\ OnTime' /\ IntactWhenOnTime'
  BY SpectrumStep, ClaimStep, OnTimeStep, IntactStep DEF IInv
<1>3. QED
  BY <1>1, <1>2, TypeCorrect, PTL DEF Spec, IInv

\* No block is claimed by two threads.
THEOREM NoBlockClaimedTwiceThm == Spec => []NoBlockClaimedTwice
<1>1. IInv => NoBlockClaimedTwice
  BY DEF IInv
<1>2. QED
  BY <1>1, Inductive, PTL

\* On time, the slave's arrays and the output's RTP state have one user.
THEOREM OneUserThm == Spec => []OneUserWhenOnTime
<1>1. IInv => OneUserWhenOnTime
  BY DEF IInv, OnTime, NoBlockClaimedTwice, OneUserWhenOnTime
<1>2. QED
  BY <1>1, Inductive, PTL

\* On time, every demodulator uses exactly the block it claimed.
THEOREM IntactThm == Spec => []IntactWhenOnTime
<1>1. IInv => IntactWhenOnTime
  BY DEF IInv
<1>2. QED
  BY <1>1, Inductive, PTL

\* On time, what no mutex protects is safe.
THEOREM SafeThm == Spec => []SafeWhenOnTime
<1>1. OneUserWhenOnTime /\ IntactWhenOnTime => SafeWhenOnTime
  BY DEF SafeWhenOnTime
<1>2. QED
  BY <1>1, OneUserThm, IntactThm, PTL

\* On time, the audio of the blocks leaves in order.
THEOREM InOrderThm == Spec => InOrderWhenOnTime
<1>1. IInv /\ [Next]_vars => [~late /\ delivered' # delivered => delivered' > delivered]_vars
  <2> SUFFICES ASSUME IInv, [Next]_vars, ~late, delivered' # delivered
               PROVE  delivered' > delivered
    OBVIOUS
  <2> USE DEF IInv, TypeOK, OnTime
  <2>1. CASE BeginTransform
    BY <2>1 DEF BeginTransform
  <2>2. CASE EndTransform
    BY <2>2 DEF EndTransform
  <2>3. CASE Publish
    BY <2>3 DEF Publish
  <2>4. ASSUME NEW t \in Demods, SetDemodType(t)
        PROVE  delivered' > delivered
    BY <2>4 DEF SetDemodType
  <2>5. ASSUME NEW d \in Demods, CheckActive(d)
        PROVE  delivered' > delivered
    BY <2>5 DEF CheckActive
  <2>6. ASSUME NEW d \in Demods, Sleep(d)
        PROVE  delivered' > delivered
    BY <2>6 DEF Sleep
  <2>7. ASSUME NEW d \in Demods, Claim(d)
        PROVE  delivered' > delivered
    BY <2>7 DEF Claim
  <2>8. ASSUME NEW d \in Demods, BeginMultiply(d)
        PROVE  delivered' > delivered
    BY <2>8 DEF BeginMultiply
  <2>9. ASSUME NEW d \in Demods, BeginInverse(d)
        PROVE  delivered' > delivered
    BY <2>9 DEF BeginInverse
  <2>10. ASSUME NEW d \in Demods, BeginDemodulate(d)
        PROVE  delivered' > delivered
    BY <2>10 DEF BeginDemodulate
  <2>11. ASSUME NEW d \in Demods, SendOutput(d)
        PROVE  delivered' > delivered
    BY <2>11 DEF SendOutput
  <2>12. ASSUME NEW d \in Demods, SpuriousWakeup(d)
        PROVE  delivered' > delivered
    BY <2>12 DEF SpuriousWakeup
  <2>13. CASE UNCHANGED vars
    BY <2>13 DEF vars
  <2>14. QED
    BY <2>1, <2>2, <2>3, <2>4, <2>5, <2>6, <2>7,
       <2>8, <2>9, <2>10, <2>11, <2>12, <2>13
    DEF Next, ProcSamples, DemodThread
<1>2. QED
  BY <1>1, Inductive, PTL DEF Spec, InOrderWhenOnTime

\* Who works, on what, and what was heard stay as they are.
NobodyServed ==
  /\ UNCHANGED <<masterBlock, claimed, delivered>>
  /\ \A e \in Demods : phase'[e] \in Busy <=> phase[e] \in Busy

\* Such a step is none of the mailbox's.
LEMMA MailboxStutters ==
  ASSUME NobodyServed
  PROVE  UNCHANGED Mailbox!mailVars
  <1>1. \A e \in Demods : (phase'[e] \in Busy) = (phase[e] \in Busy)
    BY DEF NobodyServed
  <1>2. [e \in Demods |-> phase'[e] \in Busy] = [e \in Demods |-> phase[e] \in Busy]
    BY <1>1
  <1> QED
    BY <1>2 DEF NobodyServed, Mailbox!mailVars

\* A thread that goes between two places outside the loop's body, or within
\* it, leaves everybody's share of the work alone.
LEMMA GoesOn ==
  ASSUME TypeOK, NEW d \in Demods, NEW p \in Phase, Goto(d, p),
         p \in Busy <=> phase[d] \in Busy
  PROVE  \A e \in Demods : phase'[e] \in Busy <=> phase[e] \in Busy
  BY DEF TypeOK

\* A broadcast wakes threads that do not work and sets none to work.
LEMMA WokenOnly ==
  ASSUME TypeOK, NEW from, NEW to, Broadcast(from, to),
         from \notin Busy, to \notin Busy
  PROVE  \A e \in Demods : phase'[e] \in Busy <=> phase[e] \in Busy
  BY DEF TypeOK

\* A claim hands the newest block to one reader; nobody was handed it before,
\* because no claim ever exceeds the slave's number and that number differs.
LEMMA ClaimTakes ==
  ASSUME TypeOK, ClaimBounds, NEW d \in Demods, Claim(d)
  PROVE  Mailbox!Take(d)
  <1>1. phase[d] = "poll" /\ phase[d] \notin Busy
    BY DEF Claim
  <1>2. slaveBlock \in Nat /\ masterBlock \in Nat /\ \A q \in Demods : claimed[q] \in Nat
    BY DEF TypeOK
  <1>3. slaveBlock < masterBlock
    BY <1>2 DEF Claim, ClaimBounds
  <1>4. \A q \in Demods : claimed[q] < masterBlock
    <2>1. TAKE q \in Demods
    <2>2. claimed[q] \in Nat /\ claimed[q] <= slaveBlock
      BY <1>2 DEF ClaimBounds
    <2> QED
      BY <1>2, <1>3, <2>2
  <1>5. \A e \in Demods : (phase'[e] \in Busy) = IF e = d THEN TRUE ELSE phase[e] \in Busy
    BY DEF Claim, TypeOK
  <1>6. [e \in Demods |-> phase'[e] \in Busy]
          = [[e \in Demods |-> phase[e] \in Busy] EXCEPT ![d] = TRUE]
    BY <1>5
  <1> QED
    BY <1>1, <1>4, <1>6 DEF Claim, Mailbox!Take

\* The thread that sends has done with its block.
LEMMA OutputSends ==
  ASSUME TypeOK, NEW d \in Demods, SendOutput(d)
  PROVE  Mailbox!Send(d)
  <1>1. phase[d] = "demodulate" /\ phase[d] \in Busy
    BY DEF SendOutput
  <1>2. \A e \in Demods : (phase'[e] \in Busy) = IF e = d THEN FALSE ELSE phase[e] \in Busy
    <2>1. TAKE e \in Demods
    <2>2. phase'[e] = IF e = d THEN "check" ELSE phase[e]
      BY DEF SendOutput, TypeOK
    <2>3. CASE e = d
      <3>1. phase'[e] \notin Busy
        BY <2>2, <2>3
      <3>2. (phase'[e] \in Busy) = FALSE
        BY <3>1
      <3> QED
        BY <2>3, <3>2, Zenon
    <2>4. CASE e # d
      <3>1. phase'[e] = phase[e]
        BY <2>2, <2>4
      <3> QED
        BY <2>4, <3>1
    <2> QED
      BY <2>3, <2>4
  <1>3. [e \in Demods |-> phase'[e] \in Busy]
          = [[e \in Demods |-> phase[e] \in Busy] EXCEPT ![d] = FALSE]
    BY <1>2
  <1> QED
    BY <1>1, <1>3 DEF SendOutput, Mailbox!Send

\* The threads, which share one pair of block numbers, implement a mailbox
\* whose readers know nothing of each other: every block is handed out once,
\* as the newest, and sent once, however often a thread is woken for nothing.
THEOREM MailboxThm == Spec => ImplementsMailbox
<1>1. Init => Mailbox!MailInit
  <2> SUFFICES ASSUME Init PROVE Mailbox!MailInit
    OBVIOUS
  <2>1. \A d \in Demods : (phase[d] \in Busy) = FALSE
    <3>1. TAKE d \in Demods
    <3>2. phase[d] \notin Busy
      BY DEF Init
    <3> QED
      BY <3>2
  <2>2. [d \in Demods |-> phase[d] \in Busy] = [d \in Demods |-> FALSE]
    BY <2>1
  <2> QED
    BY <2>2 DEF Init, Mailbox!MailInit
<1>2. IInv /\ [Next]_vars => [Mailbox!MailNext]_(Mailbox!mailVars)
  <2> SUFFICES ASSUME IInv, [Next]_vars
               PROVE  Mailbox!MailNext \/ UNCHANGED Mailbox!mailVars
    OBVIOUS
  <2>0. TypeOK /\ ClaimBounds
    BY DEF IInv
  <2>1. ASSUME NobodyServed
        PROVE  Mailbox!MailNext \/ UNCHANGED Mailbox!mailVars
    BY <2>1, MailboxStutters
  <2>2. CASE BeginTransform \/ EndTransform
    <3>1. NobodyServed
      BY <2>2 DEF BeginTransform, EndTransform, NobodyServed
    <3> QED
      BY <3>1, <2>1
  <2>3. CASE Publish
    <3>1. \A e \in Demods : (phase'[e] \in Busy) = (phase[e] \in Busy)
      BY <2>0, <2>3, WokenOnly DEF Publish
    <3>2. [e \in Demods |-> phase'[e] \in Busy] = [e \in Demods |-> phase[e] \in Busy]
      BY <3>1
    <3>3. Mailbox!Post
      BY <2>3, <3>2 DEF Publish, Mailbox!Post
    <3> QED
      BY <3>3 DEF Mailbox!MailNext
  <2>4. ASSUME NEW t \in Demods, SetDemodType(t)
        PROVE  Mailbox!MailNext \/ UNCHANGED Mailbox!mailVars
    <3>1. NobodyServed
      BY <2>0, <2>4, WokenOnly DEF SetDemodType, NobodyServed
    <3> QED
      BY <3>1, <2>1
  <2>5. ASSUME NEW d \in Demods,
               CheckActive(d) \/ Sleep(d) \/ SpuriousWakeup(d)
        PROVE  Mailbox!MailNext \/ UNCHANGED Mailbox!mailVars
    <3>1. UNCHANGED <<masterBlock, claimed, delivered>>
      BY <2>5 DEF CheckActive, Sleep, SpuriousWakeup
    <3>2. PICK p \in {"check", "poll", "parked", "asleep"} : Goto(d, p)
      BY <2>5 DEF CheckActive, Sleep, SpuriousWakeup
    <3>3. p \in Phase /\ p \notin Busy /\ phase[d] \notin Busy
      BY <2>5 DEF CheckActive, Sleep, SpuriousWakeup
    <3>4. NobodyServed
      BY <2>0, <3>1, <3>2, <3>3, GoesOn DEF NobodyServed
    <3> QED
      BY <3>4, <2>1
  <2>6. ASSUME NEW d \in Demods,
               BeginMultiply(d) \/ BeginInverse(d) \/ BeginDemodulate(d)
        PROVE  Mailbox!MailNext \/ UNCHANGED Mailbox!mailVars
    <3>1. UNCHANGED <<masterBlock, claimed, delivered>>
      BY <2>6 DEF BeginMultiply, BeginInverse, BeginDemodulate
    <3>2. PICK p \in Using : Goto(d, p)
      BY <2>6 DEF BeginMultiply, BeginInverse, BeginDemodulate
    <3>3. p \in Phase /\ p \in Busy /\ phase[d] \in Busy
      BY <2>6 DEF BeginMultiply, BeginInverse, BeginDemodulate
    <3>4. NobodyServed
      BY <2>0, <3>1, <3>2, <3>3, GoesOn DEF NobodyServed
    <3> QED
      BY <3>4, <2>1
  <2>7. ASSUME NEW d \in Demods, Claim(d)
        PROVE  Mailbox!MailNext \/ UNCHANGED Mailbox!mailVars
    BY <2>0, <2>7, ClaimTakes DEF Mailbox!MailNext
  <2>8. ASSUME NEW d \in Demods, SendOutput(d)
        PROVE  Mailbox!MailNext \/ UNCHANGED Mailbox!mailVars
    BY <2>0, <2>8, OutputSends DEF Mailbox!MailNext
  <2>9. CASE UNCHANGED vars
    <3>1. NobodyServed
      BY <2>9 DEF vars, NobodyServed
    <3> QED
      BY <3>1, <2>1
  <2> QED
    BY <2>2, <2>3, <2>4, <2>5, <2>6, <2>7, <2>8, <2>9 DEF Next, ProcSamples, DemodThread
<1>3. QED
  BY <1>1, <1>2, Inductive, PTL DEF Spec, ImplementsMailbox, Mailbox!MailSpec

-----------------------------------------------------------------------------
(* aprsfeed and its server *)

\* What the outages have paid for.
Paid == outages * (SendBuffer + 1)

\* Frames that a connection may still lose without another outage.
AtRisk == CASE peer = "gone" -> SendBuffer + 1 [] peer = "reset" -> 1 [] OTHER -> 0

\* A sequence, of whatever it holds.
IsSequence(s) == s \in Seq({s[i] : i \in 1..Len(s)})

\* There is a connection from connect to the first write that fails.
Connection ==
  /\ conn \in {"resolve", "connect", "login", "relay"}
  /\ peer \in {"none", "open", "gone", "reset"}
  /\ peer = "none" <=> conn \in {"resolve", "connect"}

\* What is in flight fits in the connection's buffers, with the line that waits.
InFlight ==
  /\ IsSequence(wire) /\ Len(wire) <= SendBuffer + 1
  /\ peer \in {"none", "reset"} => Len(wire) = 0

\* What is lost, and may be, has been paid for by an outage.
LossesPaid == Len(failed) + AtRisk <= Paid

FeedInv == Connection /\ InFlight /\ IsSequence(failed) /\ outages \in Nat /\ LossesPaid

\* One element more.
LEMMA AppendGrows ==
  ASSUME NEW s, IsSequence(s), NEW e
  PROVE  /\ Len(s) \in Nat /\ Len(Append(s, e)) = Len(s) + 1
         /\ IsSequence(Append(s, e))
  <1> DEFINE S == {s[i] : i \in 1..Len(s)} \cup {e}
             t == Append(s, e)
  <1>1. s \in Seq(S) /\ e \in S
    <2>1. s \in Seq({s[i] : i \in 1..Len(s)})
      BY DEF IsSequence
    <2>2. Len(s) \in Nat
      BY <2>1, LenProperties
    <2>3. \A i \in 1..Len(s) : s[i] \in S
      OBVIOUS
    <2> HIDE DEF S
    <2>4. s \in [1..Len(s) -> S]
      BY <2>1, <2>3, LenProperties
    <2>5. s \in Seq(S)
      BY <2>2, <2>4, SeqDef
    <2> QED
      BY <2>5 DEF S
  <1> HIDE DEF S
  <1>2. t \in Seq(S) /\ Len(t) = Len(s) + 1 /\ Len(s) \in Nat
    BY <1>1, AppendProperties, LenProperties
  <1> HIDE DEF t
  <1>3. IsSequence(t)
    <2> DEFINE T == {t[i] : i \in 1..Len(t)}
    <2>1. Len(t) \in Nat /\ t \in [1..Len(t) -> S]
      BY <1>2, LenProperties
    <2>2. \A i \in 1..Len(t) : t[i] \in T
      OBVIOUS
    <2> HIDE DEF T
    <2>3. t \in [1..Len(t) -> T]
      BY <2>1, <2>2
    <2>4. t \in Seq(T)
      BY <2>1, <2>3, SeqDef
    <2> QED
      BY <2>4 DEF IsSequence, T
  <1> QED
    BY <1>2, <1>3 DEF t

\* A function of the first numbers is a sequence.
LEMMA FunctionIsSequence ==
  ASSUME NEW n \in Nat, NEW s, s = [i \in 1..n |-> s[i]]
  PROVE  IsSequence(s) /\ Len(s) = n /\ DOMAIN s = 1..n
  <1> DEFINE S == {s[i] : i \in 1..n}
  <1>1. \A i \in 1..n : s[i] \in S
    OBVIOUS
  <1> HIDE DEF S
  <1>2. s \in [1..n -> S]
    BY <1>1
  <1>3. s \in Seq(S)
    BY <1>2, SeqDef
  <1>4. DOMAIN s = 1..n
    BY <1>2
  <1>5. Len(s) = n
    <2>1. Len(s) \in Nat /\ DOMAIN s = 1..Len(s)
      BY <1>3, LenProperties
    <2> QED
      BY <1>4, <2>1
  <1> QED
    BY <1>3, <1>4, <1>5 DEF IsSequence, S

\* Two sequences, one after the other.
LEMMA ConcatGrows ==
  ASSUME NEW s, IsSequence(s), NEW t, IsSequence(t), NEW u, u = s \o t
  PROVE  /\ Len(s) \in Nat /\ Len(t) \in Nat /\ Len(u) = Len(s) + Len(t)
         /\ \A i \in 1..Len(s) : u[i] = s[i]
         /\ \A i \in 1..Len(t) : u[Len(s) + i] = t[i]
         /\ IsSequence(u)
  <1> DEFINE S == {s[i] : i \in 1..Len(s)}
             T == {t[i] : i \in 1..Len(t)}
  <1>1. s \in Seq(S) /\ t \in Seq(T)
    BY DEF IsSequence
  <1> HIDE DEF S, T
  <1>2. /\ Len(s) \in Nat /\ s \in [1..Len(s) -> S]
        /\ Len(t) \in Nat /\ t \in [1..Len(t) -> T]
    BY <1>1, LenProperties
  <1>3. s \in Seq(S \cup T) /\ t \in Seq(S \cup T)
    <2>1. s \in [1..Len(s) -> S \cup T] /\ t \in [1..Len(t) -> S \cup T]
      BY <1>2
    <2>2. s \in Seq(S \cup T)
      BY <1>2, <2>1, SeqDef
    <2>3. t \in Seq(S \cup T)
      BY <1>2, <2>1, SeqDef
    <2> QED
      BY <2>2, <2>3
  <1>5. /\ u \in Seq(S \cup T) /\ Len(u) = Len(s) + Len(t)
        /\ \A i \in 1..Len(s) + Len(t) : u[i] = IF i <= Len(s) THEN s[i] ELSE t[i - Len(s)]
    BY <1>3, ConcatProperties
  <1>6. \A i \in 1..Len(s) : u[i] = s[i]
    BY <1>2, <1>5
  <1>7. \A i \in 1..Len(t) : u[Len(s) + i] = t[i]
    BY <1>2, <1>5
  <1>8. IsSequence(u)
    <2>1. Len(u) \in Nat /\ u \in [1..Len(u) -> S \cup T]
      BY <1>5, LenProperties
    <2>2. u = [i \in 1..Len(u) |-> u[i]]
      BY <2>1
    <2> QED
      BY <2>1, <2>2, FunctionIsSequence
  <1> QED
    BY <1>2, <1>5, <1>6, <1>7, <1>8

\* One element fewer.
LEMMA TailShrinks ==
  ASSUME NEW s, IsSequence(s), s # <<>>
  PROVE  /\ Len(s) \in Nat \ {0} /\ Len(Tail(s)) = Len(s) - 1
         /\ IsSequence(Tail(s))
  <1> DEFINE S == {s[i] : i \in 1..Len(s)}
             t == Tail(s)
  <1>1. s \in Seq(S)
    BY DEF IsSequence
  <1> HIDE DEF S
  <1>2. Len(s) \in Nat \ {0} /\ t \in Seq(S) /\ Len(t) = Len(s) - 1
    BY <1>1, EmptySeq, HeadTailProperties
  <1> HIDE DEF t
  <1>3. Len(t) \in Nat /\ t \in [1..Len(t) -> S]
    BY <1>2, LenProperties
  <1>4. t = [i \in 1..Len(t) |-> t[i]]
    BY <1>3
  <1>5. IsSequence(t)
    BY <1>3, <1>4, FunctionIsSequence
  <1> QED
    BY <1>2, <1>5 DEF t

\* An outage pays for what a connection holds and one frame more.
LEMMA OutagePays ==
  ASSUME outages \in Nat
  PROVE  Paid \in Nat /\ SendBuffer \in Nat
         /\ (outages' = outages + 1 => Paid' = Paid + (SendBuffer + 1))
         /\ (outages' = outages => Paid' = Paid)
  <1>1. PICK k \in Nat : k = SendBuffer + 1
    BY FeedAssumption
  <1>2. Paid = outages * k /\ Paid' = outages' * k
    BY <1>1 DEF Paid
  <1>3. outages * k \in Nat /\ (outages + 1) * k = outages * k + k
    OBVIOUS
  <1> QED
    BY <1>1, <1>2, <1>3, FeedAssumption

\* In the beginning nothing is lost.
LEMMA FeedBegins ==
  ASSUME AprsInit
  PROVE  FeedInv
  <1>1. conn = "resolve" /\ peer = "none" /\ outages = 0 /\ failed = <<>> /\ wire = <<>>
    BY DEF AprsInit, FeedInit
  <1>2. /\ IsSequence(failed) /\ Len(failed) = 0
        /\ IsSequence(wire) /\ Len(wire) = 0
    BY <1>1 DEF IsSequence
  <1>3. Paid \in Nat /\ SendBuffer \in Nat
    BY <1>1, OutagePays
  <1>4. AtRisk = 0
    BY <1>1 DEF AtRisk
  <1> QED
    BY <1>1, <1>2, <1>3, <1>4 DEF FeedInv, Connection, InFlight, LossesPaid

\* Nothing is written to a connection that is full, and what a broken one fails is paid for.
LEMMA RelayPays ==
  ASSUME FeedInv, Relay
  PROVE  FeedInv'
  <1> DEFINE f == Head(inbox)
  <1>1. conn = "relay" /\ Len(wire) <= SendBuffer /\ UNCHANGED outages
    BY DEF Relay
  <1>2. \/ UNCHANGED <<conn, peer, wire, failed>>
        \/ peer = "reset" /\ failed' = Append(failed, f) /\ Retry /\ UNCHANGED wire
        \/ peer # "reset" /\ wire' = Append(wire, f) /\ UNCHANGED <<conn, peer, failed>>
    BY DEF Relay
  <1>3. Connection /\ InFlight /\ IsSequence(failed) /\ outages \in Nat /\ LossesPaid
    BY DEF FeedInv
  <1>4. Len(failed) \in Nat /\ Len(wire) \in Nat /\ IsSequence(wire)
    BY <1>3, AppendGrows DEF InFlight
  <1>5. Paid \in Nat /\ SendBuffer \in Nat /\ Paid' = Paid
    BY <1>1, <1>3, OutagePays
  <1> HIDE DEF f
  <1>6. CASE UNCHANGED <<conn, peer, wire, failed>>
    BY <1>1, <1>3, <1>5, <1>6 DEF FeedInv, Connection, InFlight, LossesPaid, AtRisk, IsSequence
  <1>7. CASE peer = "reset" /\ failed' = Append(failed, f) /\ Retry /\ UNCHANGED wire
    <2>1. Len(failed') = Len(failed) + 1 /\ IsSequence(failed')
      BY <1>3, <1>7, AppendGrows
    <2>2. AtRisk = 1 /\ AtRisk' = 0
      BY <1>7 DEF AtRisk, Retry
    <2>3. LossesPaid'
      BY <1>3, <1>4, <1>5, <2>1, <2>2 DEF LossesPaid
    <2>4. Connection' /\ InFlight'
      BY <1>3, <1>7 DEF Connection, InFlight, Retry, IsSequence
    <2> QED
      BY <1>1, <1>3, <2>1, <2>3, <2>4 DEF FeedInv
  <1>8. CASE peer # "reset" /\ wire' = Append(wire, f) /\ UNCHANGED <<conn, peer, failed>>
    <2>1. Len(wire') = Len(wire) + 1 /\ IsSequence(wire')
      BY <1>4, <1>8, AppendGrows
    <2>2. peer \in {"open", "gone"}
      BY <1>1, <1>3, <1>8 DEF Connection
    <2>3. InFlight'
      BY <1>1, <1>4, <1>5, <1>8, <2>1, <2>2 DEF InFlight
    <2>4. Connection' /\ LossesPaid' /\ IsSequence(failed')
      BY <1>3, <1>5, <1>8 DEF Connection, LossesPaid, AtRisk, IsSequence
    <2> QED
      BY <1>1, <1>3, <2>3, <2>4 DEF FeedInv
  <1> QED
    BY <1>2, <1>6, <1>7, <1>8

\* What breaks with a connection has been paid for.
LEMMA BreakPays ==
  ASSUME FeedInv, Break
  PROVE  FeedInv'
  <1>1. /\ peer = "gone" /\ failed' = failed \o wire /\ wire' = <<>> /\ UNCHANGED outages
        /\ \/ Len(wire) > SendBuffer /\ Retry
           \/ Len(wire) <= SendBuffer /\ peer' = "reset" /\ UNCHANGED conn
    BY DEF Break
  <1>2. Connection /\ InFlight /\ IsSequence(failed) /\ outages \in Nat /\ LossesPaid
    BY DEF FeedInv
  <1>3. IsSequence(wire) /\ Len(wire) <= SendBuffer + 1
    BY <1>2 DEF InFlight
  <1>4. /\ Len(failed) \in Nat /\ Len(wire) \in Nat
        /\ Len(failed') = Len(failed) + Len(wire) /\ IsSequence(failed')
    BY <1>1, <1>2, <1>3, ConcatGrows
  <1>5. Paid \in Nat /\ SendBuffer \in Nat /\ Paid' = Paid
    BY <1>1, <1>2, OutagePays
  <1>6. AtRisk = SendBuffer + 1
    BY <1>1 DEF AtRisk
  <1>7. IsSequence(wire') /\ Len(wire') = 0
    BY <1>1 DEF IsSequence
  <1>8. Connection'
    BY <1>1, <1>2 DEF Connection, Retry
  <1>9. AtRisk' = IF Len(wire) > SendBuffer THEN 0 ELSE 1
    BY <1>1, <1>4, <1>5 DEF AtRisk, Retry
  <1>10. LossesPaid'
    BY <1>2, <1>3, <1>4, <1>5, <1>6, <1>9 DEF LossesPaid
  <1>11. InFlight'
    BY <1>5, <1>7 DEF InFlight
  <1> QED
    BY <1>1, <1>2, <1>4, <1>8, <1>10, <1>11 DEF FeedInv

\* Every step of packet, of the program and of the server pays for what may be lost.
LEMMA FeedStep ==
  ASSUME FeedInv, [AprsNext]_aprsVars
  PROVE  FeedInv'
  <1>1. Connection /\ InFlight /\ IsSequence(failed) /\ outages \in Nat /\ LossesPaid
    BY DEF FeedInv
  <1>2. Len(failed) \in Nat /\ Len(wire) \in Nat /\ IsSequence(wire)
    BY <1>1, AppendGrows DEF InFlight
  <1>3. /\ Paid \in Nat /\ SendBuffer \in Nat
        /\ (outages' = outages + 1 => Paid' = Paid + (SendBuffer + 1))
        /\ (outages' = outages => Paid' = Paid)
    BY <1>1, OutagePays
  <1>4. ASSUME UNCHANGED <<wire, outages, failed>>, Connection',
               AtRisk' = AtRisk, peer' \in {"none", "reset"} => Len(wire) = 0
        PROVE  FeedInv'
    BY <1>1, <1>3, <1>4 DEF FeedInv, InFlight, LossesPaid, IsSequence
  <1>5. ASSUME UNCHANGED <<conn, peer, wire, outages, failed>>
        PROVE  FeedInv'
    BY <1>1, <1>4, <1>5 DEF Connection, InFlight, AtRisk
  <1>6. CASE Resolve
    BY <1>1, <1>4, <1>6 DEF Resolve, Connection, InFlight, AtRisk
  <1>7. CASE Connect
    BY <1>1, <1>4, <1>7 DEF Connect, Connection, InFlight, AtRisk
  <1>8. CASE Login
    <2>1. UNCHANGED <<wire, outages, failed>>
      BY <1>8 DEF Login
    <2>2. Connection' /\ InFlight'
      BY <1>1, <1>8 DEF Login, Connection, InFlight, IsSequence
    <2>3. AtRisk \in Nat /\ AtRisk' \in Nat /\ AtRisk' <= AtRisk
      BY <1>1, <1>3, <1>8 DEF Login, Connection, AtRisk
    <2>4. LossesPaid'
      BY <1>1, <1>2, <1>3, <2>1, <2>3 DEF LossesPaid
    <2> QED
      BY <1>1, <2>1, <2>2, <2>4 DEF FeedInv, IsSequence
  <1>9. CASE Relay
    BY <1>9, RelayPays
  <1>10. CASE Deliver
    <2>1. /\ peer = "open" /\ wire # <<>> /\ wire' = Tail(wire)
          /\ UNCHANGED <<conn, peer, outages, failed>>
      BY <1>10 DEF Deliver
    <2>2. IsSequence(wire') /\ Len(wire') \in Nat /\ Len(wire') <= Len(wire)
      BY <1>2, <2>1, TailShrinks
    <2>3. InFlight'
      BY <1>1, <1>2, <1>3, <2>1, <2>2 DEF InFlight
    <2>4. Connection' /\ LossesPaid' /\ IsSequence(failed')
      BY <1>1, <1>3, <2>1 DEF Connection, LossesPaid, AtRisk, IsSequence
    <2> QED
      BY <1>1, <2>1, <2>3, <2>4 DEF FeedInv
  <1>11. CASE Outage
    <2>1. /\ outages' = outages + 1 /\ UNCHANGED <<conn, wire, failed>>
          /\ peer' = IF peer = "open" THEN "gone" ELSE peer
      BY <1>11 DEF Outage
    <2>2. Connection' /\ InFlight' /\ outages' \in Nat /\ IsSequence(failed')
      BY <1>1, <2>1 DEF Connection, InFlight, IsSequence
    <2>3. AtRisk \in Nat /\ AtRisk' \in Nat /\ AtRisk' <= AtRisk + (SendBuffer + 1)
      BY <1>1, <1>3, <2>1 DEF Connection, AtRisk
    <2>4. LossesPaid'
      BY <1>1, <1>2, <1>3, <2>1, <2>3 DEF LossesPaid
    <2> QED
      BY <2>2, <2>4 DEF FeedInv
  <1>12. CASE Break
    BY <1>12, BreakPays
  <1>13. CASE Return
    BY <1>5, <1>13 DEF Return
  <1>14. CASE UNCHANGED aprsVars
    BY <1>5, <1>14 DEF aprsVars, feedVars
  <1>15. ASSUME NEW s \in Streams, Decode(s), UNCHANGED <<conn, server, peer, wire, outages, failed>>
         PROVE  FeedInv'
    BY <1>5, <1>15
  <1>16. CASE UNCHANGED feedVars
    BY <1>5, <1>16 DEF feedVars
  <1> QED
    BY <1>6, <1>7, <1>8, <1>9, <1>10, <1>11, <1>12, <1>13, <1>14, <1>15, <1>16
    DEF AprsNext, Feed, Packet

\* Connection, losses and outages agree in every state of aprsfeed.
THEOREM FeedInductive == AprsSpec => []FeedInv
  <1>1. AprsInit => FeedInv
    BY FeedBegins
  <1>2. FeedInv /\ [AprsNext]_aprsVars => FeedInv'
    BY FeedStep
  <1> QED
    BY <1>1, <1>2, PTL DEF AprsSpec

\* However often the server goes away, whatever the program is doing then and however much
\* it has written since, each time costs at most what the connection holds and one frame.
THEOREM OutageCostsBufferThm == AprsSpec => []OutageCostsBuffer
  <1>1. ASSUME FeedInv
        PROVE  OutageCostsBuffer
    <2>1. Len(failed) \in Nat /\ outages \in Nat /\ LossesPaid
      BY <1>1, AppendGrows DEF FeedInv
    <2>2. Paid \in Nat /\ SendBuffer \in Nat
      BY <2>1, OutagePays
    <2>3. AtRisk \in Nat
      BY <2>2 DEF AtRisk
    <2>4. Len(failed) <= Paid
      BY <2>1, <2>2, <2>3 DEF LossesPaid
    <2> QED
      BY <2>4 DEF Paid, OutageCostsBuffer
  <1> QED
    BY <1>1, FeedInductive, PTL

-----------------------------------------------------------------------------
(* The two threads of radio and its filter *)

Members == {"address", "rate", "decimate", "gain", "low", "high", "isb"}
HasFilter == main \in {"filter", "swap", "running"}

\* The structures have their members.
Shapes ==
  /\ radio = [f \in Members |-> radio[f]]
  /\ filter = [decimate |-> filter.decimate, isb |-> filter.isb, response |-> filter.response]
  /\ thread = [at |-> thread.at, packet |-> thread.packet, edges |-> thread.edges,
               made |-> thread.made]
  /\ thread.edges = [e \in Edges |-> thread.edges[e]]

\* There is a filter from its creation on.
FilterMade == IF HasFilter THEN filter.decimate # 0 ELSE filter = NoFilter

\* A response for the edges there are, and one for the output there is.
ForEdges(response) == response.low = radio["low"] /\ response.high = radio["high"]
ForOutput(response) == response.isb = filter.isb

\* main's response suits the output, and the edges unless they have been set since; the
\* status thread's suits the edges, and the output unless that has followed since; and
\* what they have left in use suits both, but for the two cases.
Responses ==
  /\ main = "swap" => ForOutput(made) /\ (~overlap => ForEdges(made))
  /\ thread.at = "swap" =>
       /\ HasFilter /\ ForEdges(thread.made)
       /\ ~touched \/ main # "running" => ForOutput(thread.made)
  /\ main = "running" /\ thread.at # "swap" =>
       /\ ~overlap => ForEdges(filter.response)
       /\ ~touched => ForOutput(filter.response)

\* The output is of the type last chosen, unless set_filter was not called since a command
\* has changed it.
OutputChosen == HasFilter /\ ~touched => filter.isb = radio["isb"]

ReceiverInv == Shapes /\ FilterMade /\ Responses /\ OutputChosen

\* What one step of one of the threads leaves as it was.
LEMMA ReceiverUndisturbed ==
  ASSUME ReceiverInv, UNCHANGED <<main, radio, filter, made, thread, overlap, touched>>
  PROVE  ReceiverInv'
  BY DEF ReceiverInv, Shapes, FilterMade, HasFilter, Responses, ForEdges, ForOutput, OutputChosen

\* In the beginning there is no filter.
LEMMA ReceiverBegins ==
  ASSUME StartUpInit
  PROVE  ReceiverInv
  <1>1. /\ main = "off" /\ filter = NoFilter
        /\ radio = [address |-> NoAddress, rate |-> 0, decimate |-> 0, gain |-> 0,
                    low |-> -8, high |-> 8, isb |-> FALSE]
        /\ thread = [at |-> "off", packet |-> NoItems, edges |-> [e \in Edges |-> 0],
                     made |-> NoResponse]
    BY DEF StartUpInit
  <1>2. Shapes
    BY <1>1 DEF Shapes, Members, NoFilter
  <1> QED
    BY <1>1, <1>2 DEF ReceiverInv, FilterMade, HasFilter, Responses, OutputChosen

\* main: what it does before there is a filter.
LEMMA MainBeforeFilter ==
  ASSUME ReceiverInv, OpenSockets \/ CheckStatus \/ WakeForNothing \/ OpenInput
  PROVE  ReceiverInv'
  <1>1. /\ ~HasFilter /\ ~HasFilter'
        /\ UNCHANGED <<radio, filter, made, overlap, touched>>
    BY DEF OpenSockets, CheckStatus, WakeForNothing, OpenInput, MainUnchanged, ButListening,
           HasFilter
  <1>2. \/ UNCHANGED thread
        \/ thread' = [thread EXCEPT !.at = "select"]
    BY DEF OpenSockets, CheckStatus, WakeForNothing, OpenInput, MainUnchanged, ButListening
  <1>3. Shapes'
    BY <1>1, <1>2 DEF ReceiverInv, Shapes
  <1>4. thread.at # "swap" /\ thread'.at # "swap"
    BY <1>1, <1>2 DEF ReceiverInv, Responses, Shapes
  <1> QED
    BY <1>1, <1>3, <1>4 DEF ReceiverInv, FilterMade, Responses, OutputChosen, HasFilter

\* main reads its options and makes the filter.
LEMMA MainMakesFilter ==
  ASSUME ReceiverInv, ReadOption \/ ResetGain \/ CreateFilter
  PROVE  ReceiverInv'
  <1>1. ~HasFilter /\ UNCHANGED <<made, thread, overlap, touched>>
    BY DEF ReadOption, ResetGain, CreateFilter, MainUnchanged, ButListening, HasFilter
  <1>2. thread.at # "swap" /\ thread'.at # "swap" /\ main' \notin {"swap", "running"}
    BY <1>1 DEF ReceiverInv, Responses, ReadOption, ResetGain, CreateFilter
  <1>3. radio' = [f \in Members |-> radio'[f]]
    <2>1. radio = [f \in Members |-> radio[f]]
      BY DEF ReceiverInv, Shapes
    <2>2. CASE ReadOption
      BY <2>1, <2>2 DEF ReadOption, With
    <2>3. CASE ResetGain
      BY <2>1, <2>3 DEF ResetGain
    <2>4. CASE CreateFilter
      BY <2>1, <2>4 DEF CreateFilter
    <2> QED
      BY <2>2, <2>3, <2>4
  <1>4. CASE ReadOption \/ ResetGain
    <2>1. ~HasFilter' /\ UNCHANGED filter
      BY <1>4 DEF ReadOption, ResetGain, HasFilter
    <2> QED
      BY <1>1, <1>2, <1>3, <2>1
      DEF ReceiverInv, Shapes, FilterMade, Responses, OutputChosen, HasFilter
  <1>5. CASE CreateFilter
    <2>1. UNCHANGED radio
      BY <1>5 DEF CreateFilter
    <2>2. CASE radio.decimate = 0
      <3>1. ~HasFilter' /\ UNCHANGED filter
        BY <1>5, <2>2 DEF CreateFilter, HasFilter
      <3> QED
        BY <1>1, <1>2, <2>1, <3>1
        DEF ReceiverInv, Shapes, FilterMade, Responses, OutputChosen, HasFilter
    <2>3. CASE radio.decimate # 0
      <3>1. /\ filter' = [decimate |-> radio.decimate, isb |-> radio.isb,
                          response |-> NoResponse]
            /\ main' = "filter"
        BY <1>5, <2>3 DEF CreateFilter
      <3> QED
        BY <1>1, <1>2, <2>1, <2>3, <3>1
        DEF ReceiverInv, Shapes, FilterMade, Responses, OutputChosen, HasFilter
    <2> QED
      BY <2>2, <2>3
  <1> QED
    BY <1>4, <1>5

\* main gives it its response and runs.
LEMMA MainUsesFilter ==
  ASSUME ReceiverInv, MakeResponse \/ SwapResponse \/ NextBlock
  PROVE  ReceiverInv'
  <1>0. radio.isb = radio["isb"]
    OBVIOUS
  <1>1. CASE MakeResponse
    <2>1. /\ main = "filter" /\ main' = "swap" /\ made' = ResponseTo(radio)
          /\ touched' = (touched /\ filter.isb # radio.isb)
          /\ UNCHANGED <<radio, filter, thread, overlap>>
      BY <1>1 DEF MakeResponse
    <2>2. ForEdges(made)' /\ ForOutput(made)'
      BY <2>1 DEF ForEdges, ForOutput, ResponseTo
    <2>3. OutputChosen'
      BY <1>0, <2>1 DEF ReceiverInv, OutputChosen, HasFilter
    <2>4. thread.at = "swap" =>
            (HasFilter /\ ForEdges(thread.made) /\ ForOutput(thread.made))'
      BY <2>1 DEF ReceiverInv, Responses, HasFilter, ForEdges, ForOutput
    <2> QED
      BY <2>1, <2>2, <2>3, <2>4 DEF ReceiverInv, Shapes, FilterMade, Responses, HasFilter
  <1>2. CASE SwapResponse
    <2>1. /\ main = "swap" /\ main' = "running"
          /\ filter' = [filter EXCEPT !.response = made]
          /\ overlap' = (overlap /\ thread.at # "swap")
          /\ UNCHANGED <<radio, thread, touched>>
      BY <1>2 DEF SwapResponse
    <2>2. /\ filter'.response = made /\ filter'.isb = filter.isb
          /\ filter'.decimate = filter.decimate /\ Shapes'
      BY <2>1 DEF ReceiverInv, Shapes
    <2> QED
      BY <2>1, <2>2
      DEF ReceiverInv, FilterMade, Responses, OutputChosen, HasFilter, ForEdges, ForOutput
  <1>3. CASE NextBlock
    <2>1. /\ main = "running" /\ filter.isb # radio.isb
          /\ filter' = [filter EXCEPT !.isb = radio.isb]
          /\ UNCHANGED <<main, radio, made, thread, overlap, touched>>
      BY <1>3 DEF NextBlock, MainUnchanged, ButListening
    <2>2. /\ filter'.response = filter.response /\ filter'.decimate = filter.decimate
          /\ Shapes'
      BY <2>1 DEF ReceiverInv, Shapes
    <2>3. touched
      BY <2>1 DEF ReceiverInv, OutputChosen, HasFilter
    <2> QED
      BY <2>1, <2>2, <2>3
      DEF ReceiverInv, FilterMade, Responses, OutputChosen, HasFilter, ForEdges, ForOutput
  <1> QED
    BY <1>1, <1>2, <1>3

\* The status thread decodes a status: nothing of the filter is in it.
LEMMA DecodingKeeps ==
  ASSUME ReceiverInv, \/ TakeStatus \/ DecodeAddress \/ DecodeRate \/ DeriveFromRate
                      \/ DecodeRest \/ BroadcastStatus \/ NoCommand
  PROVE  ReceiverInv'
  <1>1. /\ UNCHANGED <<filter, made, overlap, touched>>
        /\ main' = main \/ (main = "asleep" /\ main' = "wait")
    BY DEF TakeStatus, DecodeAddress, DecodeRate, DeriveFromRate, DecodeRest, BroadcastStatus,
           NoCommand, ThreadUnchanged
  <1>2. /\ radio' = [f \in Members |-> radio'[f]]
        /\ radio'["low"] = radio["low"] /\ radio'["high"] = radio["high"]
        /\ radio'["isb"] = radio["isb"]
    <2>1. radio = [f \in Members |-> radio[f]]
      BY DEF ReceiverInv, Shapes
    <2>2. ASSUME NEW m \in {"address", "rate", "decimate", "gain"}, NEW v,
                 radio' = [radio EXCEPT ![m] = v]
          PROVE  /\ radio' = [f \in Members |-> radio'[f]]
                 /\ radio'["low"] = radio["low"] /\ radio'["high"] = radio["high"]
                 /\ radio'["isb"] = radio["isb"]
      BY <2>1, <2>2 DEF Members
    <2>3. CASE UNCHANGED radio
      BY <2>1, <2>3
    <2>4. \/ UNCHANGED radio
          \/ \E m \in {"address", "rate", "decimate", "gain"} : \E v :
               radio' = [radio EXCEPT ![m] = v]
      BY DEF TakeStatus, DecodeAddress, DecodeRate, DeriveFromRate, DecodeRest,
             BroadcastStatus, NoCommand
    <2> QED
      BY <2>2, <2>3, <2>4
  <1>3. thread.at # "swap" /\ thread'.at # "swap"
        /\ thread'.edges = thread.edges
        /\ thread' = [at |-> thread'.at, packet |-> thread'.packet, edges |-> thread'.edges,
                      made |-> thread'.made]
    <2>1. thread = [at |-> thread.at, packet |-> thread.packet, edges |-> thread.edges,
                    made |-> thread.made]
      BY DEF ReceiverInv, Shapes
    <2>2. CASE TakeStatus
      BY <2>1, <2>2 DEF TakeStatus
    <2>3. CASE DecodeAddress \/ DecodeRate \/ DeriveFromRate \/ DecodeRest \/ NoCommand
      BY <2>1, <2>3 DEF DecodeAddress, DecodeRate, DeriveFromRate, DecodeRest, NoCommand, Step
    <2>4. CASE BroadcastStatus
      BY <2>1, <2>4 DEF BroadcastStatus
    <2> QED
      BY <2>2, <2>3, <2>4
  <1>4. Shapes'
    BY <1>1, <1>2, <1>3 DEF ReceiverInv, Shapes
  <1> QED
    BY <1>1, <1>2, <1>3, <1>4
    DEF ReceiverInv, FilterMade, Responses, OutputChosen, HasFilter, ForEdges, ForOutput

\* It takes a command, which may choose another type of output, ...
LEMMA TakeCommandKeeps ==
  ASSUME ReceiverInv, TakeCommand
  PROVE  ReceiverInv'
  <1> DEFINE command == Head(users)
             edges   == DOMAIN command \cap Edges
             asked   == [e \in Edges |-> IF e \in edges THEN command[e] ELSE radio[e]]
  <1>1. /\ thread.at \in {"select", "commands"}
        /\ thread' = [thread EXCEPT !.at = IF edges = {} THEN "send" ELSE "edges",
                                    !.edges = asked]
        /\ radio' = IF "isb" \in DOMAIN command THEN [radio EXCEPT !.isb = command.isb] ELSE radio
        /\ touched' = (touched \/ radio'.isb # radio.isb)
        /\ UNCHANGED <<main, filter, made, overlap>>
    BY DEF TakeCommand, ThreadUnchanged
  <1>2. asked = [e \in Edges |-> asked[e]]
    OBVIOUS
  <1> HIDE DEF asked, edges, command
  <1>3. /\ radio = [f \in Members |-> radio[f]]
        /\ thread = [at |-> thread.at, packet |-> thread.packet, edges |-> thread.edges,
                     made |-> thread.made]
    BY DEF ReceiverInv, Shapes
  <1>4. /\ radio' = [f \in Members |-> radio'[f]]
        /\ radio'["low"] = radio["low"] /\ radio'["high"] = radio["high"]
        /\ ~touched' => ~touched /\ radio'["isb"] = radio["isb"]
    BY <1>1, <1>3 DEF Members
  <1>5. /\ thread'.at \in {"send", "edges"} /\ thread'.edges = asked
        /\ thread' = [at |-> thread'.at, packet |-> thread'.packet, edges |-> thread'.edges,
                      made |-> thread'.made]
    BY <1>1, <1>3
  <1>6. Shapes'
    BY <1>1, <1>2, <1>4, <1>5 DEF ReceiverInv, Shapes
  <1> QED
    BY <1>1, <1>4, <1>5, <1>6
    DEF ReceiverInv, FilterMade, Responses, OutputChosen, HasFilter, ForEdges, ForOutput

\* ... and sets the edges: the response it has made is for them.
LEMMA SetEdgesKeeps ==
  ASSUME ReceiverInv, SetEdges
  PROVE  ReceiverInv'
  <1> DEFINE asked == thread.edges
             valid == asked["low"] <= asked["high"]
  <1>1. /\ thread.at = "edges"
        /\ radio' = IF valid THEN With(asked) ELSE radio
        /\ thread' = IF valid /\ filter # NoFilter
                     THEN [thread EXCEPT !.at = "swap", !.made = ResponseTo(asked)]
                     ELSE [thread EXCEPT !.at = "send"]
        /\ overlap' = (overlap \/ (valid /\ main = "swap"))
        /\ touched' = (touched /\ (thread'.at = "swap" => filter.isb # radio.isb))
        /\ UNCHANGED <<main, filter, made>>
    BY DEF SetEdges, ThreadUnchanged
  <1>2. /\ radio = [f \in Members |-> radio[f]] /\ asked = [e \in Edges |-> asked[e]]
        /\ thread = [at |-> thread.at, packet |-> thread.packet, edges |-> thread.edges,
                     made |-> thread.made]
    BY DEF ReceiverInv, Shapes
  <1> HIDE DEF valid
  <1>3. /\ radio' = [f \in Members |-> radio'[f]] /\ radio'["isb"] = radio["isb"]
        /\ valid => radio'["low"] = asked["low"] /\ radio'["high"] = asked["high"]
        /\ ~valid => UNCHANGED radio
    <2>1. CASE valid
      <3>1. DOMAIN radio = Members /\ DOMAIN asked = Edges
        BY <1>2
      <3>2. radio' = [f \in Members |->
                       IF f \in {"low", "high", "isb"} \cap Edges THEN asked[f] ELSE radio[f]]
        BY <1>1, <2>1, <3>1 DEF With
      <3> QED
        BY <2>1, <3>2 DEF Members, Edges
    <2>2. CASE ~valid
      BY <1>1, <1>2, <2>2
    <2> QED
      BY <2>1, <2>2
  <1>4. /\ thread'.edges = thread.edges
        /\ thread' = [at |-> thread'.at, packet |-> thread'.packet, edges |-> thread'.edges,
                      made |-> thread'.made]
        /\ IF valid /\ filter # NoFilter
           THEN thread'.at = "swap" /\ thread'.made = ResponseTo(asked)
           ELSE thread'.at = "send"
    BY <1>1, <1>2
  <1>5. Shapes'
    BY <1>1, <1>3, <1>4 DEF ReceiverInv, Shapes
  <1>6. filter # NoFilter <=> HasFilter
    BY DEF ReceiverInv, FilterMade, NoFilter
  <1>7. OutputChosen'
    BY <1>1, <1>3 DEF ReceiverInv, OutputChosen, HasFilter
  <1>8. CASE valid /\ filter # NoFilter
    <2>1. ForEdges(thread.made)' /\ ForOutput(thread.made)'
      <3>1. /\ thread'.made.low = radio'["low"] /\ thread'.made.high = radio'["high"]
            /\ thread'.made.isb = filter.isb
        BY <1>3, <1>4, <1>8 DEF ResponseTo
      <3> QED
        BY <1>1, <3>1 DEF ForEdges, ForOutput
    <2>2. main = "swap" => overlap' /\ ForOutput(made)'
      BY <1>1, <1>8 DEF ReceiverInv, Responses, ForOutput
    <2> QED
      BY <1>1, <1>4, <1>5, <1>6, <1>7, <1>8, <2>1, <2>2
      DEF ReceiverInv, FilterMade, Responses, HasFilter
  <1>9. CASE valid /\ filter = NoFilter
    BY <1>1, <1>3, <1>4, <1>5, <1>6, <1>7, <1>9
    DEF ReceiverInv, FilterMade, Responses, HasFilter
  <1>10. CASE ~valid
    <2>1. thread'.at = "send" /\ UNCHANGED radio /\ (touched' <=> touched)
          /\ (overlap' <=> overlap)
      BY <1>1, <1>3, <1>4, <1>10
    <2> QED
      BY <1>1, <1>5, <1>7, <2>1
      DEF ReceiverInv, FilterMade, Responses, HasFilter, ForEdges, ForOutput
  <1> QED
    BY <1>8, <1>9, <1>10

\* It puts the response into use.
LEMMA SwapNewResponseKeeps ==
  ASSUME ReceiverInv, SwapNewResponse
  PROVE  ReceiverInv'
  <1>1. /\ thread.at = "swap"
        /\ thread' = [thread EXCEPT !.at = "send", !.made = NoResponse]
        /\ filter' = [filter EXCEPT !.response = thread.made]
        /\ overlap' = (overlap /\ main = "swap")
        /\ UNCHANGED <<main, radio, made, touched>>
    BY DEF SwapNewResponse, ThreadUnchanged
  <1>2. /\ filter'.response = thread.made /\ filter'.isb = filter.isb
        /\ filter'.decimate = filter.decimate /\ thread'.at = "send" /\ Shapes'
    BY <1>1 DEF ReceiverInv, Shapes
  <1>3. HasFilter /\ ForEdges(thread.made) /\ (~touched => ForOutput(thread.made))
    BY <1>1 DEF ReceiverInv, Responses
  <1> QED
    BY <1>1, <1>2, <1>3
    DEF ReceiverInv, FilterMade, Responses, OutputChosen, HasFilter, ForEdges, ForOutput

\* It sends radio's own status.
LEMMA SendStatusKeeps ==
  ASSUME ReceiverInv, SendRadioStatus
  PROVE  ReceiverInv'
  <1>1. /\ thread.at = "send" /\ thread' = [thread EXCEPT !.at = "select"]
        /\ UNCHANGED <<main, radio, filter, made, overlap, touched>>
    BY DEF SendRadioStatus, Step
  <1>2. thread'.at = "select" /\ Shapes'
    BY <1>1 DEF ReceiverInv, Shapes
  <1> QED
    BY <1>1, <1>2 DEF ReceiverInv, FilterMade, Responses, OutputChosen, HasFilter, ForEdges, ForOutput

\* Every step of the programs keeps the invariant of radio.
LEMMA ReceiverStep ==
  ASSUME ReceiverInv, [StartUpNext]_startUpVars
  PROVE  ReceiverInv'
  <1>1. CASE UNCHANGED receiverVars
    BY <1>1, ReceiverUndisturbed DEF receiverVars
  <1>2. CASE FrontEndStep
    BY <1>1, <1>2 DEF FrontEndStep, OthersUnchanged
  <1>3. CASE Main \/ WakeForNothing
    BY <1>3, MainBeforeFilter, MainMakesFilter, MainUsesFilter DEF Main
  <1>4. CASE StatusThread
    BY <1>4, DecodingKeeps, TakeCommandKeeps, SetEdgesKeeps, SwapNewResponseKeeps,
       SendStatusKeeps DEF StatusThread
  <1>5. CASE GiveCommand
    BY <1>5, ReceiverUndisturbed DEF GiveCommand
  <1>6. CASE StartPacket \/ StartOpus
    BY <1>1, <1>6 DEF StartPacket, StartOpus, Sockets
  <1>7. CASE \E p \in Programs : JoinAudio(p)
    BY <1>1, <1>7 DEF JoinAudio
  <1>8. CASE UNCHANGED startUpVars
    BY <1>1, <1>8 DEF startUpVars
  <1> QED
    BY <1>2, <1>3, <1>4, <1>5, <1>6, <1>7, <1>8 DEF StartUpNext

\* radio's threads and its filter agree however options, statuses and commands are
\* interleaved.
THEOREM ReceiverInductive == StartUpSpec => []ReceiverInv
  <1>1. StartUpInit => ReceiverInv
    BY ReceiverBegins
  <1>2. ReceiverInv /\ [StartUpNext]_startUpVars => ReceiverInv'
    BY ReceiverStep
  <1> QED
    BY <1>1, <1>2, PTL DEF StartUpSpec

\* However main's set_filter, options, statuses, commands and blocks are interleaved, the
\* response in use is for the edges last set, except while main's has replaced a newer one
\* (H12), and for the output last chosen, except from a command that changes the output to
\* the first set_filter after it has followed (H11).
THEOREM FilterAsAskedThm == StartUpSpec => []FilterAsAsked
  <1>1. ASSUME ReceiverInv
        PROVE  FilterAsAsked
    <2>1. radio.low = radio["low"] /\ radio.high = radio["high"] /\ radio.isb = radio["isb"]
      OBVIOUS
    <2> QED
      BY <1>1, <2>1
      DEF ReceiverInv, Responses, OutputChosen, HasFilter, ForEdges, ForOutput, FilterAsAsked
  <1> QED
    BY <1>1, ReceiverInductive, PTL

-----------------------------------------------------------------------------
(* The AGC of the HackRF's and the Airspy's front end *)

\* The gains the stages can have.
HackrfRange(g) == g["lna"] \in {0, 14} /\ g["mixer"] \in 0..255 /\ g["if"] \in 0..62
AirspyRange(g) == g["lna"] \in 0..15 /\ g["mixer"] \in 0..15 /\ g["if"] \in 0..15
InRange(g) ==
  /\ g = [s \in Stages |-> g[s]]
  /\ IF device = "hackrf" THEN HackrfRange(g) ELSE AirspyRange(g)

Signals ==
  /\ "signals" \in DOMAIN budget /\ budget.signals \subseteq Faintest..0
  /\ signal \in Faintest..0

\* As long as nobody has ordered a gain, the device has the gains the program believes
\* it has.
GainsTold == ~ordered => gains = hw /\ InRange(hw) /\ level \in {NoPower} \cup Faintest..0

\* A fresh measurement is of this signal and these gains.
Measured == fresh => level = Least(0, signal + Sum(hw))

AgcInv == device \in {"hackrf", "airspy"} /\ Signals /\ GainsTold /\ Measured

\* The gains of the three stages, one by one.
LEMMA GainsOf ==
  ASSUME NEW a, NEW b, NEW c
  PROVE  LET g == Gains(a, b, c)
         IN  /\ g["lna"] = a /\ g["mixer"] = b /\ g["if"] = c
             /\ g = [s \in Stages |-> g[s]]
  BY DEF Gains, Stages

\* Whole steps are never more than the change.
LEMMA StepsWithin ==
  ASSUME NEW change \in Int, NEW n \in {2, 8, 14}
  PROVE  /\ Steps(change, n) \in Int
         /\ change >= 0 => 0 <= Steps(change, n) /\ Steps(change, n) <= change
         /\ change <= 0 => change <= Steps(change, n) /\ Steps(change, n) <= 0
  <1>1. CASE n = 2
    BY <1>1 DEF Steps
  <1>2. CASE n = 8
    BY <1>2 DEF Steps
  <1>3. CASE n = 14
    BY <1>3 DEF Steps
  <1> QED
    BY <1>1, <1>2, <1>3

\* What fits in an integer stays what it is; what is too large by less than its range
\* is less by its range.
LEMMA AsIntWraps ==
  ASSUME NEW x \in Int
  PROVE  /\ -32768 <= x /\ x <= 32767 => AsInt(x) = x
         /\ 32768 <= x /\ x <= 98303 => AsInt(x) = x - 65536
  BY DEF AsInt

\* The HackRF's gains are raised by no more than the change.
LEMMA HackrfRaises ==
  ASSUME NEW g, HackrfRange(g), NEW change \in Int, 1 <= change, change <= 2000
  PROVE  /\ HackrfRange(HackrfRaised(g, change))
         /\ HackrfRaised(g, change) = [s \in Stages |-> HackrfRaised(g, change)[s]]
         /\ Sum(HackrfRaised(g, change)) <= Sum(g) + change
  <1>20. PICK l \in {0, 14} : g["lna"] = l
    BY DEF HackrfRange
  <1>21. PICK m \in 0..255 : g["mixer"] = m
    BY DEF HackrfRange
  <1>22. PICK f \in 0..62 : g["if"] = f
    BY DEF HackrfRange
  <1>2. g["lna"] = l /\ g["mixer"] = m /\ g["if"] = f
    BY <1>20, <1>21, <1>22
  <1> DEFINE lna   == IF change >= 14 /\ g["lna"] < 14 THEN 14 ELSE g["lna"]
             more  == IF lna = g["lna"] THEN change ELSE change - 14
             big   == Steps(more, 8)
             mixer == Least(40, AsInt(g["mixer"] + big))
             rest  == AsInt(more - (mixer - g["mixer"]))
             small == Steps(rest, 2)
             if    == Least(62, g["if"] + small)
  <1>1. HackrfRaised(g, change) = Gains(lna, mixer % Base, if)
    BY DEF HackrfRaised
  <1>3. lna \in {0, 14} /\ more \in Int /\ 0 <= more /\ more <= 2000 /\ lna - l = change - more
    BY <1>2
  <1> HIDE DEF lna, more
  <1>4. big \in Int /\ 0 <= big /\ big <= more
    BY <1>3, StepsWithin
  <1> HIDE DEF big
  <1>5. AsInt(m + big) = m + big
    <2>1. m + big \in Int /\ -32768 <= m + big /\ m + big <= 32767
      BY <1>3, <1>4
    <2> QED
      BY <2>1, AsIntWraps
  <1>6. mixer = Least(40, m + big)
    BY <1>2, <1>5
  <1> HIDE DEF mixer
  <1>7. mixer \in 0..40 /\ mixer - m <= more
    BY <1>3, <1>4, <1>6 DEF Least
  <1>8. more - (mixer - m) \in Int /\ 0 <= more - (mixer - m) /\ more - (mixer - m) <= 2255
    BY <1>3, <1>7
  <1>9. rest = more - (mixer - m)
    <2>1. AsInt(more - (mixer - m)) = more - (mixer - m)
      BY <1>8, AsIntWraps
    <2> QED
      BY <1>2, <2>1
  <1> HIDE DEF rest
  <1>10. small \in Int /\ 0 <= small /\ small <= rest
    <2>1. rest \in Int /\ rest >= 0
      BY <1>8, <1>9
    <2> QED
      BY <2>1, StepsWithin
  <1> HIDE DEF small
  <1>11. if = Least(62, f + small)
    BY <1>2
  <1> HIDE DEF if
  <1>12. if \in 0..62 /\ if - f <= small
    BY <1>10, <1>11 DEF Least
  <1>13. mixer % Base = mixer
    <2>1. Base = 256
      BY FrontEndAssumption
    <2> QED
      BY <1>7, <2>1
  <1>14. HackrfRaised(g, change) = Gains(lna, mixer, if)
    BY <1>1, <1>13
  <1>15. lna + mixer + if <= l + m + f + change
    BY <1>3, <1>7, <1>8, <1>9, <1>10, <1>12
  <1>16. HackrfRange(Gains(lna, mixer, if))
    BY <1>3, <1>7, <1>12, GainsOf DEF HackrfRange
  <1>17. Sum(Gains(lna, mixer, if)) = lna + mixer + if /\ Sum(g) = l + m + f
    BY <1>2, GainsOf DEF Sum
  <1> QED
    BY <1>14, <1>15, <1>16, <1>17, GainsOf

\* The largest integer wraps, but leaves gains that the stages can have.
LEMMA HackrfRaisedBlindly ==
  ASSUME NEW g, HackrfRange(g)
  PROVE  /\ HackrfRange(HackrfRaised(g, Largest))
         /\ HackrfRaised(g, Largest) = [s \in Stages |-> HackrfRaised(g, Largest)[s]]
  <1> DEFINE lna   == IF Largest >= 14 /\ g["lna"] < 14 THEN 14 ELSE g["lna"]
             more  == IF lna = g["lna"] THEN Largest ELSE Largest - 14
             big   == Steps(more, 8)
             mixer == Least(40, AsInt(g["mixer"] + big))
             rest  == AsInt(more - (mixer - g["mixer"]))
             small == Steps(rest, 2)
             if    == Least(62, g["if"] + small)
  <1>1. HackrfRaised(g, Largest) = Gains(lna, mixer % Base, if)
    BY DEF HackrfRaised
  <1>20. PICK l \in {0, 14} : g["lna"] = l
    BY DEF HackrfRange
  <1>21. PICK m \in 0..255 : g["mixer"] = m
    BY DEF HackrfRange
  <1>22. PICK f \in 0..62 : g["if"] = f
    BY DEF HackrfRange
  <1>2. g["lna"] = l /\ g["mixer"] = m /\ g["if"] = f
    BY <1>20, <1>21, <1>22
  <1>3. lna = 14 /\ (more = 32767 \/ more = 32753)
    BY <1>2 DEF Largest
  <1> HIDE DEF lna, more
  <1>4. (more = 32767 /\ big = 32760) \/ (more = 32753 /\ big = 32752)
    BY <1>3 DEF Steps
  <1> HIDE DEF big
  <1>11. PICK x \in Int : x = m + big
    BY <1>4
  <1>12. mixer = Least(40, AsInt(x))
    BY <1>2, <1>11
  <1> HIDE DEF mixer
  <1>13. rest = AsInt(more - (mixer - m))
    BY <1>2
  <1> HIDE DEF rest
  <1>5. ASSUME x <= 32767
        PROVE  mixer \in Int /\ rest \in Int /\ rest >= 0
    <2>1. 40 <= x
      BY <1>4, <1>11
    <2>2. AsInt(x) = x
      BY <1>5, <2>1, AsIntWraps
    <2>3. mixer = 40
      BY <1>12, <2>1, <2>2 DEF Least
    <2>4. PICK z \in Int : z = more - (mixer - m) /\ 0 <= z /\ z <= 32767
      BY <1>4, <1>5, <1>11, <2>3
    <2>5. AsInt(z) = z
      BY <2>4, AsIntWraps
    <2> QED
      BY <1>13, <2>3, <2>4, <2>5
  <1>6. ASSUME x >= 32768
        PROVE  mixer \in Int /\ rest \in Int /\ rest >= 0
    <2>1. x <= 33023
      BY <1>4, <1>11
    <2>2. AsInt(x) = x - 65536
      BY <1>6, <2>1, AsIntWraps
    <2>3. mixer = x - 65536
      BY <1>12, <2>1, <2>2 DEF Least
    <2>4. PICK z \in Int : z = more - (mixer - m) /\ 65536 <= z /\ z <= 98303
      BY <1>4, <1>6, <1>11, <2>3
    <2>5. AsInt(z) = z - 65536
      BY <2>4, AsIntWraps
    <2> QED
      BY <1>13, <2>3, <2>4, <2>5
  <1>7. mixer \in Int /\ rest \in Int /\ rest >= 0
    <2>1. x <= 32767 \/ x >= 32768
      OBVIOUS
    <2> QED
      BY <1>5, <1>6, <2>1
  <1>8. small \in Int /\ 0 <= small
    BY <1>7, StepsWithin
  <1> HIDE DEF small
  <1>9. if \in 0..62
    <2>1. if = Least(62, f + small)
      BY <1>2
    <2> HIDE DEF if
    <2> QED
      BY <1>8, <2>1 DEF Least
  <1> HIDE DEF if
  <1>10. mixer % Base \in 0..255
    <2>1. Base = 256
      BY FrontEndAssumption
    <2> QED
      BY <1>7, <2>1
  <1> QED
    BY <1>1, <1>3, <1>9, <1>10, GainsOf DEF HackrfRange

\* The HackRF's gains are lowered by no more than the change.
LEMMA HackrfLowers ==
  ASSUME NEW g, HackrfRange(g), NEW change \in Int, change < 0
  PROVE  /\ HackrfRange(HackrfLowered(g, change))
         /\ HackrfLowered(g, change) = [s \in Stages |-> HackrfLowered(g, change)[s]]
         /\ Sum(HackrfLowered(g, change)) >= Sum(g) + change
  <1> DEFINE small == Steps(change, 2)
             if    == Most(0, g["if"] + small)
             more  == change - (if - g["if"])
             big   == Steps(more, 8)
             mixer == Most(0, g["mixer"] + big)
             rest  == more - (mixer - g["mixer"])
             last  == Steps(rest, 14)
             lna   == Most(0, g["lna"] + last)
  <1>1. HackrfLowered(g, change) = Gains(lna, mixer, if)
    BY DEF HackrfLowered
  <1>20. PICK l \in {0, 14} : g["lna"] = l
    BY DEF HackrfRange
  <1>21. PICK m \in 0..255 : g["mixer"] = m
    BY DEF HackrfRange
  <1>22. PICK f \in 0..62 : g["if"] = f
    BY DEF HackrfRange
  <1>2. g["lna"] = l /\ g["mixer"] = m /\ g["if"] = f
    BY <1>20, <1>21, <1>22
  <1>3. small \in Int /\ change <= small /\ small <= 0
    BY StepsWithin
  <1> HIDE DEF small
  <1>4. if = Most(0, f + small)
    BY <1>2
  <1> HIDE DEF if
  <1>14. if \in 0..62 /\ change <= if - f
    BY <1>3, <1>4 DEF Most
  <1>5. more \in Int /\ more <= 0 /\ more = change - (if - f)
    BY <1>2, <1>14
  <1> HIDE DEF more
  <1>6. big \in Int /\ more <= big /\ big <= 0
    BY <1>5, StepsWithin
  <1> HIDE DEF big
  <1>7. mixer = Most(0, m + big)
    BY <1>2
  <1> HIDE DEF mixer
  <1>15. mixer \in 0..255 /\ more <= mixer - m
    BY <1>5, <1>6, <1>7 DEF Most
  <1>8. rest \in Int /\ rest <= 0 /\ rest = more - (mixer - m)
    BY <1>2, <1>5, <1>15
  <1> HIDE DEF rest
  <1>9. last \in Int /\ rest <= last /\ last <= 0 /\ (last = 0 \/ last <= -14)
    <2>1. last \in Int /\ rest <= last /\ last <= 0
      BY <1>8, StepsWithin
    <2>2. last = 0 \/ last <= -14
      BY <1>8 DEF Steps
    <2> QED
      BY <2>1, <2>2
  <1> HIDE DEF last
  <1>10. lna = Most(0, l + last)
    BY <1>2
  <1> HIDE DEF lna
  <1>16. lna \in {0, 14} /\ rest <= lna - l
    BY <1>8, <1>9, <1>10 DEF Most
  <1>11. lna + mixer + if >= l + m + f + change
    BY <1>5, <1>8, <1>14, <1>15, <1>16
  <1>12. HackrfRange(Gains(lna, mixer, if))
    BY <1>14, <1>15, <1>16, GainsOf DEF HackrfRange
  <1>13. Sum(Gains(lna, mixer, if)) = lna + mixer + if /\ Sum(g) = l + m + f
    BY <1>2, GainsOf DEF Sum
  <1> QED
    BY <1>1, <1>11, <1>12, <1>13, GainsOf

\* The Airspy's gains are raised by no more than the change.
LEMMA AirspyRaises ==
  ASSUME NEW g, AirspyRange(g), NEW change \in Nat \ {0}
  PROVE  /\ AirspyRange(AirspyRaised(g, change))
         /\ AirspyRaised(g, change) = [s \in Stages |-> AirspyRaised(g, change)[s]]
         /\ Sum(AirspyRaised(g, change)) <= Sum(g) + change
         /\ g = [s \in Stages |-> g[s]] /\ hw = g =>
              AirspyTold(g, AirspyRaised(g, change), change) = AirspyRaised(g, change)
  <1> DEFINE lna   == Least(change, 15 - g["lna"])
             mixer == Least(change - lna, 15 - g["mixer"])
             if    == Least(change - lna - mixer, 15 - g["if"])
             new   == AirspyRaised(g, change)
  <1>1. new = Gains(g["lna"] + lna, g["mixer"] + mixer, g["if"] + if)
    BY DEF AirspyRaised
  <1>20. PICK l \in 0..15 : g["lna"] = l
    BY DEF AirspyRange
  <1>21. PICK m \in 0..15 : g["mixer"] = m
    BY DEF AirspyRange
  <1>22. PICK f \in 0..15 : g["if"] = f
    BY DEF AirspyRange
  <1>2. g["lna"] = l /\ g["mixer"] = m /\ g["if"] = f
    BY <1>20, <1>21, <1>22
  <1>3. lna = Least(change, 15 - l)
    BY <1>2
  <1> HIDE DEF lna
  <1>4. lna \in Int /\ 0 <= lna /\ lna <= change /\ l + lna \in 0..15
    BY <1>3 DEF Least
  <1>5. mixer = Least(change - lna, 15 - m)
    BY <1>2
  <1> HIDE DEF mixer
  <1>6. /\ mixer \in Int /\ 0 <= mixer /\ mixer <= change - lna /\ m + mixer \in 0..15
        /\ mixer # 0 => change - lna > 0
    BY <1>4, <1>5 DEF Least
  <1>7. if = Least(change - lna - mixer, 15 - f)
    BY <1>2
  <1> HIDE DEF if
  <1>8. /\ if \in Int /\ 0 <= if /\ if <= change - lna - mixer /\ f + if \in 0..15
        /\ if # 0 => change - lna - mixer > 0
    BY <1>4, <1>6, <1>7 DEF Least
  <1> HIDE DEF new
  <1>9. /\ new["lna"] = l + lna /\ new["mixer"] = m + mixer /\ new["if"] = f + if
        /\ new = [s \in Stages |-> new[s]]
    BY <1>1, <1>2, GainsOf
  <1>10. AirspyRange(new)
    BY <1>4, <1>6, <1>8, <1>9 DEF AirspyRange
  <1>11. Sum(new) <= Sum(g) + change
    <2>1. l + lna + (m + mixer) + (f + if) <= l + m + f + change
      BY <1>4, <1>6, <1>8
    <2> QED
      BY <1>2, <1>9, <2>1 DEF Sum
  <1>12. ASSUME g = [s \in Stages |-> g[s]], hw = g
         PROVE  AirspyTold(g, new, change) = new
    <2> DEFINE parts == [s \in Stages |-> IF change > 0 THEN new[s] - g[s] ELSE g[s] - new[s]]
               Left(s) == Most(change, -change) - TakenBefore(s, parts, change)
               Told(s) == Left(s) > 0 \/ (s = "if" /\ level = NoPower)
    <2>1. parts["lna"] = lna /\ parts["mixer"] = mixer
      BY <1>2, <1>4, <1>6, <1>9 DEF Stages
    <2>2. AirspyTold(g, new, change) = [s \in Stages |-> IF Told(s) THEN new[s] ELSE hw[s]]
      BY DEF AirspyTold
    <2> HIDE DEF parts
    <2>3. Most(change, -change) = change
      BY DEF Most
    <2>4. Left("lna") = change /\ Left("mixer") = change - lna /\ Left("if") = change - (lna + mixer)
      BY <1>4, <2>1, <2>3 DEF TakenBefore
    <2> HIDE DEF Left
    <2>5. /\ ~(Left("lna") > 0) => lna = 0
          /\ ~(Left("mixer") > 0) => mixer = 0
          /\ ~(Left("if") > 0) => if = 0
      BY <1>4, <1>6, <1>8, <2>4
    <2>7. \A s \in Stages : Left(s) > 0 => Told(s)
      OBVIOUS
    <2> HIDE DEF Told
    <2>8. /\ lna = 0 => new["lna"] = l
          /\ mixer = 0 => new["mixer"] = m
          /\ if = 0 => new["if"] = f
      BY <1>9
    <2>9. /\ ~Told("lna") => new["lna"] = l
          /\ ~Told("mixer") => new["mixer"] = m
          /\ ~Told("if") => new["if"] = f
      BY <2>5, <2>7, <2>8 DEF Stages
    <2>6. ASSUME NEW s \in Stages
          PROVE  (IF Told(s) THEN new[s] ELSE hw[s]) = new[s]
      BY <1>2, <1>12, <2>9 DEF Stages
    <2> QED
      BY <1>9, <2>2, <2>6
  <1> QED
    BY <1>9, <1>10, <1>11, <1>12 DEF new

\* They are lowered by no more than the change.
LEMMA AirspyLowers ==
  ASSUME NEW g, AirspyRange(g), NEW change \in Int, change < 0
  PROVE  /\ AirspyRange(AirspyLowered(g, change))
         /\ AirspyLowered(g, change) = [s \in Stages |-> AirspyLowered(g, change)[s]]
         /\ Sum(AirspyLowered(g, change)) >= Sum(g) + change
         /\ g = [s \in Stages |-> g[s]] /\ hw = g =>
              AirspyTold(g, AirspyLowered(g, change), change) = AirspyLowered(g, change)
  <1> DEFINE if    == Least(-change, g["if"])
             mixer == Least(-change - if, g["mixer"])
             lna   == Least(-change - if - mixer, g["lna"])
             new   == AirspyLowered(g, change)
  <1>1. new = Gains(g["lna"] - lna, g["mixer"] - mixer, g["if"] - if)
    BY DEF AirspyLowered
  <1>20. PICK l \in 0..15 : g["lna"] = l
    BY DEF AirspyRange
  <1>21. PICK m \in 0..15 : g["mixer"] = m
    BY DEF AirspyRange
  <1>22. PICK f \in 0..15 : g["if"] = f
    BY DEF AirspyRange
  <1>2. g["lna"] = l /\ g["mixer"] = m /\ g["if"] = f
    BY <1>20, <1>21, <1>22
  <1>13. PICK c \in Nat \ {0} : c = -change
    OBVIOUS
  <1>3. if = Least(c, f)
    BY <1>2, <1>13
  <1> HIDE DEF if
  <1>4. if \in Int /\ 0 <= if /\ if <= c /\ f - if \in 0..15
    BY <1>3 DEF Least
  <1>5. mixer = Least(c - if, m)
    BY <1>2, <1>13
  <1> HIDE DEF mixer
  <1>6. /\ mixer \in Int /\ 0 <= mixer /\ mixer <= c - if /\ m - mixer \in 0..15
        /\ mixer # 0 => c - if > 0
    BY <1>4, <1>5 DEF Least
  <1>7. lna = Least(c - if - mixer, l)
    BY <1>2, <1>13
  <1> HIDE DEF lna
  <1>8. /\ lna \in Int /\ 0 <= lna /\ lna <= c - if - mixer /\ l - lna \in 0..15
        /\ lna # 0 => c - if - mixer > 0
    BY <1>4, <1>6, <1>7 DEF Least
  <1> HIDE DEF new
  <1>9. /\ new["lna"] = l - lna /\ new["mixer"] = m - mixer /\ new["if"] = f - if
        /\ new = [s \in Stages |-> new[s]]
    BY <1>1, <1>2, GainsOf
  <1>10. AirspyRange(new)
    BY <1>4, <1>6, <1>8, <1>9 DEF AirspyRange
  <1>11. Sum(new) >= Sum(g) + change
    <2>1. l - lna + (m - mixer) + (f - if) >= l + m + f + change
      BY <1>4, <1>6, <1>8, <1>13
    <2> QED
      BY <1>2, <1>9, <2>1 DEF Sum
  <1>12. ASSUME g = [s \in Stages |-> g[s]], hw = g
         PROVE  AirspyTold(g, new, change) = new
    <2> DEFINE parts == [s \in Stages |-> IF change > 0 THEN new[s] - g[s] ELSE g[s] - new[s]]
               Left(s) == Most(change, -change) - TakenBefore(s, parts, change)
               Told(s) == Left(s) > 0 \/ (s = "if" /\ level = NoPower)
    <2>1. parts["if"] = if /\ parts["mixer"] = mixer
      BY <1>2, <1>4, <1>6, <1>9 DEF Stages
    <2>2. AirspyTold(g, new, change) = [s \in Stages |-> IF Told(s) THEN new[s] ELSE hw[s]]
      BY DEF AirspyTold
    <2> HIDE DEF parts
    <2>3. Most(change, -change) = c
      BY <1>13 DEF Most
    <2>10. /\ TakenBefore("if", parts, change) = 0
           /\ TakenBefore("mixer", parts, change) = if
           /\ TakenBefore("lna", parts, change) = if + mixer
      <3>1. ~(change > 0)
        OBVIOUS
      <3> QED
        BY <2>1, <3>1 DEF TakenBefore
    <2>4. Left("if") = c /\ Left("mixer") = c - if /\ Left("lna") = c - (if + mixer)
      BY <1>4, <2>3, <2>10
    <2> HIDE DEF Left
    <2>5. /\ ~(Left("lna") > 0) => lna = 0
          /\ ~(Left("mixer") > 0) => mixer = 0
          /\ ~(Left("if") > 0) => if = 0
      BY <1>4, <1>6, <1>8, <2>4
    <2>7. \A s \in Stages : Left(s) > 0 => Told(s)
      OBVIOUS
    <2> HIDE DEF Told
    <2>8. /\ lna = 0 => new["lna"] = l
          /\ mixer = 0 => new["mixer"] = m
          /\ if = 0 => new["if"] = f
      BY <1>9
    <2>9. /\ ~Told("lna") => new["lna"] = l
          /\ ~Told("mixer") => new["mixer"] = m
          /\ ~Told("if") => new["if"] = f
      BY <2>5, <2>7, <2>8 DEF Stages
    <2>6. ASSUME NEW s \in Stages
          PROVE  (IF Told(s) THEN new[s] ELSE hw[s]) = new[s]
      BY <1>2, <1>12, <2>9 DEF Stages
    <2> QED
      BY <1>9, <2>2, <2>6
  <1> QED
    BY <1>9, <1>10, <1>11, <1>12 DEF new

\* What the AGC may do to the gains: no more than the measurement calls for.
NoMore(new) ==
  level # NoPower =>
    IF level > Upper THEN Sum(new) >= Sum(hw) + (Upper - level)
    ELSE IF level < Lower THEN Sum(new) <= Sum(hw) + (Lower - level) ELSE new = hw

\* Gains are whole numbers that sum up to one.
LEMMA SumOfGains ==
  ASSUME NEW g, InRange(g)
  PROVE  Sum(g) \in Nat
  <1>1. g["lna"] \in Nat /\ g["mixer"] \in Nat /\ g["if"] \in Nat
    BY DEF InRange, HackrfRange, AirspyRange
  <1> QED
    BY <1>1 DEF Sum

\* The HackRF is told all that its gains are changed to.
LEMMA HackrfToldAll ==
  ASSUME NEW new, HackrfRange(new), new = [s \in Stages |-> new[s]],
         hw = [s \in Stages |-> hw[s]]
  PROVE  HackrfTold(hw, new) = new
  <1>1. ASSUME NEW s \in Stages
        PROVE  (IF new[s] = hw[s] THEN hw[s]
                ELSE IF s = "lna" /\ new[s] > 0 THEN 14 ELSE new[s]) = new[s]
    <2>1. new["lna"] = 0 \/ new["lna"] = 14
      BY DEF HackrfRange
    <2> QED
      BY <2>1
  <1> QED
    BY <1>1 DEF HackrfTold

\* A change is what brings the level to the edge of the window, or what a processor
\* makes of no power.
LEMMA ChangeIs ==
  ASSUME level \in {NoPower} \cup Faintest..0, NEW change \in Changes
  PROVE  \/ level # NoPower /\ level > Upper /\ change = Upper - level
         \/ level # NoPower /\ level < Lower /\ change = Lower - level
         \/ level # NoPower /\ level <= Upper /\ level >= Lower /\ change = 0
         \/ level = NoPower /\ change = Largest
         \/ level = NoPower /\ change = Smallest /\ device = "hackrf"
         \/ level = NoPower /\ change = 0 /\ device # "hackrf"
  BY DEF Changes, Upper, Lower, Faintest, NoPower

\* The HackRF's AGC keeps its gains in their range, and what it tells the device is what
\* it believes.
LEMMA HackrfAdjusts ==
  ASSUME device = "hackrf", InRange(hw), level \in {NoPower} \cup Faintest..0,
         NEW change \in Changes
  PROVE  /\ InRange(Adjusted(hw, change)) /\ NoMore(Adjusted(hw, change))
         /\ HackrfTold(hw, Adjusted(hw, change)) = Adjusted(hw, change)
  <1> DEFINE new == Adjusted(hw, change)
  <1>1. HackrfRange(hw) /\ hw = [s \in Stages |-> hw[s]] /\ Sum(hw) \in Nat
    BY SumOfGains DEF InRange
  <1>2. SUFFICES HackrfRange(new) /\ new = [s \in Stages |-> new[s]] /\ NoMore(new)
    BY <1>1, <1>2, HackrfToldAll DEF InRange
  <1>3. ASSUME level # NoPower, level > Upper, change = Upper - level
        PROVE  HackrfRange(new) /\ new = [s \in Stages |-> new[s]] /\ NoMore(new)
    <2>1. change \in Int /\ change < 0
      BY <1>3 DEF Upper, Faintest
    <2>2. new = HackrfLowered(hw, change)
      BY <2>1 DEF Adjusted
    <2> QED
      BY <1>1, <1>3, <2>1, <2>2, HackrfLowers DEF NoMore
  <1>4. ASSUME level # NoPower, level < Lower, change = Lower - level
        PROVE  HackrfRange(new) /\ new = [s \in Stages |-> new[s]] /\ NoMore(new)
    <2>1. change \in Int /\ 1 <= change /\ change <= 2000 /\ ~(level > Upper)
      BY <1>4 DEF Upper, Lower, Faintest
    <2>2. new = HackrfRaised(hw, change)
      <3>1. change # 0 /\ change > 0
        BY <2>1
      <3> QED
        BY <3>1 DEF Adjusted
    <2>3. /\ HackrfRange(new) /\ new = [s \in Stages |-> new[s]]
          /\ Sum(new) <= Sum(hw) + change
      BY <1>1, <2>1, <2>2, HackrfRaises
    <2> QED
      BY <1>4, <2>1, <2>3 DEF NoMore
  <1>5. ASSUME change = 0, level # NoPower => level <= Upper /\ level >= Lower
        PROVE  HackrfRange(new) /\ new = [s \in Stages |-> new[s]] /\ NoMore(new)
    <2>1. new = hw
      BY <1>5 DEF Adjusted
    <2>2. level # NoPower => ~(level > Upper) /\ ~(level < Lower)
      BY <1>5 DEF Upper, Lower, Faintest
    <2> QED
      BY <1>1, <2>1, <2>2 DEF NoMore
  <1>6. ASSUME level = NoPower, change = Largest
        PROVE  HackrfRange(new) /\ new = [s \in Stages |-> new[s]] /\ NoMore(new)
    <2>1. new = HackrfRaised(hw, Largest)
      BY <1>6 DEF Adjusted, Largest
    <2> QED
      BY <1>1, <1>6, <2>1, HackrfRaisedBlindly DEF NoMore
  <1>7. ASSUME level = NoPower, change = Smallest
        PROVE  HackrfRange(new) /\ new = [s \in Stages |-> new[s]] /\ NoMore(new)
    <2>1. change \in Int /\ change < 0
      BY <1>7 DEF Smallest
    <2>2. new = HackrfLowered(hw, change)
      BY <2>1 DEF Adjusted
    <2> QED
      BY <1>1, <1>7, <2>1, <2>2, HackrfLowers DEF NoMore
  <1> QED
    BY <1>3, <1>4, <1>5, <1>6, <1>7, ChangeIs

\* So does the Airspy's.
LEMMA AirspyAdjusts ==
  ASSUME device = "airspy", InRange(hw), level \in {NoPower} \cup Faintest..0,
         NEW change \in Changes
  PROVE  /\ InRange(Adjusted(hw, change)) /\ NoMore(Adjusted(hw, change))
         /\ AirspyTold(hw, Adjusted(hw, change), change) = Adjusted(hw, change)
  <1> DEFINE new  == Adjusted(hw, change)
             Right == /\ AirspyRange(new) /\ new = [s \in Stages |-> new[s]] /\ NoMore(new)
                      /\ AirspyTold(hw, new, change) = new
  <1>1. AirspyRange(hw) /\ hw = [s \in Stages |-> hw[s]] /\ Sum(hw) \in Nat
    BY SumOfGains DEF InRange
  <1>2. SUFFICES Right
    BY <1>2 DEF InRange
  <1>3. ASSUME level # NoPower, level > Upper, change = Upper - level
        PROVE  Right
    <2>1. change \in Int /\ change < 0
      BY <1>3 DEF Upper, Faintest
    <2>2. new = AirspyLowered(hw, change)
      BY <2>1 DEF Adjusted
    <2> QED
      BY <1>1, <1>3, <2>1, <2>2, AirspyLowers DEF NoMore
  <1>4. ASSUME level # NoPower, level < Lower, change = Lower - level
        PROVE  Right
    <2>1. change \in Nat \ {0} /\ ~(level > Upper)
      BY <1>4 DEF Upper, Lower, Faintest
    <2>2. new = AirspyRaised(hw, change)
      <3>1. change # 0 /\ change > 0
        BY <2>1
      <3> QED
        BY <3>1 DEF Adjusted
    <2> QED
      BY <1>1, <1>4, <2>1, <2>2, AirspyRaises DEF NoMore
  <1>5. ASSUME change = 0, level # NoPower => level <= Upper /\ level >= Lower
        PROVE  Right
    <2>1. new = hw
      BY <1>5 DEF Adjusted
    <2>2. level # NoPower => ~(level > Upper) /\ ~(level < Lower)
      BY <1>5 DEF Upper, Lower, Faintest
    <2>3. AirspyTold(hw, hw, change) = hw
      BY <1>1 DEF AirspyTold
    <2> QED
      BY <1>1, <2>1, <2>2, <2>3 DEF NoMore
  <1>6. ASSUME level = NoPower, change = Largest
        PROVE  Right
    <2>1. new = AirspyRaised(hw, change) /\ change \in Nat \ {0}
      BY <1>6 DEF Adjusted, Largest
    <2> QED
      BY <1>1, <1>6, <2>1, AirspyRaises DEF NoMore
  <1> QED
    BY <1>3, <1>4, <1>5, <1>6, ChangeIs

\* The edge of the window towards which the AGC goes is not passed.
NotPast(new) ==
  IF level > Upper THEN signal + Sum(new) >= Upper ELSE signal + Sum(new) <= Lower

\* While nobody has ordered a gain, the AGC keeps the device at the gains it believes it
\* has, and does not go past its window on a fresh measurement.
LEMMA AgcKeeps ==
  ASSUME AgcInv, ~ordered, Agc(gains)
  PROVE  gains' = hw' /\ InRange(hw') /\ (fresh /\ hw' # hw => NotPast(hw'))
  <1>1. gains = hw /\ InRange(hw) /\ level \in {NoPower} \cup Faintest..0
    BY DEF AgcInv, GainsTold
  <1>2. PICK change \in Changes :
          /\ gains' = Adjusted(hw, change)
          /\ hw' = IF device = "hackrf" THEN HackrfTold(hw, gains')
                                        ELSE AirspyTold(hw, gains', change)
    BY <1>1 DEF Agc
  <1>3. gains' = hw' /\ InRange(hw') /\ NoMore(hw')
    BY <1>1, <1>2, HackrfAdjusts, AirspyAdjusts DEF AgcInv
  <1>4. ASSUME fresh, hw' # hw
        PROVE  NotPast(hw')
    <2>1. PICK old \in Nat, new \in Nat : old = Sum(hw) /\ new = Sum(hw')
      BY <1>1, <1>3, SumOfGains
    <2>2. PICK s \in Faintest..0 : s = signal
      BY DEF AgcInv, Signals
    <2>3. level = Least(0, s + old)
      BY <1>4, <2>1, <2>2 DEF AgcInv, Measured
    <2>4. level \in Int /\ level >= Faintest /\ level <= s + old /\ (level < 0 => level = s + old)
      BY <2>3 DEF Least, Faintest
    <2>5. level # NoPower
      BY <2>4 DEF Faintest, NoPower
    <2>6. IF level > Upper THEN new >= old + (Upper - level) ELSE new <= old + (Lower - level)
      BY <1>3, <1>4, <2>1, <2>5 DEF NoMore
    <2>7. level > Upper \/ level < Lower
      BY <1>3, <1>4, <2>5 DEF NoMore
    <2>8. IF level > Upper THEN s + new >= Upper ELSE s + new <= Lower
      BY <2>4, <2>6, <2>7 DEF Upper, Lower
    <2> QED
      BY <2>1, <2>2, <2>8 DEF NotPast
  <1> QED
    BY <1>3, <1>4

\* A step that leaves the front end's gains and its signal alone.
Quiet == UNCHANGED <<device, gains, hw, signal, level, fresh, ordered>>

\* The budget of signals is never spent.
SignalsLeft ==
  \/ UNCHANGED budget
  \/ \E what \in {"losses", "stops", "changes", "orders", "commands", "failures"} : Spend(what)

\* What is spent of the budget is not its signals.
LEMMA SignalsStay ==
  ASSUME Signals, SignalsLeft
  PROVE  "signals" \in DOMAIN budget' /\ budget'.signals = budget.signals
  <1>1. CASE UNCHANGED budget
    BY <1>1 DEF Signals
  <1>2. ASSUME NEW what \in {"losses", "stops", "changes", "orders", "commands", "failures"},
               Spend(what)
        PROVE  "signals" \in DOMAIN budget' /\ budget'.signals = budget.signals
    <2>1. budget' = [budget EXCEPT ![what] = @ - 1] /\ what # "signals"
      BY <1>2 DEF Spend
    <2> QED
      BY <2>1 DEF Signals
  <1> QED
    BY <1>1, <1>2 DEF SignalsLeft

\* Such a step keeps the invariant of the AGC.
LEMMA AgcUndisturbed ==
  ASSUME AgcInv, Quiet, SignalsLeft
  PROVE  AgcInv'
  <1>1. Signals'
    BY SignalsStay DEF AgcInv, Signals, Quiet
  <1> QED
    BY <1>1 DEF AgcInv, GainsTold, Measured, Quiet, InRange, HackrfRange, AirspyRange, Sum,
       Least

\* A pass of the front end's loop.
LEMMA PassKeeps ==
  ASSUME AgcInv, NEW g, ~ordered' => ~ordered /\ g = gains, Agc(g), SignalsLeft,
         UNCHANGED <<device, signal, level>>
  PROVE  AgcInv' /\ (fresh /\ ~ordered' /\ hw' # hw => NotPast(hw'))
  <1>1. Signals'
    BY SignalsStay DEF AgcInv, Signals
  <1>2. fresh' = (fresh /\ hw' = hw)
    BY DEF Agc
  <1>3. Measured'
    BY <1>2 DEF AgcInv, Measured, Sum, Least
  <1>4. ASSUME ~ordered'
        PROVE  gains' = hw' /\ InRange(hw') /\ (fresh /\ hw' # hw => NotPast(hw'))
    BY <1>4, AgcKeeps
  <1>5. InRange(hw') => InRange(hw)'
    BY DEF InRange, HackrfRange, AirspyRange
  <1>6. ~ordered' => level \in {NoPower} \cup Faintest..0
    BY DEF AgcInv, GainsTold
  <1> QED
    BY <1>1, <1>3, <1>4, <1>5, <1>6 DEF AgcInv, GainsTold

\* A status costs nothing, or one of the losses.
LEMMA ReportSpends ==
  ASSUME NEW g, Report(g)
  PROVE  SignalsLeft
  BY DEF Report, SignalsLeft

\* An order without items stores nothing.
LEMMA NothingStored ==
  ASSUME NEW g, g = [s \in Stages |-> g[s]]
  PROVE  Stored(g, NoItems) = g
  <1>1. \A s \in Stages : s \notin DOMAIN NoItems
    BY DEF NoItems
  <1> QED
    BY <1>1 DEF Stored

\* The front end's loop keeps the invariant, with a command and without.
LEMMA LoopKeeps ==
  ASSUME AgcInv, ObeyOrder \/ NoOrder
  PROVE  AgcInv' /\ (fresh /\ ~ordered' /\ hw' # hw => NotPast(hw'))
  <1>1. CASE ObeyOrder
    <2>1. ~ordered' => ~ordered /\ Head(orders) = NoItems
      BY <1>1 DEF ObeyOrder
    <2>2. ~ordered' => Stored(gains, Head(orders)) = gains
      BY <2>1, NothingStored DEF AgcInv, GainsTold, InRange
    <2>3. /\ Agc(Stored(gains, Head(orders))) /\ SignalsLeft
          /\ UNCHANGED <<device, signal, level>>
      BY <1>1, ReportSpends DEF ObeyOrder
    <2> QED
      BY <2>1, <2>2, <2>3, PassKeeps
  <1>2. CASE NoOrder
    <2>1. Agc(gains) /\ SignalsLeft /\ UNCHANGED <<device, signal, level, ordered>>
      BY <1>2, ReportSpends DEF NoOrder
    <2> QED
      BY <2>1, PassKeeps
  <1> QED
    BY <1>1, <1>2

\* A transfer measures this signal with these gains.
LEMMA MeasureKeeps ==
  ASSUME AgcInv, Measure
  PROVE  AgcInv' /\ hw' = hw
  <1>1. /\ level' = Least(0, signal + Sum(hw))
        /\ UNCHANGED <<device, gains, hw, signal, ordered, budget>>
    BY DEF Measure
  <1>2. Signals'
    BY <1>1 DEF AgcInv, Signals
  <1>3. Measured'
    BY <1>1 DEF AgcInv, Measured, Sum, Least
  <1>4. InRange(hw) => InRange(hw)'
    BY <1>1 DEF InRange, HackrfRange, AirspyRange
  <1>5. InRange(hw) => level' \in Faintest..0
    <2>1. SUFFICES ASSUME InRange(hw)
                   PROVE  level' \in Faintest..0
      OBVIOUS
    <2>2. PICK old \in Nat : old = Sum(hw)
      BY <2>1, SumOfGains
    <2>3. signal \in Int /\ Faintest <= signal /\ signal <= 0
      BY DEF AgcInv, Signals, Faintest
    <2> QED
      BY <1>1, <2>2, <2>3 DEF Least, Faintest
  <1> QED
    BY <1>1, <1>2, <1>3, <1>4, <1>5 DEF AgcInv, GainsTold

\* The gains a front end begins with are in range.
LEMMA FirstGainsInRange ==
  ASSUME device \in {"hackrf", "airspy"}
  PROVE  InRange(FirstGains)
  BY GainsOf DEF FirstGains, InRange, HackrfRange, AirspyRange

\* The other steps of the front end.
LEMMA RestKeeps ==
  ASSUME AgcInv, StartFrontEnd \/ StopFrontEnd \/ SignalChanges \/ GiveOrder
  PROVE  AgcInv' /\ (up => hw' = hw)
  <1>1. CASE StartFrontEnd
    <2>1. /\ ~up /\ gains' = FirstGains /\ hw' = FirstGains /\ level' = NoPower
          /\ fresh' = FALSE /\ UNCHANGED <<device, signal, budget>>
      BY <1>1 DEF StartFrontEnd
    <2>2. Signals' /\ Measured'
      BY <2>1 DEF AgcInv, Signals, Measured
    <2>3. InRange(FirstGains)
      BY FirstGainsInRange DEF AgcInv
    <2>4. InRange(hw)'
      BY <2>1, <2>3 DEF InRange, HackrfRange, AirspyRange
    <2> QED
      BY <2>1, <2>2, <2>4 DEF AgcInv, GainsTold
  <1>2. CASE StopFrontEnd
    <2>1. Quiet /\ Spend("stops")
      BY <1>2 DEF StopFrontEnd, Quiet
    <2>2. SignalsLeft
      BY <2>1 DEF SignalsLeft
    <2> QED
      BY <2>1, <2>2, AgcUndisturbed DEF Quiet
  <1>3. CASE SignalChanges
    <2>1. /\ Spend("changes") /\ signal' \in budget.signals /\ fresh' = FALSE
          /\ UNCHANGED <<device, gains, hw, level, ordered>>
      BY <1>3 DEF SignalChanges
    <2>2. SignalsLeft
      BY <2>1 DEF SignalsLeft
    <2>3. Signals' /\ Measured'
      BY <2>1, <2>2, SignalsStay DEF AgcInv, Signals, Measured
    <2>4. InRange(hw) => InRange(hw)'
      BY <2>1 DEF InRange, HackrfRange, AirspyRange
    <2> QED
      BY <2>1, <2>3, <2>4 DEF AgcInv, GainsTold
  <1>4. CASE GiveOrder
    <2>1. Quiet /\ Spend("orders")
      BY <1>4 DEF GiveOrder, Quiet
    <2>2. SignalsLeft
      BY <2>1 DEF SignalsLeft
    <2> QED
      BY <2>1, <2>2, AgcUndisturbed DEF Quiet
  <1> QED
    BY <1>1, <1>2, <1>3, <1>4

\* What the other programs do leaves the front end's gains and signal alone.
LEMMA OthersQuiet ==
  ASSUME \/ Main \/ WakeForNothing \/ StatusThread \/ GiveCommand \/ StartPacket
         \/ StartOpus \/ \E p \in Programs : JoinAudio(p)
  PROVE  Quiet /\ SignalsLeft
  <1>1. CASE Main
    BY <1>1 DEF Main, OpenSockets, CheckStatus, OpenInput, ReadOption, ResetGain,
       CreateFilter, MakeResponse, SwapResponse, NextBlock, MainUnchanged, ButListening,
       frontVars, Quiet, SignalsLeft
  <1>2. CASE WakeForNothing
    BY <1>2 DEF WakeForNothing, MainUnchanged, ButListening, Quiet, SignalsLeft
  <1>3. CASE StatusThread
    BY <1>3 DEF StatusThread, TakeStatus, DecodeAddress, DecodeRate, DeriveFromRate,
       DecodeRest, BroadcastStatus, TakeCommand, SetEdges, SwapNewResponse, NoCommand,
       SendRadioStatus, ThreadUnchanged, frontVars, Quiet, SignalsLeft
  <1>4. CASE GiveCommand
    BY <1>4 DEF GiveCommand, frontVars, Quiet, SignalsLeft
  <1>5. CASE StartPacket \/ StartOpus
    BY <1>5 DEF StartPacket, StartOpus, Sockets, frontVars, Quiet, SignalsLeft
  <1>6. CASE \E p \in Programs : JoinAudio(p)
    BY <1>6 DEF JoinAudio, frontVars, Quiet, SignalsLeft
  <1> QED
    BY <1>1, <1>2, <1>3, <1>4, <1>5, <1>6

\* Every step of the programs keeps the invariant of the AGC, and none goes past its
\* window.
LEMMA AgcStep ==
  ASSUME AgcInv, [StartUpNext]_startUpVars
  PROVE  AgcInv' /\ (fresh /\ up /\ ~ordered' /\ hw' # hw => NotPast(hw'))
  <1>1. CASE FrontEndStep
    <2>1. \/ ObeyOrder \/ NoOrder \/ Measure
          \/ StartFrontEnd \/ StopFrontEnd \/ SignalChanges \/ GiveOrder
      BY <1>1 DEF FrontEndStep, FrontEndNext
    <2> QED
      BY <2>1, LoopKeeps, MeasureKeeps, RestKeeps
  <1>2. CASE UNCHANGED startUpVars
    <2>1. Quiet /\ SignalsLeft
      BY <1>2 DEF startUpVars, frontVars, Quiet, SignalsLeft
    <2> QED
      BY <2>1, AgcUndisturbed DEF Quiet
  <1>3. CASE ~FrontEndStep /\ StartUpNext
    <2>1. Quiet /\ SignalsLeft
      BY <1>3, OthersQuiet DEF StartUpNext
    <2> QED
      BY <2>1, AgcUndisturbed DEF Quiet
  <1> QED
    BY <1>1, <1>2, <1>3

\* While nobody orders a gain, the front end's program and its device agree on gains the
\* stages can have, and a fresh measurement is one of these gains.
THEOREM AgcInductive == StartUpSpec => []AgcInv
  <1>1. StartUpInit => AgcInv
    <2>1. SUFFICES ASSUME StartUpInit
                   PROVE  AgcInv
      OBVIOUS
    <2>2. FrontEndInit
      BY <2>1 DEF StartUpInit
    <2>3. device \in {"hackrf", "airspy"} /\ Signals
      BY <2>2, FrontEndAssumption DEF FrontEndInit, Signals
    <2> QED
      BY <2>2, <2>3, FirstGainsInRange DEF AgcInv, FrontEndInit, GainsTold, Measured
  <1>2. AgcInv /\ [StartUpNext]_startUpVars => AgcInv'
    BY AgcStep
  <1> QED
    BY <1>1, <1>2, PTL DEF StartUpSpec

\* No step of the AGC, made on a fresh measurement and with gains nobody ordered, goes
\* past the near edge of its window.
THEOREM NoOvershootThm == StartUpSpec => NoOvershoot
  <1>1. AgcInv /\ [StartUpNext]_startUpVars =>
          [(fresh /\ up /\ up' /\ ~ordered' /\ hw' # hw) =>
             IF level > Upper THEN signal + Sum(hw') >= Upper
                              ELSE signal + Sum(hw') <= Lower]_startUpVars
    BY AgcStep DEF NotPast
  <1> QED
    BY <1>1, AgcInductive, PTL DEF StartUpSpec, NoOvershoot
-----------------------------------------------------------------------------
(* Whole numbers in packets *)

\* A number moved down by one byte after the other.
LEMMA ShiftedIs ==
  ASSUME NEW x
  PROVE  Shifted(x) = [n \in 0..8 |-> IF n = 0 THEN x ELSE Shifted(x)[n - 1] \div Base]
  <1>y1. PICK y1 : y1 = x \div Base
    OBVIOUS
  <1>y2. PICK y2 : y2 = y1 \div Base
    OBVIOUS
  <1>y3. PICK y3 : y3 = y2 \div Base
    OBVIOUS
  <1>y4. PICK y4 : y4 = y3 \div Base
    OBVIOUS
  <1>y5. PICK y5 : y5 = y4 \div Base
    OBVIOUS
  <1>y6. PICK y6 : y6 = y5 \div Base
    OBVIOUS
  <1>y7. PICK y7 : y7 = y6 \div Base
    OBVIOUS
  <1>y8. PICK y8 : y8 = y7 \div Base
    OBVIOUS
  <1> DEFINE s == [n \in 0..8 |-> CASE n = 0 -> x [] n = 1 -> y1 [] n = 2 -> y2 [] n = 3 -> y3
                                    [] n = 4 -> y4 [] n = 5 -> y5 [] n = 6 -> y6 [] n = 7 -> y7
                                    [] n = 8 -> y8]
  <1>1. \A n \in 0..8 : s[n] = IF n = 0 THEN x ELSE s[n - 1] \div Base
    <2>1. /\ s[0] = x /\ s[1] = y1 /\ s[2] = y2 /\ s[3] = y3 /\ s[4] = y4
          /\ s[5] = y5 /\ s[6] = y6 /\ s[7] = y7 /\ s[8] = y8
      OBVIOUS
    <2> HIDE DEF s
    <2>2. /\ s[1] = s[0] \div Base /\ s[2] = s[1] \div Base /\ s[3] = s[2] \div Base
          /\ s[4] = s[3] \div Base /\ s[5] = s[4] \div Base /\ s[6] = s[5] \div Base
          /\ s[7] = s[6] \div Base /\ s[8] = s[7] \div Base
      BY <1>y1, <1>y2, <1>y3, <1>y4, <1>y5, <1>y6, <1>y7, <1>y8, <2>1
    <2>3. SUFFICES ASSUME NEW n \in 0..8
                   PROVE  s[n] = IF n = 0 THEN x ELSE s[n - 1] \div Base
      OBVIOUS
    <2>4. n \in {0, 1, 2, 3, 4, 5, 6, 7, 8}
      OBVIOUS
    <2> QED
      <3>1. /\ 1 - 1 = 0 /\ 2 - 1 = 1 /\ 3 - 1 = 2 /\ 4 - 1 = 3
            /\ 5 - 1 = 4 /\ 6 - 1 = 5 /\ 7 - 1 = 6 /\ 8 - 1 = 7
        OBVIOUS
      <3>2. n = 0 \/ (n # 0 /\ s[n] = s[n - 1] \div Base)
        BY <2>2, <2>4, <3>1
      <3> QED
        BY <2>1, <3>2
  <1>2. s = [n \in 0..8 |-> IF n = 0 THEN x ELSE s[n - 1] \div Base]
    BY <1>1
  <1> QED
    BY <1>2 DEF Shifted

\* As numbers.
LEMMA ShiftedNumbers ==
  ASSUME NEW x \in Nat
  PROVE  /\ Shifted(x)[0] = x /\ \A n \in 0..8 : Shifted(x)[n] \in Nat
         /\ \A n \in 1..8 : /\ Shifted(x)[n] = Shifted(x)[n - 1] \div Base
                            /\ Base * Shifted(x)[n] <= Shifted(x)[n - 1]
                            /\ Shifted(x)[n - 1] =
                                 Shifted(x)[n] * Base + (Shifted(x)[n - 1] % Base)
  <1> PICK s : s = Shifted(x)
    OBVIOUS
  <1>1. s[0] = x /\ \A n \in 1..8 : s[n] = s[n - 1] \div Base
    <2>1. s = [n \in 0..8 |-> IF n = 0 THEN x ELSE s[n - 1] \div Base]
      BY ShiftedIs
    <2> QED
      BY <2>1
  <1>2. Base \in Nat \ {0}
    BY StatusAssumption
  <1>3. \A n \in 0..8 : s[n] \in Nat
    <2>1. ASSUME NEW n \in 1..8, s[n - 1] \in Nat
          PROVE  s[n] \in Nat
      BY <1>1, <1>2, <2>1, DivNat
    <2>2. s[0] \in Nat /\ s[1] \in Nat /\ s[2] \in Nat /\ s[3] \in Nat /\ s[4] \in Nat
      BY <1>1, <2>1
    <2>3. s[5] \in Nat /\ s[6] \in Nat /\ s[7] \in Nat /\ s[8] \in Nat
      BY <2>1, <2>2
    <2> QED
      BY <2>2, <2>3
  <1>4. ASSUME NEW n \in 1..8
        PROVE  /\ Base * s[n] <= s[n - 1]
               /\ s[n - 1] = s[n] * Base + (s[n - 1] % Base)
    <2>1. PICK a \in Nat : a = s[n - 1]
      BY <1>3
    <2>2. a \div Base \in Int /\ a % Base \in 0..Base - 1
          /\ a = Base * (a \div Base) + (a % Base)
      BY <1>2, DivMod
    <2>3. PICK q \in Int : q = a \div Base
      BY <2>2
    <2>4. PICK r \in Nat : r = a % Base
      BY <1>2, <2>2
    <2>5. a = Base * q + r
      BY <2>2, <2>3, <2>4
    <2>6. Base * q <= a /\ a = q * Base + r
      BY <1>2, <2>5
    <2>7. s[n] = q
      BY <1>1, <2>1, <2>3
    <2> QED
      BY <2>1, <2>4, <2>6, <2>7
  <1> QED
    BY <1>1, <1>3, <1>4

\* A number of four bytes at most has been moved out after eight.
LEMMA ShiftedOut ==
  ASSUME NEW x \in Nat, ((x \div Base) \div Base) \div Base < 128
  PROVE  Shifted(x)[8] = 0
  <1>1. PICK s : s = Shifted(x)
    OBVIOUS
  <1>2. s[3] < 128
    <2>1. /\ s[0] = x /\ s[1] = s[0] \div Base /\ s[2] = s[1] \div Base
          /\ s[3] = s[2] \div Base
      <3>1. s[0] = x /\ \A n \in 1..8 : s[n] = s[n - 1] \div Base
        BY <1>1, ShiftedNumbers
      <3>2. 1 \in 1..8 /\ 2 \in 1..8 /\ 3 \in 1..8 /\ 1 - 1 = 0 /\ 2 - 1 = 1 /\ 3 - 1 = 2
        OBVIOUS
      <3> QED
        BY <3>1, <3>2, ZenonT(60)
    <2> QED
      BY <2>1, ZenonT(60)
  <1>3. /\ s[3] \in Nat /\ s[4] \in Nat
        /\ s[5] \in Nat /\ s[6] \in Nat /\ s[7] \in Nat /\ s[8] \in Nat
    <2>1. \A n \in 0..8 : s[n] \in Nat
      BY <1>1, ShiftedNumbers, ZenonT(60)
    <2> QED
      BY <2>1
  <1>4. /\ 256 * s[4] <= s[3] /\ 256 * s[5] <= s[4] /\ 256 * s[6] <= s[5]
        /\ 256 * s[7] <= s[6] /\ 256 * s[8] <= s[7]
    <2>1. \A n \in 1..8 : 256 * s[n] <= s[n - 1]
      <3>1. Base = 256
        BY FrontEndAssumption
      <3>2. \A n \in 1..8 : Base * s[n] <= s[n - 1]
        BY <1>1, ShiftedNumbers, ZenonT(60)
      <3> QED
        BY <3>1, <3>2, ZenonT(60)
    <2> QED
      BY <2>1
  <1>5. s[8] = 0
    BY <1>2, <1>3, <1>4
  <1> QED
    BY <1>1, <1>5

\* The number of its bytes is the first after which nothing is left.
LEMMA ByteCountIs ==
  ASSUME NEW x \in Nat, Shifted(x)[8] = 0
  PROVE  ByteCount(x) \in 0..8 /\ Shifted(x)[ByteCount(x)] = 0
  <1> DEFINE S == {n \in 0..8 : Shifted(x)[n] = 0}
  <1>1. S \in SUBSET Nat /\ 8 \in S
    OBVIOUS
  <1>2. PICK n \in S : \A m \in S : n <= m
    BY <1>1, LeastNatural
  <1>3. n \in 0..8 /\ Shifted(x)[n] = 0 /\ \A m \in 0..(n - 1) : Shifted(x)[m] # 0
    BY <1>2
  <1> QED
    BY <1>3 DEF ByteCount

\* What is accumulated is what its recursive definition says.
LEMMA AccumulatedIs ==
  ASSUME NEW bytes, NEW n \in Nat, Len(bytes) = n, NEW f,
         f = [k \in 0..n |-> IF k = 0 THEN 0 ELSE f[k - 1] * Base + bytes[k]]
  PROVE  DecodedInt(bytes) = f[n]
  <1>1. PICK g : g = Accumulated(bytes)
    OBVIOUS
  <1>2. g = [k \in 0..n |-> IF k = 0 THEN 0 ELSE g[k - 1] * Base + bytes[k]]
    BY <1>1 DEF Accumulated
  <1>3. \A k \in 0..n : g[k] = f[k]
    <2>1. SUFFICES ASSUME \E k \in 0..n : g[k] # f[k]
                   PROVE  FALSE
      OBVIOUS
    <2> DEFINE S == {k \in 0..n : g[k] # f[k]}
    <2>2. S \in SUBSET Nat /\ S # {}
      BY <2>1
    <2>3. PICK k \in S : \A m \in S : k <= m
      BY <2>2, LeastNatural
    <2>4. k \in 0..n /\ g[k] # f[k]
      BY <2>3
    <2>5. k # 0
      <3>1. 0 \in 0..n
        OBVIOUS
      <3> QED
        BY <1>2, <2>4, <3>1
    <2>6. PICK j \in 0..n : j = k - 1 /\ j < k
      BY <2>4, <2>5
    <2>7. g[j] = f[j]
      BY <2>3, <2>4, <2>6
    <2>8. g[k] = g[j] * Base + bytes[k] /\ f[k] = f[j] * Base + bytes[k]
      BY <1>2, <2>4, <2>5, <2>6
    <2> QED
      BY <2>4, <2>7, <2>8
  <1> QED
    BY <1>1, <1>3 DEF DecodedInt

\* What is encoded is decoded again, whatever the number of its bytes.
LEMMA RoundTrip ==
  ASSUME NEW x \in Nat, Shifted(x)[8] = 0
  PROVE  DecodedInt(EncodedInt(x)) = x
  <1>1. PICK s : s = Shifted(x)
    OBVIOUS
  <1>2. PICK n \in 0..8 : n = ByteCount(x) /\ s[n] = 0
    BY <1>1, ByteCountIs
  <1>3. PICK bytes : bytes = EncodedInt(x)
    OBVIOUS
  <1>4. bytes = [i \in 1..n |-> s[n - i] % Base]
    BY <1>1, <1>2, <1>3 DEF EncodedInt
  <1>5. Len(bytes) = n
    <2>1. \A i \in 1..n : s[n - i] % Base \in Nat
      <3>1. SUFFICES ASSUME NEW i \in 1..n
                     PROVE  s[n - i] % Base \in Nat
        OBVIOUS
      <3>2. PICK m \in 0..8 : m = n - i
        OBVIOUS
      <3>3. s[m] \in Nat /\ Base \in Nat \ {0}
        BY <1>1, ShiftedNumbers, StatusAssumption
      <3>4. PICK a \in Nat : a = s[m]
        BY <3>3
      <3>5. a % Base \in 0..Base - 1
        BY <3>3, ModRange
      <3>6. a % Base \in Nat
        BY <3>3, <3>5
      <3> QED
        BY <3>2, <3>4, <3>6
    <2>2. bytes \in [1..n -> Nat] /\ n \in Nat
      BY <1>4, <2>1
    <2>3. bytes \in Seq(Nat) /\ DOMAIN bytes = 1..n
      BY <2>2, SeqDef
    <2> QED
      BY <2>2, <2>3, LenProperties
  <1> DEFINE f == [k \in 0..n |-> s[n - k]]
  <1>6. ASSUME NEW k \in 0..n
        PROVE  f[k] = IF k = 0 THEN 0 ELSE f[k - 1] * Base + bytes[k]
    <2>1. CASE k = 0
      BY <1>2, <2>1
    <2>2. CASE k # 0
      <3>1. PICK m \in 1..8 : m = n - (k - 1)
        BY <2>2
      <3>2. n - k = m - 1 /\ k - 1 \in 0..n /\ k \in 1..n
        BY <2>2, <3>1
      <3>3. f[k] = s[m - 1] /\ f[k - 1] = s[m] /\ bytes[k] = s[m - 1] % Base
        BY <1>4, <3>1, <3>2
      <3>4. s[m - 1] = s[m] * Base + (s[m - 1] % Base)
        BY <1>1, ShiftedNumbers
      <3> QED
        BY <2>2, <3>3, <3>4
    <2> QED
      BY <2>1, <2>2
  <1>7. f = [k \in 0..n |-> IF k = 0 THEN 0 ELSE f[k - 1] * Base + bytes[k]]
    BY <1>6
  <1>8. f[n] = x
    BY <1>1, ShiftedNumbers
  <1>9. PICK h : h = f
    OBVIOUS
  <1> HIDE DEF f
  <1>10. h = [k \in 0..n |-> IF k = 0 THEN 0 ELSE h[k - 1] * Base + bytes[k]]
    BY <1>7, <1>9
  <1>11. DecodedInt(bytes) = h[n]
    BY <1>5, <1>10, AccumulatedIs
  <1> QED
    BY <1>3, <1>8, <1>9, <1>11
-----------------------------------------------------------------------------
(* The sample rate, from the front end to the filter *)

\* The ratio between the rates of the front end and the audio.
Ratio == Samprate \div OutRate

\* A status that tells a sample rate tells this one.
RateTold(packet) == "rate" \in DOMAIN packet => packet["rate"] = EncodedInt(Samprate)

\* So do those on their way to radio.
ReportsTold == IsSequence(reports) /\ \A i \in 1..Len(reports) : RateTold(reports[i])

\* The rate radio knows is the front end's, if it knows one, and so is the ratio, which is
\* there once the status thread has gone on from the rate to the next item.
RateKnown ==
  /\ radio["rate"] \in {0, Samprate} /\ radio["decimate"] \in {0, Ratio}
  /\ thread.at = "derive" => radio["rate"] = Samprate
  /\ radio["rate"] = Samprate /\ thread.at # "derive" => radio["decimate"] = Ratio

\* main has waited for the first status, and has not given up.
Started == main \in {"input", "options", "create", "filter", "swap", "running", "crashed"}

\* What main found when it went on, unless it did so between the rate and the ratio, and
\* what it has made of it, in any case.
RateFound ==
  /\ ~early /\ Started => radio["rate"] = Samprate /\ radio["decimate"] = Ratio
  /\ HasFilter => filter.decimate = Ratio
  /\ ~early /\ main = "crashed" => Ratio = 0

\* The status thread does nothing before main has opened the sockets.
NotBegun == main = "off" => ~listening /\ thread.at = "off"

FitInv == ReportsTold /\ RateTold(thread.packet) /\ RateKnown /\ RateFound /\ NotBegun

\* The rate comes through, and it is not zero.
LEMMA RateIs ==
  /\ Samprate \in Nat \ {0} /\ OutRate \in Nat \ {0}
  /\ DecodedInt(EncodedInt(Samprate)) = Samprate
  <1>1. /\ Samprate \in Nat \ {0} /\ OutRate \in Nat \ {0}
        /\ ((Samprate \div Base) \div Base) \div Base < 128
    BY FrontEndAssumption, StartUpAssumption
  <1> QED
    BY <1>1, ShiftedOut, RoundTrip

\* There is no ratio only when the front end is slower than the audio.
LEMMA RatioZero ==
  ASSUME Ratio = 0
  PROVE  Samprate < OutRate
  <1>1. /\ Samprate = OutRate * Ratio + (Samprate % OutRate)
        /\ Samprate % OutRate \in 0..OutRate - 1
    BY RateIs, DivMod DEF Ratio
  <1>2. PICK r \in 0..OutRate - 1 : r = Samprate % OutRate
    BY <1>1
  <1>3. OutRate * 0 = 0
    BY RateIs
  <1>4. Samprate = r
    BY <1>1, <1>2, <1>3, RateIs
  <1> QED
    BY <1>2, <1>4, RateIs

\* A status tells the rate, whatever of it is left out.
LEMMA StatusTells ==
  ASSUME NEW g, NEW full
  PROVE  RateTold(Compacted(table, Status(g), full))
  <1>1. PICK status : status = Status(g)
    OBVIOUS
  <1>2. status["rate"] = EncodedInt(Samprate)
    BY <1>1 DEF Status
  <1>3. "rate" \in DOMAIN Compacted(table, status, full) =>
          Compacted(table, status, full)["rate"] = status["rate"]
    BY DEF Compacted
  <1> QED
    BY <1>1, <1>2, <1>3 DEF RateTold

\* One more such status on its way, ...
LEMMA ReportsGrow ==
  ASSUME ReportsTold, NEW packet, RateTold(packet), reports' = Append(reports, packet)
  PROVE  ReportsTold'
  <1>1. /\ Len(reports) \in Nat /\ Len(reports') = Len(reports) + 1
        /\ IsSequence(reports')
    BY AppendGrows DEF ReportsTold
  <1>2. ASSUME NEW i \in 1..Len(reports')
        PROVE  RateTold(reports'[i])
    <2> DEFINE S == {reports[j] : j \in 1..Len(reports)} \cup {packet}
    <2>1. reports \in Seq({reports[j] : j \in 1..Len(reports)})
      BY DEF ReportsTold, IsSequence
    <2>2. \A j \in 1..Len(reports) : reports[j] \in S
      OBVIOUS
    <2>3. packet \in S
      OBVIOUS
    <2> HIDE DEF S
    <2>4. reports \in [1..Len(reports) -> S]
      BY <2>1, <2>2, LenProperties
    <2>5. reports \in Seq(S)
      BY <1>1, <2>4, SeqDef
    <2>6. /\ \A j \in 1..Len(reports) : reports'[j] = reports[j]
          /\ reports'[Len(reports) + 1] = packet
      BY <2>3, <2>5, AppendProperties
    <2>7. CASE i \in 1..Len(reports)
      BY <2>6, <2>7 DEF ReportsTold
    <2>8. CASE i = Len(reports) + 1
      BY <2>6, <2>8
    <2> QED
      BY <1>1, <2>7, <2>8
  <1>3. \A i \in 1..Len(reports') : RateTold(reports'[i])
    BY <1>2
  <1> QED
    BY <1>1, <1>3 DEF ReportsTold, IsSequence, RateTold

\* ... or one less, ...
LEMMA ReportsTaken ==
  ASSUME ReportsTold, reports # <<>>, reports' = Tail(reports)
  PROVE  ReportsTold' /\ RateTold(Head(reports))
  <1>1. PICK S : S = {reports[j] : j \in 1..Len(reports)}
    OBVIOUS
  <1>2. reports \in Seq(S)
    BY <1>1 DEF ReportsTold, IsSequence
  <1>3. Len(reports) \in Nat /\ Len(reports) # 0 /\ Head(reports) = reports[1]
    BY <1>2, LenProperties, EmptySeq, HeadTailProperties
  <1>4. /\ reports' \in Seq(S) /\ Len(reports') = Len(reports) - 1
        /\ \A i \in 1..Len(reports') : reports'[i] = reports[i + 1]
    BY <1>2, HeadTailProperties
  <1>5. PICK n \in Nat : n = Len(reports')
    BY <1>4, LenProperties
  <1>6. IsSequence(reports')
    <2> DEFINE T == {reports'[i] : i \in 1..n}
    <2>1. reports' \in [1..n -> S]
      BY <1>4, <1>5, LenProperties
    <2>2. \A i \in 1..n : reports'[i] \in T
      OBVIOUS
    <2> HIDE DEF T
    <2>3. reports' \in [1..n -> T]
      BY <2>1, <2>2
    <2>4. reports' \in Seq(T)
      BY <1>5, <2>3, SeqDef
    <2> QED
      BY <1>5, <2>4 DEF IsSequence, T
  <1>7. \A i \in 1..Len(reports') : RateTold(reports'[i])
    <2>1. \A i \in 1..Len(reports') : i + 1 \in 1..Len(reports)
      BY <1>3, <1>4
    <2> QED
      BY <1>4, <2>1 DEF ReportsTold
  <1>8. RateTold(Head(reports))
    BY <1>3 DEF ReportsTold
  <1> QED
    BY <1>6, <1>7, <1>8 DEF ReportsTold, IsSequence, RateTold

\* ... the same, ...
LEMMA ReportsKept ==
  ASSUME ReportsTold, UNCHANGED reports
  PROVE  ReportsTold'
  BY DEF ReportsTold, IsSequence, RateTold

\* ... or none.
LEMMA ReportsLost ==
  ASSUME reports' = <<>>
  PROVE  ReportsTold'
  <1>1. Len(reports') = 0
    OBVIOUS
  <1>2. {reports'[i] : i \in 1..Len(reports')} = {}
    BY <1>1
  <1> QED
    BY <1>1, <1>2 DEF ReportsTold, IsSequence

\* A step that changes neither rate nor ratio, nor where the status thread is about them.
LEMMA FitSame ==
  ASSUME FitInv, ReportsTold', RateTold(thread.packet)', NotBegun', early' = early,
         radio'["rate"] = radio["rate"], radio'["decimate"] = radio["decimate"],
         thread'.at = "derive" <=> thread.at = "derive",
         Started' => Started,
         HasFilter' => HasFilter /\ filter'.decimate = filter.decimate,
         main' = "crashed" => main = "crashed"
  PROVE  FitInv'
  <1>1. RateKnown'
    BY DEF FitInv, RateKnown, Ratio
  <1>2. RateFound'
    BY DEF FitInv, RateFound, Ratio
  <1> QED
    BY <1>1, <1>2 DEF FitInv

\* In the beginning no rate is known.
LEMMA FitBegins ==
  ASSUME StartUpInit
  PROVE  FitInv
  <1>1. /\ main = "off" /\ listening = FALSE /\ reports = <<>>
        /\ radio = [address |-> NoAddress, rate |-> 0, decimate |-> 0, gain |-> 0,
                    low |-> -8, high |-> 8, isb |-> FALSE]
        /\ thread = [at |-> "off", packet |-> NoItems, edges |-> [e \in Edges |-> 0],
                     made |-> NoResponse]
    BY DEF StartUpInit, FrontEndInit
  <1>2. ReportsTold
    <2>1. Len(reports) = 0 /\ {reports[i] : i \in 1..Len(reports)} = {}
      BY <1>1
    <2> QED
      BY <1>1, <2>1 DEF ReportsTold, IsSequence
  <1>3. radio["rate"] = 0 /\ thread.at = "off" /\ thread.packet = NoItems /\ Samprate # 0
    BY <1>1, RateIs
  <1>4. RateTold(thread.packet)
    BY <1>3 DEF RateTold, NoItems
  <1>5. RateKnown /\ RateFound /\ NotBegun
    BY <1>1, <1>3 DEF RateKnown, RateFound, NotBegun, Started, HasFilter
  <1> QED
    BY <1>2, <1>4, <1>5 DEF FitInv

\* The front end goes on, and may send a status.
LEMMA FrontEndFits ==
  ASSUME FitInv, FrontEndStep
  PROVE  FitInv'
  <1>1. UNCHANGED <<main, radio, filter, thread, early>>
    BY DEF FrontEndStep, OthersUnchanged, receiverVars
  <1>2. ReportsTold' /\ UNCHANGED listening
    <2>1. ASSUME NEW g, Report(g)
          PROVE  ReportsTold' /\ UNCHANGED listening
      <3>1. \/ reports' = <<>>
            \/ reports' = Append(reports, Compacted(table, Status(g), counter = 0))
            \/ UNCHANGED reports
        BY <2>1 DEF Report
      <3>2. UNCHANGED listening
        BY <2>1 DEF Report
      <3>3. ReportsTold
        BY DEF FitInv
      <3> QED
        BY <3>1, <3>2, <3>3, ReportsLost, ReportsKept, ReportsGrow, StatusTells
    <2>2. CASE ObeyOrder \/ NoOrder
      BY <2>1, <2>2 DEF ObeyOrder, NoOrder
    <2>3. CASE Measure \/ StartFrontEnd \/ StopFrontEnd \/ SignalChanges \/ GiveOrder
      <3>1. UNCHANGED <<reports, listening>>
        BY <2>3 DEF Measure, StartFrontEnd, StopFrontEnd, SignalChanges, GiveOrder
      <3> QED
        BY <3>1, ReportsKept DEF FitInv
    <2> QED
      BY <2>2, <2>3 DEF FrontEndStep, FrontEndNext
  <1>3. RateTold(thread.packet)' /\ NotBegun'
    BY <1>1, <1>2 DEF FitInv, RateTold, NotBegun
  <1> QED
    BY <1>1, <1>2, <1>3, FitSame DEF Started, HasFilter

\* main opens its sockets, or goes to sleep and wakes up.
LEMMA WaitingFits ==
  ASSUME ReceiverInv, FitInv, OpenSockets \/ WakeForNothing
  PROVE  FitInv'
  <1>1. /\ UNCHANGED <<radio, filter, early, reports>>
        /\ ~Started' /\ ~HasFilter' /\ main' \notin {"off", "crashed"}
    BY DEF OpenSockets, WakeForNothing, MainUnchanged, ButListening, Started, HasFilter
  <1>2. \/ UNCHANGED thread
        \/ main = "off" /\ thread' = [thread EXCEPT !.at = "select"]
    BY DEF OpenSockets, WakeForNothing, MainUnchanged, ButListening
  <1>3. /\ thread'.packet = thread.packet
        /\ thread'.at = "derive" <=> thread.at = "derive"
    BY <1>2 DEF ReceiverInv, Shapes, FitInv, NotBegun
  <1>4. ReportsTold' /\ RateTold(thread.packet)' /\ NotBegun'
    BY <1>1, <1>3, ReportsKept DEF FitInv, RateTold, NotBegun
  <1> QED
    BY <1>1, <1>3, <1>4, FitSame

\* It goes on when there is a rate; then the ratio is of it, unless the status thread has
\* just got it.
LEMMA CheckFits ==
  ASSUME ReceiverInv, FitInv, CheckStatus
  PROVE  FitInv'
  <1>1. /\ main = "wait" /\ main' \in {"asleep", "input"}
        /\ main' = "input" => radio.rate # 0
        /\ early' = (early \/ (main' = "input" /\ thread.at = "derive"))
        /\ UNCHANGED <<radio, filter, thread, reports, listening>>
    BY DEF CheckStatus, MainUnchanged, ButListening
  <1>2. radio.rate = radio["rate"]
    BY DEF ReceiverInv, Shapes, Members
  <1>3. ReportsTold' /\ RateTold(thread.packet)' /\ RateKnown' /\ NotBegun'
    BY <1>1 DEF FitInv, ReportsTold, IsSequence, RateTold, RateKnown, Ratio, NotBegun
  <1>4. ~HasFilter' /\ main' # "crashed"
    BY <1>1 DEF HasFilter
  <1>5. ASSUME ~early', Started'
        PROVE  radio["rate"] = Samprate /\ radio["decimate"] = Ratio
    <2>1. main' = "input" /\ thread.at # "derive"
      BY <1>1, <1>5 DEF Started
    <2> QED
      BY <1>1, <1>2, <2>1 DEF FitInv, RateKnown
  <1>6. RateFound'
    BY <1>1, <1>4, <1>5 DEF RateFound, Ratio
  <1> QED
    BY <1>3, <1>6 DEF FitInv

\* It opens the socket for the data, reads its options and uses the filter it has made.
LEMMA MainFits ==
  ASSUME ReceiverInv, FitInv,
         OpenInput \/ ReadOption \/ ResetGain \/ MakeResponse \/ SwapResponse \/ NextBlock
  PROVE  FitInv'
  <1>1. /\ UNCHANGED <<thread, early>>
        /\ Started /\ main' \notin {"off", "crashed"} /\ (HasFilter' => HasFilter)
    BY DEF OpenInput, ReadOption, ResetGain, MakeResponse, SwapResponse, NextBlock,
           MainUnchanged, ButListening, Started, HasFilter
  <1>2. UNCHANGED reports \/ reports' = <<>>
    BY DEF OpenInput, ReadOption, ResetGain, MakeResponse, SwapResponse, NextBlock,
           MainUnchanged, frontVars
  <1>3. ReportsTold
    BY DEF FitInv
  <1>4. ReportsTold'
    BY <1>2, <1>3, ReportsLost, ReportsKept
  <1>5. radio'["rate"] = radio["rate"] /\ radio'["decimate"] = radio["decimate"]
    <2>1. radio = [f \in Members |-> radio[f]]
      BY DEF ReceiverInv, Shapes
    <2>2. CASE ReadOption
      <3>1. PICK new : radio' = With(new)
        BY <2>2 DEF ReadOption
      <3>2. DOMAIN radio = Members /\ "rate" \in Members /\ "decimate" \in Members
        BY <2>1 DEF Members
      <3> QED
        BY <3>1, <3>2 DEF With
    <2>3. CASE ResetGain
      BY <2>1, <2>3 DEF ResetGain, Members
    <2>4. CASE OpenInput \/ MakeResponse \/ SwapResponse \/ NextBlock
      BY <2>4 DEF OpenInput, MakeResponse, SwapResponse, NextBlock
    <2> QED
      BY <2>2, <2>3, <2>4
  <1>6. filter'.decimate = filter.decimate
    BY DEF ReceiverInv, Shapes, OpenInput, ReadOption, ResetGain, MakeResponse, SwapResponse,
           NextBlock
  <1>7. RateTold(thread.packet)' /\ NotBegun'
    BY <1>1 DEF FitInv, RateTold, NotBegun
  <1> QED
    BY <1>1, <1>4, <1>5, <1>6, <1>7, FitSame

\* It makes the filter, of the ratio it has found.
LEMMA CreateFits ==
  ASSUME ReceiverInv, FitInv, CreateFilter
  PROVE  FitInv'
  <1>1. /\ main = "create" /\ main' \in {"crashed", "filter"}
        /\ UNCHANGED <<radio, thread, early>>
        /\ UNCHANGED reports \/ reports' = <<>>
    BY DEF CreateFilter, ButListening
  <1>2. ReportsTold
    BY DEF FitInv
  <1>3. ReportsTold'
    BY <1>1, <1>2, ReportsLost, ReportsKept
  <1>4. RateTold(thread.packet)' /\ RateKnown' /\ NotBegun'
    BY <1>1 DEF FitInv, RateTold, RateKnown, Ratio, NotBegun
  <1>5. radio.decimate = radio["decimate"]
    BY DEF ReceiverInv, Shapes, Members
  <1>6. /\ main' = "crashed" => radio["decimate"] = 0
        /\ main' = "filter" => filter'.decimate = radio["decimate"] /\ radio["decimate"] # 0
    BY <1>5 DEF CreateFilter
  <1>7. ~early => radio["rate"] = Samprate /\ radio["decimate"] = Ratio
    BY <1>1 DEF FitInv, RateFound, Started
  <1>8. RateFound'
    <2>1. HasFilter' => filter'.decimate = Ratio
      BY <1>1, <1>6 DEF FitInv, RateKnown, HasFilter
    <2> QED
      BY <1>1, <1>6, <1>7, <2>1 DEF RateFound, Ratio
  <1> QED
    BY <1>3, <1>4, <1>8 DEF FitInv

\* The status thread takes a status.
LEMMA TakeFits ==
  ASSUME ReceiverInv, FitInv, TakeStatus
  PROVE  FitInv'
  <1>1. /\ listening /\ thread.at = "select" /\ reports # <<>> /\ reports' = Tail(reports)
        /\ thread' = [thread EXCEPT !.at = "address", !.packet = Head(reports)]
        /\ UNCHANGED <<main, radio, filter, early, listening>>
    BY DEF TakeStatus, ThreadUnchanged
  <1>2. thread'.at = "address" /\ thread'.packet = Head(reports)
    BY <1>1 DEF ReceiverInv, Shapes
  <1>3. ReportsTold' /\ RateTold(Head(reports))
    BY <1>1, ReportsTaken DEF FitInv
  <1>4. RateTold(thread.packet)' /\ NotBegun'
    BY <1>1, <1>2, <1>3 DEF FitInv, RateTold, NotBegun
  <1> QED
    BY <1>1, <1>2, <1>3, <1>4, FitSame DEF Started, HasFilter

\* The other steps of the status thread that do not touch the rate.
LEMMA ThreadFits ==
  ASSUME ReceiverInv, FitInv,
         \/ DecodeAddress \/ DecodeRest \/ BroadcastStatus \/ TakeCommand \/ SetEdges
         \/ SwapNewResponse \/ NoCommand \/ SendRadioStatus
  PROVE  FitInv'
  <1>1. listening /\ UNCHANGED <<reports, early, listening>>
    BY DEF DecodeAddress, DecodeRest, BroadcastStatus, TakeCommand, SetEdges, SwapNewResponse,
           NoCommand, SendRadioStatus, ThreadUnchanged, Step, frontVars
  <1>2. main' = main \/ (main = "asleep" /\ main' = "wait")
    BY DEF DecodeAddress, DecodeRest, BroadcastStatus, TakeCommand, SetEdges, SwapNewResponse,
           NoCommand, SendRadioStatus
  <1>3. radio'["rate"] = radio["rate"] /\ radio'["decimate"] = radio["decimate"]
    <2>1. radio = [f \in Members |-> radio[f]]
      BY DEF ReceiverInv, Shapes
    <2>2. CASE DecodeAddress \/ DecodeRest
      <3>1. UNCHANGED radio \/ \E m \in {"address", "gain"} : \E v :
                                 radio' = [radio EXCEPT ![m] = v]
        BY <2>2 DEF DecodeAddress, DecodeRest
      <3> QED
        BY <2>1, <3>1 DEF Members
    <2>3. CASE TakeCommand
      <3>1. UNCHANGED radio \/ \E v : radio' = [radio EXCEPT !["isb"] = v]
        BY <2>3 DEF TakeCommand
      <3> QED
        BY <2>1, <3>1 DEF Members
    <2>4. CASE SetEdges
      <3>1. UNCHANGED radio \/ \E new : radio' = With(new)
        BY <2>4 DEF SetEdges
      <3>2. DOMAIN radio = Members /\ "rate" \in Members /\ "decimate" \in Members
        BY <2>1 DEF Members
      <3> QED
        BY <3>1, <3>2 DEF With
    <2>5. CASE BroadcastStatus \/ SwapNewResponse \/ NoCommand \/ SendRadioStatus
      BY <2>5 DEF BroadcastStatus, SwapNewResponse, NoCommand, SendRadioStatus
    <2> QED
      BY <2>2, <2>3, <2>4, <2>5
  <1>4. filter'.decimate = filter.decimate
    BY DEF ReceiverInv, Shapes, DecodeAddress, DecodeRest, BroadcastStatus, TakeCommand,
           SetEdges, SwapNewResponse, NoCommand, SendRadioStatus
  <1>5. /\ thread'.packet \in {thread.packet, NoItems}
        /\ thread.at # "derive" /\ thread'.at # "derive"
    <2>1. thread = [at |-> thread.at, packet |-> thread.packet, edges |-> thread.edges,
                    made |-> thread.made]
      BY DEF ReceiverInv, Shapes
    <2>2. CASE DecodeAddress \/ DecodeRest \/ NoCommand \/ SendRadioStatus
      BY <2>1, <2>2 DEF DecodeAddress, DecodeRest, NoCommand, SendRadioStatus, Step
    <2>3. CASE BroadcastStatus
      BY <2>1, <2>3 DEF BroadcastStatus
    <2>4. CASE TakeCommand
      BY <2>1, <2>4 DEF TakeCommand
    <2>5. CASE SetEdges
      BY <2>1, <2>5 DEF SetEdges
    <2>6. CASE SwapNewResponse
      BY <2>1, <2>6 DEF SwapNewResponse
    <2> QED
      BY <2>2, <2>3, <2>4, <2>5, <2>6
  <1>6. RateTold(thread.packet)'
    BY <1>5 DEF FitInv, RateTold, NoItems
  <1>7. main # "off" /\ main' # "off"
    BY <1>1, <1>2 DEF FitInv, NotBegun
  <1>8. NotBegun' /\ ReportsTold'
    BY <1>1, <1>7, ReportsKept DEF FitInv, NotBegun
  <1> QED
    BY <1>1, <1>2, <1>3, <1>4, <1>5, <1>6, <1>8, FitSame DEF Started, HasFilter

\* It decodes the rate, which is new only as long as none is known, ...
LEMMA DecodeRateFits ==
  ASSUME ReceiverInv, FitInv, DecodeRate
  PROVE  FitInv'
  <1>1. /\ listening /\ thread.at = "rate"
        /\ thread' = [thread EXCEPT !.at = IF NewRate THEN "derive" ELSE "rest"]
        /\ NewRate => radio' = [radio EXCEPT !.rate = DecodedInt(thread.packet["rate"])]
        /\ ~NewRate => UNCHANGED radio
        /\ UNCHANGED <<reports, main, filter, early, listening>>
    BY DEF DecodeRate, Step, ThreadUnchanged
  <1>2. /\ radio = [f \in Members |-> radio[f]] /\ radio.rate = radio["rate"]
        /\ thread = [at |-> thread.at, packet |-> thread.packet, edges |-> thread.edges,
                     made |-> thread.made]
    BY DEF ReceiverInv, Shapes, Members
  <1>3. /\ thread'.packet = thread.packet
        /\ NewRate => thread'.at = "derive"
        /\ ~NewRate => thread'.at = "rest"
    BY <1>1, <1>2
  <1>4. ReportsTold' /\ RateTold(thread.packet)' /\ NotBegun'
    BY <1>1, <1>3, ReportsKept DEF FitInv, RateTold, NotBegun
  <1>5. CASE ~NewRate
    BY <1>1, <1>3, <1>4, <1>5, FitSame DEF Started, HasFilter
  <1>6. CASE NewRate
    <2>1. DecodedInt(thread.packet["rate"]) = Samprate /\ radio["rate"] # Samprate
      BY <1>2, <1>6, RateIs DEF NewRate, FitInv, RateTold
    <2>2. radio'["rate"] = Samprate /\ radio'["decimate"] = radio["decimate"]
      BY <1>1, <1>2, <1>6, <2>1 DEF Members
    <2>3. RateKnown'
      BY <1>3, <1>6, <2>2 DEF FitInv, RateKnown, Ratio
    <2>4. RateFound'
      BY <1>1, <2>1 DEF FitInv, RateFound, Started, HasFilter, Ratio
    <2> QED
      BY <1>4, <2>3, <2>4 DEF FitInv
  <1> QED
    BY <1>5, <1>6

\* ... and works out what depends on it.
LEMMA DeriveFits ==
  ASSUME ReceiverInv, FitInv, DeriveFromRate
  PROVE  FitInv'
  <1>1. /\ listening /\ thread.at = "derive" /\ thread' = [thread EXCEPT !.at = "rest"]
        /\ radio' = [radio EXCEPT !.decimate = radio.rate \div OutRate]
        /\ UNCHANGED <<reports, main, filter, early, listening>>
    BY DEF DeriveFromRate, Step, ThreadUnchanged
  <1>2. /\ radio = [f \in Members |-> radio[f]] /\ radio.rate = radio["rate"]
        /\ thread = [at |-> thread.at, packet |-> thread.packet, edges |-> thread.edges,
                     made |-> thread.made]
    BY DEF ReceiverInv, Shapes, Members
  <1>3. thread'.packet = thread.packet /\ thread'.at = "rest"
    BY <1>1, <1>2
  <1>4. ReportsTold' /\ RateTold(thread.packet)' /\ NotBegun'
    BY <1>1, <1>3, ReportsKept DEF FitInv, RateTold, NotBegun
  <1>5. radio["rate"] = Samprate
    BY <1>1 DEF FitInv, RateKnown
  <1>6. radio.rate \div OutRate = Ratio
    BY <1>2, <1>5 DEF Ratio
  <1>7. radio' = [radio EXCEPT !["decimate"] = Ratio]
    BY <1>1, <1>6
  <1>8. radio'["rate"] = Samprate /\ radio'["decimate"] = Ratio
    BY <1>2, <1>5, <1>7 DEF Members
  <1>9. RateKnown' /\ RateFound'
    BY <1>1, <1>3, <1>8 DEF FitInv, RateKnown, RateFound, Started, HasFilter, Ratio
  <1> QED
    BY <1>4, <1>9 DEF FitInv

\* A step that is not of radio.
LEMMA FitUndisturbed ==
  ASSUME FitInv, UNCHANGED <<reports, listening, main, radio, filter, thread, early>>
  PROVE  FitInv'
  <1>1. ReportsTold' /\ RateTold(thread.packet)' /\ NotBegun'
    BY ReportsKept DEF FitInv, RateTold, NotBegun
  <1> QED
    BY <1>1, FitSame DEF Started, HasFilter

\* Every step of the programs keeps the rate and the filter in agreement.
LEMMA FitStep ==
  ASSUME ReceiverInv, FitInv, [StartUpNext]_startUpVars
  PROVE  FitInv'
  <1>1. CASE FrontEndStep
    BY <1>1, FrontEndFits
  <1>2. CASE Main \/ WakeForNothing
    BY <1>2, WaitingFits, CheckFits, MainFits, CreateFits DEF Main
  <1>3. CASE StatusThread
    BY <1>3, TakeFits, ThreadFits, DecodeRateFits, DeriveFits DEF StatusThread
  <1>4. CASE GiveCommand \/ StartPacket \/ StartOpus \/ (\E p \in Programs : JoinAudio(p))
    BY <1>4, FitUndisturbed
    DEF GiveCommand, StartPacket, StartOpus, Sockets, JoinAudio, frontVars, receiverVars
  <1>5. CASE UNCHANGED startUpVars
    BY <1>5, FitUndisturbed DEF startUpVars, frontVars, receiverVars
  <1> QED
    BY <1>1, <1>2, <1>3, <1>4, <1>5 DEF StartUpNext

\* What radio knows of the sample rate is what the front end reports, and the filter is
\* made of it, however the programs are started and stopped and whatever is lost.
THEOREM FitInductive == StartUpSpec => []FitInv
  <1>1. StartUpInit => FitInv
    BY FitBegins
  <1>2. ReceiverInv /\ FitInv /\ [StartUpNext]_startUpVars => FitInv'
    BY FitStep
  <1> QED
    BY <1>1, <1>2, ReceiverInductive, PTL DEF StartUpSpec

\* The filter radio makes fits the sample rate of the front end, and radio never divides
\* by a ratio of zero, unless main went on between the rate and the ratio or the front end
\* is slower than the audio.
THEOREM FilterFitsThm == StartUpSpec => []FilterFits
  <1>1. ASSUME ReceiverInv, FitInv
        PROVE  FilterFits
    <2>1. filter # NoFilter => HasFilter
      BY <1>1 DEF ReceiverInv, FilterMade
    <2>2. HasFilter => filter.decimate = Samprate \div OutRate
      BY <1>1 DEF FitInv, RateFound, Ratio
    <2>3. ~early /\ main = "crashed" => Samprate < OutRate
      BY <1>1, RatioZero DEF FitInv, RateFound
    <2> QED
      BY <2>1, <2>2, <2>3 DEF FilterFits
  <1> QED
    BY <1>1, ReceiverInductive, FitInductive, PTL
-----------------------------------------------------------------------------
(* What the server receives of what packet has sent *)

\* A decoder has its registers.
Shaped(d) ==
  d = [last |-> d.last, ones |-> d.ones, flagsync |-> d.flagsync, frame |-> d.frame,
       at |-> d.at, clean |-> d.clean, frames |-> d.frames]

\* The bits of frames there are.
FrameBits == {Bits[f] : f \in Frames}

\* What a decoder has found are frames.
Decoded(d) == Shaped(d) /\ d.frames \in Seq(FrameBits)

\* Between two blocks a decoder has sent what it has found.
DecodersIdle ==
  /\ dec = [s \in Streams |-> dec[s]]
  /\ \A s \in Streams : Shaped(dec[s]) /\ dec[s].frames = <<>>

\* Frames are sent, wait, are relayed and refused.
FramesOnly ==
  /\ IsSequence(out) /\ \A k \in 1..Len(out) : out[k].frame \in Frames
  /\ inbox \in Seq(Frames) /\ wire \in Seq(Frames)
  /\ atServer \in Seq(Frames) /\ given \in Seq(Frames)

\* Frames that were written and are not lost: at the server or in flight.
Handed == atServer \o wire

\* Increasing places in out: those of the frames written, then of those that wait.
InPlace(place) ==
  /\ place \in [1..Len(Handed) + Len(inbox) -> 1..Len(out)]
  /\ \A i, j \in DOMAIN place : i < j => place[i] < place[j]
  /\ \A i \in 1..Len(Handed) :
       Handed[i] = out[place[i]].frame /\ ~FromInternet(Ax[Handed[i]])
  /\ \A i \in 1..Len(inbox) : inbox[i] = out[place[Len(Handed) + i]].frame

\* Without an outage, and as long as the socket cannot be full, every frame is somewhere.
NoneMissing ==
  outages = 0 /\ Len(out) <= SocketSize =>
    Len(Handed) + Len(given) + Len(inbox) = Len(out)

FedInv == DecodersIdle /\ FramesOnly /\ (\E place : InPlace(place)) /\ NoneMissing

\* At a flag a decoder finds nothing, or a frame.
LEMMA AtFlagDecoded ==
  ASSUME NEW d, Decoded(d)
  PROVE  Decoded(AtFlag(d))
  <1> DEFINE found == d.flagsync /\ Len(d.frame) >= 7 /\ CrcGood(Finished(d.frame))
             frames == IF found THEN Append(d.frames, Finished(d.frame)) ELSE d.frames
  <1>1. found => Finished(d.frame) \in FrameBits
    BY DEF CrcGood, FrameBits
  <1>2. d.frames \in Seq(FrameBits)
    BY DEF Decoded
  <1>3. frames \in Seq(FrameBits)
    <2> HIDE DEF found
    <2> QED
      BY <1>1, <1>2, AppendProperties
  <1>4. AtFlag(d) = [d EXCEPT !.frames = frames, !.frame = <<>>, !.flagsync = TRUE]
    BY DEF AtFlag
  <1> HIDE DEF frames, found
  <1> QED
    BY <1>3, <1>4 DEF Decoded, Shaped

\* A bit of a frame, or a bit that is thrown away, finds nothing.
LEMMA InFrameDecoded ==
  ASSUME NEW d, Decoded(d), NEW bit
  PROVE  Decoded(InFrame(d, bit))
  BY DEF InFrame, Decoded, Shaped

\* Nor does an abort, ...
LEMMA AbortDecoded ==
  ASSUME NEW d, Decoded(d)
  PROVE  Decoded([d EXCEPT !.frame = <<>>, !.flagsync = FALSE])
  <1>1. ASSUME NEW c, Decoded(c), NEW frame
        PROVE  Decoded([c EXCEPT !.frame = frame])
    <2>1. PICK e : e = [last |-> c.last, ones |-> c.ones, flagsync |-> c.flagsync,
                        frame |-> frame, at |-> c.at, clean |-> c.clean, frames |-> c.frames]
      OBVIOUS
    <2>2. [c EXCEPT !.frame = frame] = e
      BY <1>1, <2>1 DEF Decoded, Shaped
    <2>3. Shaped(e)
      BY <2>1 DEF Shaped
    <2>4. e.frames \in Seq(FrameBits)
      BY <1>1, <2>1 DEF Decoded
    <2> QED
      BY <2>2, <2>3, <2>4 DEF Decoded
  <1>2. ASSUME NEW c, Decoded(c), NEW flagsync
        PROVE  Decoded([c EXCEPT !.flagsync = flagsync])
    <2>1. PICK e : e = [last |-> c.last, ones |-> c.ones, flagsync |-> flagsync,
                        frame |-> c.frame, at |-> c.at, clean |-> c.clean, frames |-> c.frames]
      OBVIOUS
    <2>2. [c EXCEPT !.flagsync = flagsync] = e
      BY <1>2, <2>1 DEF Decoded, Shaped
    <2>3. Shaped(e)
      BY <2>1 DEF Shaped
    <2>4. e.frames \in Seq(FrameBits)
      BY <1>2, <2>1 DEF Decoded
    <2> QED
      BY <2>2, <2>3, <2>4 DEF Decoded
  <1>3. PICK c : c = [d EXCEPT !.frame = <<>>]
    OBVIOUS
  <1>4. Decoded(c)
    BY <1>1, <1>3
  <1>5. [d EXCEPT !.frame = <<>>, !.flagsync = FALSE] = [c EXCEPT !.flagsync = FALSE]
    BY <1>3
  <1> QED
    BY <1>2, <1>4, <1>5

\* ... or counting.
LEMMA CountedDecoded ==
  ASSUME NEW d, Decoded(d), NEW n
  PROVE  Decoded([d EXCEPT !.ones = n])
  BY DEF Decoded, Shaped

\* What a decoder has found after one more bit are frames.
LEMMA BitDecoded ==
  ASSUME NEW d, Decoded(d), NEW t
  PROVE  Decoded(Bit(d, t))
  <1>1. Decoded(Zero(d))
    <2>1. PICK e : e = IF d.ones = 6 THEN AtFlag(d) ELSE IF d.ones < 5 THEN InFrame(d, 0) ELSE d
      OBVIOUS
    <2>2. Decoded(e)
      BY <2>1, AtFlagDecoded, InFrameDecoded
    <2>3. Zero(d) = [e EXCEPT !.ones = 0]
      BY <2>1 DEF Zero
    <2> QED
      BY <2>2, <2>3, CountedDecoded
  <1>2. Decoded(One(d))
    <2>1. PICK e : e = IF d.ones = 6 THEN [d EXCEPT !.frame = <<>>, !.flagsync = FALSE]
                       ELSE InFrame(d, 1)
      OBVIOUS
    <2>2. Decoded([d EXCEPT !.frame = <<>>, !.flagsync = FALSE])
      BY AbortDecoded
    <2>3. Decoded(e)
      BY <2>1, <2>2, InFrameDecoded
    <2>4. One(d) = [e EXCEPT !.ones = @ + 1]
      BY <2>1 DEF One
    <2>5. One(d) = [e EXCEPT !.ones = e.ones + 1]
      BY <2>4
    <2> QED
      BY <2>3, <2>5, CountedDecoded
  <1>3. PICK e : e = IF d.at > 0 /\ t.tone # d.last THEN Zero(d) ELSE One(d)
    OBVIOUS
  <1>4. Decoded(e)
    BY <1>1, <1>2, <1>3
  <1>5. Bit(d, t) = Heard(e, t)
    BY <1>3 DEF Bit
  <1>6. \E at, last, clean : Heard(e, t) = [e EXCEPT !.at = at, !.last = last, !.clean = clean]
    BY DEF Heard
  <1>7. PICK at, last, clean : Heard(e, t) = [e EXCEPT !.at = at, !.last = last, !.clean = clean]
    BY <1>6
  <1>8. Decoded(Heard(e, t))
    BY <1>4, <1>7 DEF Decoded, Shaped
  <1> QED
    BY <1>5, <1>8

\* The registers after n bits, by their recursive definition.
Registers(s, f, n) ==
  f = [k \in 0..n |-> IF k = 0 THEN dec[s] ELSE Bit(f[k - 1], block[s].tones[k])]

\* There is such a function for each number of bits.
LEMMA RegistersExist ==
  ASSUME NEW s, NEW n \in Nat
  PROVE  \E f : Registers(s, f, n)
  <1> DEFINE S == {m \in Nat : ~ \E f : Registers(s, f, m)}
  <1>1. SUFFICES ASSUME S # {}
                 PROVE  FALSE
    OBVIOUS
  <1>2. S \in SUBSET Nat
    OBVIOUS
  <1>3. PICK m \in S : \A k \in S : m <= k
    BY <1>1, <1>2, LeastNatural
  <1>4. m \in Nat /\ ~ \E f : Registers(s, f, m)
    BY <1>3
  <1>5. m # 0
    <2> DEFINE f == [k \in 0..0 |-> dec[s]]
    <2>1. \A k \in 0..0 : k = 0
      OBVIOUS
    <2>2. f = [k \in 0..0 |-> IF k = 0 THEN dec[s] ELSE Bit(f[k - 1], block[s].tones[k])]
      BY <2>1
    <2>3. Registers(s, f, 0)
      BY <2>2 DEF Registers
    <2> QED
      BY <1>4, <2>3
  <1>6. PICK n1 \in Nat : n1 = m - 1
    BY <1>4, <1>5
  <1>7. n1 \notin S
    BY <1>3, <1>4, <1>6
  <1>8. PICK g : Registers(s, g, n1)
    BY <1>7
  <1> DEFINE f == [k \in 0..m |-> IF k <= n1 THEN g[k]
                                  ELSE Bit(g[n1], block[s].tones[m])]
  <1>9. ASSUME NEW k \in 0..m
        PROVE  f[k] = IF k = 0 THEN dec[s] ELSE Bit(f[k - 1], block[s].tones[k])
    <2>1. \A j \in 0..n1 : f[j] = g[j]
      BY <1>4, <1>6
    <2>2. CASE k = m
      <3>1. f[k] = Bit(g[n1], block[s].tones[m])
        BY <1>4, <1>6, <2>2
      <3>2. f[k - 1] = g[n1]
        BY <1>4, <1>6, <2>1, <2>2
      <3> QED
        BY <1>5, <2>2, <3>1, <3>2
    <2>3. CASE k # m
      <3>1. k \in 0..n1 /\ f[k] = g[k]
        BY <1>4, <1>6, <2>1, <2>3
      <3>2. g[k] = IF k = 0 THEN dec[s] ELSE Bit(g[k - 1], block[s].tones[k])
        BY <1>8, <3>1 DEF Registers
      <3>3. k # 0 => k - 1 \in 0..n1
        BY <3>1
      <3> QED
        BY <2>1, <3>1, <3>2, <3>3
    <2> QED
      BY <2>2, <2>3
  <1>10. f = [k \in 0..m |-> IF k = 0 THEN dec[s] ELSE Bit(f[k - 1], block[s].tones[k])]
    BY <1>9
  <1>11. Registers(s, f, m)
    BY <1>10 DEF Registers
  <1> QED
    BY <1>4, <1>11

\* What a decoder has found in a block are frames.
LEMMA BlockDecoded ==
  ASSUME DecodersIdle, NEW s \in Streams
  PROVE  Decoded(DecodedUpto(s)[BlockBits])
  <1>1. BlockBits \in Nat
    BY PacketAssumption
  <1>2. PICK f : f = DecodedUpto(s)
    OBVIOUS
  <1>3. Registers(s, f, BlockBits)
    BY <1>1, <1>2, RegistersExist DEF DecodedUpto, Registers
  <1>4. Decoded(dec[s])
    <2>1. <<>> \in Seq(FrameBits)
      BY EmptySeq
    <2> QED
      BY <2>1 DEF DecodersIdle, Decoded
  <1>5. \A n \in 0..BlockBits : Decoded(f[n])
    <2> DEFINE S == {n \in 0..BlockBits : ~Decoded(f[n])}
    <2>1. SUFFICES ASSUME S # {}
                   PROVE  FALSE
      OBVIOUS
    <2>2. S \in SUBSET Nat
      OBVIOUS
    <2>3. PICK n \in S : \A k \in S : n <= k
      BY <2>1, <2>2, LeastNatural
    <2>4. n \in 0..BlockBits /\ ~Decoded(f[n])
      BY <2>3
    <2>5. f[n] = IF n = 0 THEN dec[s] ELSE Bit(f[n - 1], block[s].tones[n])
      BY <1>3, <2>4 DEF Registers
    <2>6. n # 0
      BY <1>4, <2>4, <2>5
    <2>7. PICK m \in 0..BlockBits : m = n - 1 /\ m < n
      BY <1>1, <2>4, <2>6
    <2>8. Decoded(f[m])
      BY <2>3, <2>4, <2>7
    <2> QED
      BY <2>4, <2>5, <2>6, <2>7, <2>8, BitDecoded
  <1> QED
    BY <1>1, <1>2, <1>5

\* A block's frames are sent after all that were sent before.
LEMMA DecodeSends ==
  ASSUME DecodersIdle, FramesOnly, NEW s \in Streams, Decode(s)
  PROVE  /\ DecodersIdle'
         /\ \E p \in Nat : /\ Len(out) \in Nat /\ Len(out') = Len(out) + p /\ IsSequence(out')
                           /\ \A k \in 1..Len(out) : out'[k] = out[k]
                           /\ \A k \in 1..p : out'[Len(out) + k].frame \in Frames
  <1>1. PICK d : d = DecodedUpto(s)[BlockBits]
    OBVIOUS
  <1>2. Decoded(d)
    BY <1>1, BlockDecoded
  <1>3. dec' = [dec EXCEPT ![s] = [d EXCEPT !.frames = <<>>]] /\ out' = out \o Packets(s, d.frames)
    BY <1>1 DEF Decode
  <1>4. DecodersIdle'
    <2>1. PICK e : e = [d EXCEPT !.frames = <<>>]
      OBVIOUS
    <2>2. Shaped(e) /\ e.frames = <<>>
      BY <1>2, <2>1 DEF Decoded, Shaped
    <2> QED
      BY <1>3, <2>1, <2>2 DEF DecodersIdle, Shaped
  <1>5. PICK frames \in Seq(FrameBits) : frames = d.frames
    BY <1>2 DEF Decoded
  <1>6. PICK p \in Nat : p = Len(frames)
    BY LenProperties
  <1>7. DOMAIN frames = 1..p /\ \A k \in 1..p : frames[k] \in FrameBits
    BY <1>6, LenProperties, ElementOfSeq
  <1>8. PICK packets : packets = Packets(s, frames)
    OBVIOUS
  <1>9. packets = [k \in 1..p |-> packets[k]]
    BY <1>7, <1>8 DEF Packets
  <1>10. \A k \in 1..p : packets[k].frame \in Frames
    <2>1. ASSUME NEW k \in 1..p
          PROVE  packets[k].frame \in Frames
      <3>1. packets[k].frame = FrameOf(frames[k])
        BY <1>7, <1>8 DEF Packets
      <3>2. \E f \in Frames : Bits[f] = frames[k]
        BY <1>7 DEF FrameBits
      <3> QED
        BY <3>1, <3>2 DEF FrameOf
    <2> QED
      BY <2>1
  <1>11. IsSequence(packets) /\ Len(packets) = p
    BY <1>9, FunctionIsSequence
  <1>12. /\ Len(out) \in Nat /\ Len(out') = Len(out) + p /\ IsSequence(out')
         /\ \A k \in 1..Len(out) : out'[k] = out[k]
         /\ \A k \in 1..p : out'[Len(out) + k] = packets[k]
    <2>1. IsSequence(out) /\ out' = out \o packets
      BY <1>3, <1>5, <1>8 DEF FramesOnly
    <2>2. PICK n : n = Len(out)
      OBVIOUS
    <2>3. PICK all : all = out \o packets
      OBVIOUS
    <2>4. /\ n \in Nat /\ Len(all) = n + p /\ IsSequence(all)
          /\ \A k \in 1..n : all[k] = out[k]
          /\ \A k \in 1..p : all[n + k] = packets[k]
      <3>1. /\ Len(out) \in Nat /\ Len(all) = Len(out) + Len(packets)
            /\ \A k \in 1..Len(out) : all[k] = out[k]
            /\ \A k \in 1..Len(packets) : all[Len(out) + k] = packets[k]
            /\ IsSequence(all)
        <4>1. PICK b : b = out
          OBVIOUS
        <4>2. IsSequence(b) /\ IsSequence(packets) /\ all = b \o packets
          BY <1>11, <2>1, <2>3, <4>1
        <4>3. /\ Len(b) \in Nat /\ Len(all) = Len(b) + Len(packets)
              /\ \A k \in 1..Len(b) : all[k] = b[k]
              /\ \A k \in 1..Len(packets) : all[Len(b) + k] = packets[k]
              /\ IsSequence(all)
          <5>1. Len(b) \in Nat /\ Len(all) = Len(b) + Len(packets)
            BY <4>2, ConcatGrows
          <5>2. \A k \in 1..Len(b) : all[k] = b[k]
            BY <4>2, ConcatGrows
          <5>3. \A k \in 1..Len(packets) : all[Len(b) + k] = packets[k]
            BY <4>2, ConcatGrows
          <5>4. IsSequence(all)
            BY <4>2, ConcatGrows
          <5> QED
            BY <5>1, <5>2, <5>3, <5>4
        <4> QED
          BY <4>1, <4>3
      <3> QED
        BY <1>11, <2>2, <3>1, ZenonT(60)
    <2>5. out' = all
      BY <2>1, <2>3
    <2> QED
      BY <2>2, <2>4, <2>5
  <1>13. \A k \in 1..p : out'[Len(out) + k].frame \in Frames
    BY <1>10, <1>12
  <1> QED
    BY <1>4, <1>12, <1>13

\* What arrives waits behind what was waiting, as far as there is room.
LEMMA ArriveQueues ==
  ASSUME FramesOnly, NEW p \in Nat, Len(out) \in Nat, Len(out') = Len(out) + p,
         \A k \in 1..p : out'[Len(out) + k].frame \in Frames,
         Arrive(SubSeq(out', Len(out) + 1, Len(out')))
  PROVE  /\ inbox' \in Seq(Frames) /\ Len(inbox) \in Nat /\ Len(inbox') \in 0..Len(inbox) + p
         /\ Len(inbox) + p <= SocketSize => Len(inbox') = Len(inbox) + p
         /\ \A i \in 1..Len(inbox') :
              inbox'[i] = IF i <= Len(inbox) THEN inbox[i]
                          ELSE out'[Len(out) + (i - Len(inbox))].frame
  <1>1. PICK n \in Nat : n = Len(out)
    OBVIOUS
  <1>2. PICK packets : packets = SubSeq(out', n + 1, n + p)
    OBVIOUS
  <1>3. Len(packets) = p /\ DOMAIN packets = 1..p /\ \A k \in 1..p : packets[k] = out'[n + k]
    <2> DEFINE S == {out'[i] : i \in n + 1..n + p}
    <2>1. \A i \in n + 1..n + p : out'[i] \in S
      OBVIOUS
    <2> HIDE DEF S
    <2>2. n + 1 \in Int /\ n + p \in Int
      OBVIOUS
    <2>3. /\ packets \in Seq(S)
          /\ Len(packets) = IF n + 1 <= n + p THEN (n + p) - (n + 1) + 1 ELSE 0
          /\ \A i \in 1..(n + p) - (n + 1) + 1 : packets[i] = out'[(n + 1) + i - 1]
      BY <1>2, <2>1, <2>2, SubSeqProperties
    <2>4. Len(packets) = p
      BY <2>3
    <2>5. DOMAIN packets = 1..p
      BY <2>3, <2>4, LenProperties
    <2>6. ASSUME NEW k \in 1..p
          PROVE  packets[k] = out'[n + k]
      <3>1. k \in 1..(n + p) - (n + 1) + 1 /\ (n + 1) + k - 1 = n + k
        OBVIOUS
      <3> QED
        BY <2>3, <3>1
    <2> QED
      BY <2>4, <2>5, <2>6
  <1>4. PICK new : new = [k \in DOMAIN packets |-> packets[k].frame]
    OBVIOUS
  <1>5. new \in Seq(Frames) /\ Len(new) = p /\ \A k \in 1..p : new[k] = out'[n + k].frame
    <2>1. new = [k \in 1..p |-> new[k]] /\ \A k \in 1..p : new[k] = out'[n + k].frame
      BY <1>3, <1>4
    <2>2. new \in [1..p -> Frames]
      BY <1>1, <2>1
    <2>3. new \in Seq(Frames)
      BY <2>2, SeqDef
    <2>4. Len(new) = p
      BY <2>1, FunctionIsSequence
    <2> QED
      BY <2>1, <2>3, <2>4
  <1>6. PICK m \in Nat : m = Len(inbox)
    BY LenProperties DEF FramesOnly
  <1>7. PICK all : all = inbox \o new
    OBVIOUS
  <1>8. /\ all \in Seq(Frames) /\ Len(all) = m + p
        /\ \A i \in 1..m + p : all[i] = IF i <= m THEN inbox[i] ELSE new[i - m]
    BY <1>5, <1>6, <1>7, ConcatProperties DEF FramesOnly
  <1>9. PICK room \in Nat : room = IF m + p < SocketSize THEN m + p ELSE SocketSize
    BY FeedAssumption
  <1>10. inbox' = SubSeq(all, 1, room)
    BY <1>1, <1>2, <1>3, <1>4, <1>6, <1>7, <1>9 DEF Arrive
  <1>11. room <= m + p /\ (m + p <= SocketSize => room = m + p)
    BY <1>9, FeedAssumption
  <1>12. /\ inbox' \in Seq(Frames) /\ Len(inbox') = room
         /\ \A i \in 1..room : inbox'[i] = all[i]
    <2>1. \A i \in 1..room : all[i] \in Frames
      BY <1>8, <1>11, ElementOfSeq
    <2>2. /\ inbox' \in Seq(Frames) /\ Len(inbox') = IF 1 <= room THEN room - 1 + 1 ELSE 0
          /\ \A i \in 1..room - 1 + 1 : inbox'[i] = all[1 + i - 1]
      BY <1>10, <2>1, SubSeqProperties
    <2>3. Len(inbox') = room
      BY <2>2
    <2>4. ASSUME NEW i \in 1..room
          PROVE  inbox'[i] = all[i]
      <3>1. i \in 1..room - 1 + 1 /\ 1 + i - 1 = i
        OBVIOUS
      <3> QED
        BY <2>2, <3>1
    <2> QED
      BY <2>2, <2>3, <2>4
  <1>13. ASSUME NEW i \in 1..room
         PROVE  inbox'[i] = IF i <= m THEN inbox[i] ELSE out'[n + (i - m)].frame
    <2>1. i \in 1..m + p
      BY <1>11
    <2>2. i > m => i - m \in 1..p
      BY <2>1
    <2> QED
      BY <1>5, <1>8, <1>12, <2>1, <2>2
  <1>14. \A i \in 1..Len(inbox') :
           inbox'[i] = IF i <= Len(inbox) THEN inbox[i]
                       ELSE out'[Len(out) + (i - Len(inbox))].frame
    <2>1. SUFFICES ASSUME NEW i \in 1..Len(inbox')
                   PROVE  inbox'[i] = IF i <= Len(inbox) THEN inbox[i]
                                      ELSE out'[Len(out) + (i - Len(inbox))].frame
      OBVIOUS
    <2>2. i \in 1..room
      BY <1>12
    <2> QED
      BY <1>1, <1>6, <1>13, <2>2, ZenonT(60)
  <1>15. room \in 0..m + p
    BY <1>11
  <1> QED
    BY <1>6, <1>11, <1>12, <1>14, <1>15

\* What was written are the frames at the server and then those in flight.
LEMMA HandedIs ==
  ASSUME FramesOnly
  PROVE  /\ Handed \in Seq(Frames)
         /\ Len(atServer) \in Nat /\ Len(wire) \in Nat
         /\ Len(Handed) = Len(atServer) + Len(wire)
         /\ \A i \in 1..Len(atServer) : Handed[i] = atServer[i]
         /\ \A i \in 1..Len(wire) : Handed[Len(atServer) + i] = wire[i]
  <1>1. atServer \in Seq(Frames) /\ wire \in Seq(Frames)
    BY DEF FramesOnly
  <1>2. Len(atServer) \in Nat /\ Len(wire) \in Nat
    BY <1>1, LenProperties
  <1>3. /\ Handed \in Seq(Frames) /\ Len(Handed) = Len(atServer) + Len(wire)
        /\ \A i \in 1..Len(atServer) + Len(wire) :
             Handed[i] = IF i <= Len(atServer) THEN atServer[i] ELSE wire[i - Len(atServer)]
    BY <1>1, ConcatProperties DEF Handed
  <1>4. \A i \in 1..Len(atServer) : Handed[i] = atServer[i]
    BY <1>2, <1>3
  <1>5. \A i \in 1..Len(wire) : Handed[Len(atServer) + i] = wire[i]
    BY <1>2, <1>3
  <1> QED
    BY <1>2, <1>3, <1>4, <1>5

\* A line written is behind all that were written before.
LEMMA HandedGrows ==
  ASSUME FramesOnly, NEW f \in Frames, wire' = Append(wire, f), UNCHANGED atServer
  PROVE  Handed' = Append(Handed, f) /\ wire' \in Seq(Frames)
  <1>1. atServer \in Seq(Frames) /\ wire \in Seq(Frames)
    BY DEF FramesOnly
  <1>2. Handed' = atServer \o Append(wire, f)
    BY DEF Handed
  <1>3. atServer \o Append(wire, f) = Append(atServer \o wire, f)
    BY <1>1
  <1>4. wire' \in Seq(Frames)
    BY <1>1, AppendProperties
  <1> QED
    BY <1>2, <1>3, <1>4 DEF Handed

\* What the server receives has been written.
LEMMA HandedStays ==
  ASSUME FramesOnly, wire # <<>>,
         atServer' = Append(atServer, Head(wire)), wire' = Tail(wire)
  PROVE  /\ Handed' = Handed
         /\ wire' \in Seq(Frames) /\ atServer' \in Seq(Frames)
  <1>1. atServer \in Seq(Frames) /\ wire \in Seq(Frames)
    BY DEF FramesOnly
  <1>2. Head(wire) \in Frames /\ Tail(wire) \in Seq(Frames)
    BY <1>1, HeadTailProperties
  <1>3. Handed' = Append(atServer, Head(wire)) \o Tail(wire)
    BY DEF Handed
  <1>4. Append(atServer, Head(wire)) \o Tail(wire) = atServer \o wire
    BY <1>1, <1>2
  <1>5. atServer' \in Seq(Frames)
    BY <1>1, <1>2, AppendProperties
  <1> QED
    BY <1>2, <1>3, <1>4, <1>5 DEF Handed

\* The places of what was sent, of what waits, and of the frames behind it.
LEMMA PlacesGrow ==
  ASSUME FramesOnly, NEW place, InPlace(place), NEW p \in Nat,
         Len(out) \in Nat, Len(out') = Len(out) + p, \A k \in 1..Len(out) : out'[k] = out[k],
         Len(inbox) \in Nat, Len(inbox') \in 0..Len(inbox) + p, UNCHANGED Handed,
         \A i \in 1..Len(inbox') :
           inbox'[i] = IF i <= Len(inbox) THEN inbox[i]
                       ELSE out'[Len(out) + (i - Len(inbox))].frame
  PROVE  \E q : InPlace(q)'
  <1>1. PICK n \in Nat : n = Len(out)
    OBVIOUS
  <1>2. PICK m \in Nat : m = Len(inbox)
    OBVIOUS
  <1>3. PICK room \in 0..m + p : room = Len(inbox')
    BY <1>2
  <1>4. PICK a \in Nat : a = Len(Handed)
    BY HandedIs, LenProperties
  <1>5. /\ place \in [1..a + m -> 1..n]
        /\ \A i, j \in 1..a + m : i < j => place[i] < place[j]
        /\ \A i \in 1..a : Handed[i] = out[place[i]].frame /\ ~FromInternet(Ax[Handed[i]])
        /\ \A i \in 1..m : inbox[i] = out[place[a + i]].frame
    BY <1>1, <1>2, <1>4 DEF InPlace
  <1> DEFINE q == [i \in 1..a + room |-> IF i <= a + m THEN place[i] ELSE n + (i - (a + m))]
  <1>6. ASSUME NEW i \in 1..a + room, i <= a + m
        PROVE  i \in 1..a + m /\ q[i] = place[i] /\ place[i] \in 1..n
    <2>1. i \in 1..a + m
      BY <1>6
    <2>2. q[i] = place[i]
      BY <1>6
    <2> QED
      BY <1>5, <2>1, <2>2
  <1>7. ASSUME NEW i \in 1..a + room, i > a + m
        PROVE  q[i] = n + (i - (a + m)) /\ i - (a + m) \in 1..p
    <2>1. ~(i <= a + m)
      BY <1>7
    <2>2. q[i] = n + (i - (a + m))
      BY <2>1, ZenonT(60)
    <2>3. i - (a + m) \in 1..p
      BY <1>7
    <2> QED
      BY <2>2, <2>3
  <1>8. DOMAIN q = 1..a + room /\ q = [i \in 1..a + room |-> q[i]]
    OBVIOUS
  <1> HIDE DEF q
  <1>9. ASSUME NEW i \in 1..a + room
        PROVE  q[i] \in 1..n + p
    <2>1. CASE i <= a + m
      <3>1. q[i] = place[i] /\ place[i] \in 1..n
        BY <1>6, <2>1, ZenonT(60)
      <3>2. 1..n \subseteq 1..n + p
        OBVIOUS
      <3>3. place[i] \in 1..n + p
        BY <3>1, <3>2, ZenonT(60)
      <3> QED
        BY <3>1, <3>3, ZenonT(60)
    <2>2. CASE i > a + m
      <3>1. PICK k \in 1..p : k = i - (a + m) /\ q[i] = n + k
        BY <1>7, <2>2, ZenonT(60)
      <3> QED
        BY <3>1
    <2>3. i <= a + m \/ i > a + m
      OBVIOUS
    <2> QED
      BY <2>1, <2>2, <2>3, ZenonT(60)
  <1>10. q \in [1..a + room -> 1..n + p]
    BY <1>8, <1>9
  <1>11. ASSUME NEW i \in 1..a + room, NEW j \in 1..a + room, i < j
         PROVE  q[i] < q[j]
    <2>1. CASE j <= a + m
      <3>1. i <= a + m
        BY <1>11, <2>1
      <3>2. /\ i \in 1..a + m /\ q[i] = place[i]
            /\ j \in 1..a + m /\ q[j] = place[j]
        BY <1>6, <2>1, <3>1, ZenonT(60)
      <3>3. place[i] < place[j]
        BY <1>5, <1>11, <3>2, ZenonT(60)
      <3> QED
        BY <3>2, <3>3, ZenonT(60)
    <2>2. CASE j > a + m /\ i <= a + m
      <3>1. PICK x \in 1..n : x = q[i]
        BY <1>6, <2>2
      <3>2. PICK k \in 1..p : q[j] = n + k
        BY <1>7, <2>2
      <3>3. x < n + k
        OBVIOUS
      <3> QED
        BY <3>1, <3>2, <3>3, ZenonT(60)
    <2>3. CASE i > a + m
      <3>1. j > a + m
        BY <1>11, <2>3
      <3>2. q[i] = n + (i - (a + m)) /\ q[j] = n + (j - (a + m))
        BY <1>7, <2>3, <3>1, ZenonT(60)
      <3>3. n + (i - (a + m)) < n + (j - (a + m))
        BY <1>11
      <3> QED
        BY <3>2, <3>3, ZenonT(60)
    <2>4. j <= a + m \/ (j > a + m /\ i <= a + m) \/ i > a + m
      OBVIOUS
    <2> QED
      BY <2>1, <2>2, <2>3, <2>4, ZenonT(60)
  <1>12. ASSUME NEW i \in 1..a
         PROVE  Handed[i] = out'[q[i]].frame
    <2>1. i \in 1..a + room /\ i <= a + m
      OBVIOUS
    <2>2. q[i] = place[i] /\ place[i] \in 1..n
      BY <1>6, <2>1, ZenonT(60)
    <2>3. out'[place[i]] = out[place[i]]
      BY <1>1, <2>2, ZenonT(60)
    <2>4. Handed[i] = out[place[i]].frame
      BY <1>5
    <2> QED
      BY <2>2, <2>3, <2>4, ZenonT(60)
  <1>13. ASSUME NEW i \in 1..room
         PROVE  inbox'[i] = out'[q[a + i]].frame
    <2>1. a + i \in 1..a + room
      OBVIOUS
    <2>2. CASE i <= m
      <3>1. inbox'[i] = inbox[i]
        BY <1>2, <1>3, <2>2
      <3>2. a + i <= a + m /\ i \in 1..m
        BY <2>2
      <3>3. q[a + i] = place[a + i] /\ place[a + i] \in 1..n
        BY <1>6, <2>1, <3>2, ZenonT(60)
      <3>4. out'[place[a + i]] = out[place[a + i]]
        BY <1>1, <3>3, ZenonT(60)
      <3>5. inbox[i] = out[place[a + i]].frame
        BY <1>5, <3>2, ZenonT(60)
      <3> QED
        BY <3>1, <3>3, <3>4, <3>5, ZenonT(60)
    <2>3. CASE i > m
      <3>1. ~(i <= m)
        BY <2>3
      <3>2. inbox'[i] = out'[n + (i - m)].frame
        BY <1>1, <1>2, <1>3, <3>1, ZenonT(60)
      <3>3. a + i > a + m /\ (a + i) - (a + m) = i - m
        BY <2>3
      <3>4. q[a + i] = n + ((a + i) - (a + m))
        BY <1>7, <2>1, <3>3, ZenonT(60)
      <3> QED
        BY <3>2, <3>3, <3>4, ZenonT(60)
    <2>4. i <= m \/ i > m
      OBVIOUS
    <2> QED
      BY <2>2, <2>3, <2>4, ZenonT(60)
  <1>14. InPlace(q)'
    BY <1>1, <1>3, <1>4, <1>5, <1>8, <1>10, <1>11, <1>12, <1>13
    DEF InPlace, FromInternet
  <1> QED
    BY <1>14

\* The places without that of the first frame that waits.
LEMMA PlacesDrop ==
  ASSUME FramesOnly, NEW place, InPlace(place), inbox # <<>>, inbox' = Tail(inbox),
         UNCHANGED <<out, Handed>>
  PROVE  \E q : InPlace(q)'
  <1>1. PICK n : n = Len(out)
    OBVIOUS
  <1>2. PICK m \in Nat \ {0} : m = Len(inbox)
    BY EmptySeq DEF FramesOnly
  <1>3. PICK a \in Nat : a = Len(Handed)
    BY HandedIs, LenProperties
  <1>4. Len(inbox') = m - 1 /\ \A i \in 1..m - 1 : inbox'[i] = inbox[i + 1]
    BY <1>2, HeadTailProperties DEF FramesOnly
  <1>5. /\ place \in [1..a + m -> 1..n]
        /\ \A i, j \in 1..a + m : i < j => place[i] < place[j]
        /\ \A i \in 1..a : Handed[i] = out[place[i]].frame /\ ~FromInternet(Ax[Handed[i]])
        /\ \A i \in 1..m : inbox[i] = out[place[a + i]].frame
    BY <1>1, <1>2, <1>3 DEF InPlace
  <1> DEFINE q == [i \in 1..a + (m - 1) |-> IF i <= a THEN place[i] ELSE place[i + 1]]
  <1>6. \A i \in 1..a + (m - 1) : /\ i <= a => q[i] = place[i]
                                  /\ i > a => q[i] = place[i + 1]
    OBVIOUS
  <1>7. q \in [1..a + (m - 1) -> 1..n] /\ DOMAIN q = 1..a + (m - 1)
    BY <1>5
  <1> HIDE DEF q
  <1>8. ASSUME NEW i \in 1..a + (m - 1), NEW j \in 1..a + (m - 1), i < j
        PROVE  q[i] < q[j]
    <2>1. i \in 1..a + m /\ j \in 1..a + m /\ i + 1 \in 1..a + m /\ j + 1 \in 1..a + m
      OBVIOUS
    <2>2. CASE j <= a
      BY <1>5, <1>6, <1>8, <2>1, <2>2
    <2>3. CASE j > a /\ i <= a
      BY <1>5, <1>6, <1>8, <2>1, <2>3
    <2>4. CASE i > a
      BY <1>5, <1>6, <1>8, <2>1, <2>4
    <2> QED
      BY <2>2, <2>3, <2>4
  <1>9. ASSUME NEW i \in 1..a
        PROVE  Handed[i] = out[q[i]].frame
    BY <1>5, <1>6
  <1>10. ASSUME NEW i \in 1..m - 1
         PROVE  inbox'[i] = out[q[a + i]].frame
    <2>1. a + i \in 1..a + (m - 1) /\ a + i > a /\ (a + i) + 1 = a + (i + 1) /\ i + 1 \in 1..m
      OBVIOUS
    <2>2. q[a + i] = place[a + (i + 1)]
      BY <1>6, <2>1
    <2>3. inbox'[i] = inbox[i + 1]
      BY <1>4
    <2> QED
      BY <1>5, <2>1, <2>2, <2>3
  <1>11. InPlace(q)'
    BY <1>1, <1>3, <1>4, <1>5, <1>7, <1>8, <1>9, <1>10 DEF InPlace, FromInternet
  <1> QED
    BY <1>11

\* The first frame that waits is written: its place is the next.
LEMMA PlacesPass ==
  ASSUME FramesOnly, NEW place, InPlace(place), inbox # <<>>, inbox' = Tail(inbox),
         Handed' = Append(Handed, Head(inbox)), ~FromInternet(Ax[Head(inbox)]),
         UNCHANGED out
  PROVE  InPlace(place)'
  <1>1. PICK n : n = Len(out)
    OBVIOUS
  <1>2. PICK m \in Nat \ {0} : m = Len(inbox)
    BY EmptySeq DEF FramesOnly
  <1>3. PICK a \in Nat : a = Len(Handed)
    BY HandedIs, LenProperties
  <1>4. PICK f \in Frames : f = Head(inbox)
    BY HeadTailProperties DEF FramesOnly
  <1>5. /\ Len(inbox') = m - 1 /\ \A i \in 1..m - 1 : inbox'[i] = inbox[i + 1]
        /\ f = inbox[1]
    BY <1>2, <1>4, HeadTailProperties DEF FramesOnly
  <1>6. /\ Len(Handed') = a + 1 /\ Handed'[a + 1] = f
        /\ \A i \in 1..a : Handed'[i] = Handed[i]
    BY <1>3, <1>4, HandedIs, AppendProperties
  <1>7. /\ place \in [1..a + m -> 1..n] /\ DOMAIN place = 1..a + m
        /\ \A i, j \in DOMAIN place : i < j => place[i] < place[j]
        /\ \A i \in 1..a : Handed[i] = out[place[i]].frame /\ ~FromInternet(Ax[Handed[i]])
        /\ \A i \in 1..m : inbox[i] = out[place[a + i]].frame
    BY <1>1, <1>2, <1>3 DEF InPlace
  <1>8. place \in [1..(a + 1) + (m - 1) -> 1..n]
    <2>1. (a + 1) + (m - 1) = a + m
      OBVIOUS
    <2> QED
      BY <1>7, <2>1
  <1>9. ASSUME NEW i \in 1..a + 1
        PROVE  Handed'[i] = out[place[i]].frame /\ ~FromInternet(Ax[Handed'[i]])
    <2>1. CASE i <= a
      <3>1. i \in 1..a
        BY <2>1
      <3>2. Handed'[i] = Handed[i]
        BY <1>6, <3>1
      <3>3. Handed[i] = out[place[i]].frame /\ ~FromInternet(Ax[Handed[i]])
        BY <1>7, <3>1
      <3> QED
        BY <3>2, <3>3, ZenonT(60)
    <2>2. CASE i = a + 1
      <3>1. Handed'[i] = f /\ inbox[1] = out[place[i]].frame /\ ~FromInternet(Ax[f])
        BY <1>4, <1>6, <1>7, <2>2
      <3>2. Handed'[i] = out[place[i]].frame
        BY <1>5, <3>1
      <3>3. ~FromInternet(Ax[Handed'[i]])
        BY <1>4, <3>1, ZenonT(60)
      <3> QED
        BY <3>2, <3>3, ZenonT(60)
    <2>3. i <= a \/ i = a + 1
      OBVIOUS
    <2> QED
      BY <2>1, <2>2, <2>3, ZenonT(60)
  <1>10. ASSUME NEW i \in 1..m - 1
         PROVE  inbox'[i] = out[place[(a + 1) + i]].frame
    <2>1. (a + 1) + i = a + (i + 1) /\ i + 1 \in 1..m
      OBVIOUS
    <2>2. inbox'[i] = inbox[i + 1]
      BY <1>5
    <2>3. inbox[i + 1] = out[place[a + (i + 1)]].frame
      BY <1>7, <2>1, ZenonT(60)
    <2> QED
      BY <2>1, <2>2, <2>3, ZenonT(60)
  <1>11. place \in [1..Len(Handed') + Len(inbox') -> 1..Len(out')]
    BY <1>1, <1>5, <1>6, <1>8
  <1>12. \A i \in 1..Len(Handed') :
           Handed'[i] = out'[place[i]].frame /\ ~FromInternet(Ax[Handed'[i]])
    BY <1>6, <1>9
  <1>13. \A i \in 1..Len(inbox') : inbox'[i] = out'[place[Len(Handed') + i]].frame
    BY <1>5, <1>6, <1>10
  <1> QED
    BY <1>7, <1>11, <1>12, <1>13 DEF InPlace, FromInternet

\* The places without those of the frames in flight.
LEMMA PlacesBreak ==
  ASSUME FramesOnly, NEW place, InPlace(place), wire' = <<>>,
         UNCHANGED <<out, inbox, atServer>>
  PROVE  \E q : InPlace(q)'
  <1>1. PICK n : n = Len(out)
    OBVIOUS
  <1>2. PICK m \in Nat : m = Len(inbox)
    BY LenProperties DEF FramesOnly
  <1>3. PICK a \in Nat : a = Len(atServer)
    BY HandedIs
  <1>4. PICK w \in Nat : w = Len(wire)
    BY HandedIs
  <1>5. Len(Handed) = a + w /\ \A i \in 1..a : Handed[i] = atServer[i]
    BY <1>3, <1>4, HandedIs
  <1>6. Handed' = atServer
    <2>1. Handed' = atServer \o <<>> /\ atServer \in Seq(Frames)
      BY DEF Handed, FramesOnly
    <2> QED
      BY <2>1
  <1>7. /\ place \in [1..(a + w) + m -> 1..n]
        /\ \A i, j \in 1..(a + w) + m : i < j => place[i] < place[j]
        /\ \A i \in 1..a + w : Handed[i] = out[place[i]].frame /\ ~FromInternet(Ax[Handed[i]])
        /\ \A i \in 1..m : inbox[i] = out[place[(a + w) + i]].frame
    BY <1>1, <1>2, <1>5 DEF InPlace
  <1> DEFINE q == [i \in 1..a + m |-> IF i <= a THEN place[i] ELSE place[i + w]]
  <1>8. \A i \in 1..a + m : /\ i <= a => q[i] = place[i]
                            /\ i > a => q[i] = place[i + w]
    OBVIOUS
  <1>9. q \in [1..a + m -> 1..n] /\ DOMAIN q = 1..a + m
    BY <1>7
  <1> HIDE DEF q
  <1>10. ASSUME NEW i \in 1..a + m, NEW j \in 1..a + m, i < j
         PROVE  q[i] < q[j]
    <2>1. /\ i \in 1..(a + w) + m /\ j \in 1..(a + w) + m
          /\ i + w \in 1..(a + w) + m /\ j + w \in 1..(a + w) + m
          /\ i < j + w /\ i + w < j + w
      BY <1>10
    <2>2. CASE j <= a
      <3>1. q[i] = place[i] /\ q[j] = place[j]
        BY <1>8, <1>10, <2>2
      <3> QED
        BY <1>7, <1>10, <2>1, <3>1
    <2>3. CASE j > a /\ i <= a
      <3>1. q[i] = place[i] /\ q[j] = place[j + w]
        BY <1>8, <2>3
      <3> QED
        BY <1>7, <2>1, <3>1
    <2>4. CASE i > a
      <3>1. q[i] = place[i + w] /\ q[j] = place[j + w]
        BY <1>8, <1>10, <2>4
      <3> QED
        BY <1>7, <2>1, <3>1
    <2> QED
      BY <2>2, <2>3, <2>4
  <1>11. ASSUME NEW i \in 1..a
         PROVE  atServer[i] = out[q[i]].frame /\ ~FromInternet(Ax[atServer[i]])
    <2>1. i \in 1..a + m /\ i <= a /\ i \in 1..a + w
      OBVIOUS
    <2>2. q[i] = place[i]
      BY <1>8, <2>1
    <2>3. Handed[i] = out[place[i]].frame /\ ~FromInternet(Ax[Handed[i]])
      BY <1>7, <2>1
    <2>4. Handed[i] = atServer[i]
      BY <1>5
    <2> QED
      BY <2>2, <2>3, <2>4, ZenonT(60)
  <1>12. ASSUME NEW i \in 1..m
         PROVE  inbox[i] = out[q[a + i]].frame
    <2>1. a + i \in 1..a + m /\ a + i > a /\ (a + i) + w = (a + w) + i
      OBVIOUS
    <2>2. q[a + i] = place[(a + w) + i]
      BY <1>8, <2>1
    <2> QED
      BY <1>7, <2>2
  <1>13. InPlace(q)'
    BY <1>1, <1>2, <1>3, <1>6, <1>9, <1>10, <1>11, <1>12 DEF InPlace, FromInternet
  <1> QED
    BY <1>13

\* A frame that is relayed has not come from the Internet.
LEMMA RelayedPasses ==
  ASSUME NEW f \in Frames, Relayed(Ax[f])
  PROVE  ~FromInternet(Ax[f])
  <1>1. PICK a : a = Ax[f]
    OBVIOUS
  <1>2. PICK n \in Nat : n = Len(a.addresses)
    BY <1>1, FeedAssumption
  <1>3. DOMAIN a.addresses = 1..n
    BY <1>1, <1>2, FeedAssumption
  <1>4. PICK marked : marked = {i \in DOMAIN a.addresses : a.addresses[i].last}
    OBVIOUS
  <1>5. EndOfAddresses(a) > 0 /\ "TCPIP" \notin Digipeaters(a)
    BY <1>1 DEF Relayed, Parsable
  <1>6. EndOfAddresses(a) =
          IF marked = {} THEN 0 ELSE CHOOSE i \in marked : \A j \in marked : i <= j
    BY <1>4 DEF EndOfAddresses
  <1>7. marked # {} /\ marked \in SUBSET Nat
    BY <1>3, <1>4, <1>5, <1>6
  <1>8. \E i \in marked : \A j \in marked : i <= j
    BY <1>7, LeastNatural
  <1>9. PICK end : end = EndOfAddresses(a)
    OBVIOUS
  <1>10. end \in marked
    BY <1>6, <1>7, <1>8, <1>9
  <1>11. SUFFICES ASSUME FromInternet(a)
                  PROVE  FALSE
    BY <1>1
  <1>12. PICK i \in 1..n : /\ i > 2 /\ a.addresses[i].name = "TCPIP"
                           /\ \A j \in 1..n : a.addresses[j].last => j >= i
    BY <1>3, <1>11 DEF FromInternet
  <1>13. end \in 1..n /\ a.addresses[end].last
    BY <1>3, <1>4, <1>10
  <1>14. end >= i
    BY <1>12, <1>13
  <1>15. i \in 3..end
    BY <1>12, <1>13, <1>14
  <1> QED
    BY <1>5, <1>9, <1>12, <1>15 DEF Digipeaters

\* A step that moves no frame.
LEMMA FedSame ==
  ASSUME FedInv, UNCHANGED <<dec, out, inbox, wire, atServer, given>>, outages' = 0 => outages = 0
  PROVE  FedInv'
  <1>0. Handed' = Handed
    BY DEF Handed
  <1>1. DecodersIdle' /\ FramesOnly' /\ NoneMissing'
    BY <1>0 DEF FedInv, DecodersIdle, Shaped, FramesOnly, IsSequence, NoneMissing
  <1>2. PICK place : InPlace(place)
    BY DEF FedInv
  <1>3. InPlace(place)'
    BY <1>0, <1>2 DEF InPlace, FromInternet
  <1> QED
    BY <1>1, <1>3 DEF FedInv

\* A block's frames are sent and wait, or are lost for want of room.
LEMMA DecodeFed ==
  ASSUME FedInv, NEW s \in Streams, Decode(s), Arrive(SubSeq(out', Len(out) + 1, Len(out'))),
         UNCHANGED <<outages, wire, atServer, given>>
  PROVE  FedInv'
  <1>0. Handed' = Handed
    BY DEF Handed
  <1>1. DecodersIdle /\ FramesOnly /\ NoneMissing
    BY DEF FedInv
  <1>2. DecodersIdle'
    BY <1>1, DecodeSends
  <1>3. PICK p \in Nat : /\ Len(out) \in Nat /\ Len(out') = Len(out) + p /\ IsSequence(out')
                         /\ \A k \in 1..Len(out) : out'[k] = out[k]
                         /\ \A k \in 1..p : out'[Len(out) + k].frame \in Frames
    BY <1>1, DecodeSends
  <1>4. inbox' \in Seq(Frames) /\ Len(inbox) \in Nat /\ Len(inbox') \in 0..Len(inbox) + p
    BY <1>1, <1>3, ArriveQueues
  <1>5. Len(inbox) + p <= SocketSize => Len(inbox') = Len(inbox) + p
    BY <1>1, <1>3, ArriveQueues
  <1>6. \A i \in 1..Len(inbox') :
          inbox'[i] = IF i <= Len(inbox) THEN inbox[i]
                      ELSE out'[Len(out) + (i - Len(inbox))].frame
    BY <1>1, <1>3, ArriveQueues
  <1>7. FramesOnly'
    <2>1. ASSUME NEW k \in 1..Len(out')
          PROVE  out'[k].frame \in Frames
      <3>1. CASE k <= Len(out)
        <4>1. k \in 1..Len(out)
          BY <1>3, <3>1
        <4>2. out'[k] = out[k]
          BY <1>3, <4>1
        <4>3. out[k].frame \in Frames
          BY <1>1, <4>1 DEF FramesOnly
        <4> QED
          BY <4>2, <4>3, ZenonT(60)
      <3>2. CASE k > Len(out)
        <4>1. PICK j \in 1..p : k = Len(out) + j
          BY <1>3, <3>2
        <4> QED
          BY <1>3, <4>1
      <3>3. k <= Len(out) \/ k > Len(out)
        BY <1>3
      <3> QED
        BY <3>1, <3>2, <3>3
    <2>2. wire' \in Seq(Frames) /\ atServer' \in Seq(Frames) /\ given' \in Seq(Frames)
      BY <1>1 DEF FramesOnly
    <2> QED
      BY <1>3, <1>4, <2>1, <2>2 DEF FramesOnly
  <1>8. \E q : InPlace(q)'
    <2>1. PICK place : InPlace(place)
      BY DEF FedInv
    <2> QED
      BY <1>0, <1>1, <1>3, <1>4, <1>6, <2>1, PlacesGrow
  <1>9. NoneMissing'
    <2>1. PICK a \in Nat : a = Len(Handed)
      BY <1>1, HandedIs, LenProperties
    <2>2. PICK g \in Nat : g = Len(given)
      BY <1>1, LenProperties DEF FramesOnly
    <2>3. PICK m \in Nat : m = Len(inbox)
      BY <1>4
    <2>4. PICK n \in Nat : n = Len(out)
      BY <1>3
    <2>5. SUFFICES ASSUME outages' = 0, Len(out') <= SocketSize
                   PROVE  a + g + Len(inbox') = Len(out')
      BY <1>0, <2>1, <2>2 DEF NoneMissing
    <2>6. SocketSize \in Nat
      BY FeedAssumption
    <2>7. n + p <= SocketSize /\ n <= SocketSize
      BY <1>3, <2>4, <2>5, <2>6
    <2>8. a + g + m = n
      BY <1>1, <2>1, <2>2, <2>3, <2>4, <2>5, <2>7 DEF NoneMissing
    <2>9. Len(inbox') = m + p
      BY <1>5, <2>3, <2>6, <2>7, <2>8
    <2> QED
      BY <1>3, <2>4, <2>8, <2>9
  <1> QED
    BY <1>2, <1>7, <1>8, <1>9 DEF FedInv

\* A connection breaks only with an outage.
LEMMA LossesNeedOutages ==
  ASSUME FeedInv, peer \in {"gone", "reset"}
  PROVE  outages # 0
  <1>1. Len(failed) \in Nat /\ outages \in Nat /\ Len(failed) + AtRisk <= Paid
    BY AppendGrows DEF FeedInv, LossesPaid
  <1>2. Paid \in Nat /\ SendBuffer \in Nat
    BY <1>1, OutagePays
  <1>3. AtRisk \in Nat \ {0}
    BY <1>2 DEF AtRisk
  <1>4. outages = 0 => Paid = 0
    BY <1>2 DEF Paid
  <1> QED
    BY <1>1, <1>2, <1>3, <1>4

\* The first frame that waits is refused, written or lost.
LEMMA RelayFed ==
  ASSUME FeedInv, FedInv, Relay
  PROVE  FedInv'
  <1>1. /\ DecodersIdle /\ FramesOnly /\ NoneMissing
        /\ inbox # <<>> /\ inbox' = Tail(inbox) /\ UNCHANGED <<dec, out, outages, atServer>>
    BY DEF FedInv, Relay, packetVars, decodeVars
  <1>2. DecodersIdle'
    BY <1>1 DEF DecodersIdle, Shaped
  <1>3. PICK f \in Frames : f = Head(inbox)
    BY <1>1, HeadTailProperties DEF FramesOnly
  <1>4. PICK a \in Nat : a = Len(Handed)
    BY <1>1, HandedIs, LenProperties
  <1>5. PICK g \in Nat : g = Len(given)
    BY <1>1, LenProperties DEF FramesOnly
  <1>6. PICK m \in Nat \ {0} : m = Len(inbox)
    BY <1>1, EmptySeq DEF FramesOnly
  <1>7. inbox' \in Seq(Frames) /\ Len(inbox') = m - 1
    BY <1>1, <1>6, HeadTailProperties DEF FramesOnly
  <1>8. /\ IsSequence(out)' /\ (\A k \in 1..Len(out) : out[k].frame \in Frames)'
        /\ atServer' \in Seq(Frames)
    BY <1>1 DEF FramesOnly, IsSequence
  <1>9. PICK place : InPlace(place)
    BY DEF FedInv
  <1>10. CASE ~Relayed(Ax[f])
    <2>1. given' = Append(given, f) /\ UNCHANGED wire
      BY <1>3, <1>10 DEF Relay
    <2>2. given' \in Seq(Frames) /\ Len(given') = g + 1
      BY <1>1, <1>5, <2>1, AppendProperties DEF FramesOnly
    <2>3. FramesOnly'
      BY <1>1, <1>7, <1>8, <2>1, <2>2 DEF FramesOnly
    <2>4. Handed' = Handed
      BY <1>1, <2>1 DEF Handed
    <2>5. \E q : InPlace(q)'
      BY <1>1, <1>9, <2>4, PlacesDrop
    <2>6. Len(Handed') + Len(given') + Len(inbox') = Len(Handed) + Len(given) + Len(inbox)
      BY <1>4, <1>5, <1>6, <1>7, <2>2, <2>4
    <2>7. NoneMissing'
      BY <1>1, <2>6 DEF NoneMissing
    <2> QED
      BY <1>2, <2>3, <2>5, <2>7 DEF FedInv
  <1>11. CASE Relayed(Ax[f]) /\ peer # "reset"
    <2>1. wire' = Append(wire, f) /\ UNCHANGED given
      BY <1>3, <1>11 DEF Relay
    <2>2. Handed' = Append(Handed, f) /\ wire' \in Seq(Frames)
      BY <1>1, <2>1, HandedGrows
    <2>3. Len(Handed') = a + 1
      BY <1>1, <1>4, <2>2, HandedIs, AppendProperties
    <2>4. FramesOnly'
      BY <1>1, <1>7, <1>8, <2>1, <2>2 DEF FramesOnly
    <2>5. ~FromInternet(Ax[Head(inbox)])
      BY <1>3, <1>11, RelayedPasses
    <2>6. Handed' = Append(Handed, Head(inbox))
      BY <1>3, <2>2
    <2>7. InPlace(place)'
      BY <1>1, <1>9, <2>5, <2>6, PlacesPass
    <2>8. Len(Handed') + Len(given') + Len(inbox') = Len(Handed) + Len(given) + Len(inbox)
      BY <1>4, <1>5, <1>6, <1>7, <2>1, <2>3
    <2>9. NoneMissing'
      BY <1>1, <2>8 DEF NoneMissing
    <2> QED
      BY <1>2, <2>4, <2>7, <2>9 DEF FedInv
  <1>12. CASE Relayed(Ax[f]) /\ peer = "reset"
    <2>1. UNCHANGED <<wire, given>>
      BY <1>3, <1>12 DEF Relay
    <2>2. FramesOnly'
      BY <1>1, <1>7, <1>8, <2>1 DEF FramesOnly
    <2>3. Handed' = Handed
      BY <1>1, <2>1 DEF Handed
    <2>4. \E q : InPlace(q)'
      BY <1>1, <1>9, <2>3, PlacesDrop
    <2>5. outages' # 0
      BY <1>1, <1>12, LossesNeedOutages
    <2>6. NoneMissing'
      BY <2>5 DEF NoneMissing
    <2> QED
      BY <1>2, <2>2, <2>4, <2>6 DEF FedInv
  <1> QED
    BY <1>10, <1>11, <1>12

\* The server receives what was written.
LEMMA DeliverFed ==
  ASSUME FedInv, Deliver
  PROVE  FedInv'
  <1>1. /\ DecodersIdle /\ FramesOnly /\ NoneMissing
        /\ wire # <<>> /\ atServer' = Append(atServer, Head(wire)) /\ wire' = Tail(wire)
        /\ UNCHANGED <<dec, out, inbox, outages, given>>
    BY DEF FedInv, Deliver, packetVars, decodeVars
  <1>2. Handed' = Handed /\ wire' \in Seq(Frames) /\ atServer' \in Seq(Frames)
    BY <1>1, HandedStays
  <1>3. DecodersIdle'
    BY <1>1 DEF DecodersIdle, Shaped
  <1>4. FramesOnly'
    BY <1>1, <1>2 DEF FramesOnly, IsSequence
  <1>5. NoneMissing'
    BY <1>1, <1>2 DEF NoneMissing
  <1>6. PICK place : InPlace(place)
    BY DEF FedInv
  <1>7. InPlace(place)'
    BY <1>1, <1>2, <1>6 DEF InPlace, FromInternet
  <1> QED
    BY <1>3, <1>4, <1>5, <1>7 DEF FedInv

\* What is in flight is lost with the connection.
LEMMA BreakFed ==
  ASSUME FeedInv, FedInv, Break
  PROVE  FedInv'
  <1>1. /\ DecodersIdle /\ FramesOnly /\ peer = "gone" /\ wire' = <<>>
        /\ UNCHANGED <<dec, out, inbox, outages, atServer, given>>
    BY DEF FedInv, Break, packetVars, decodeVars
  <1>2. DecodersIdle'
    BY <1>1 DEF DecodersIdle, Shaped
  <1>3. FramesOnly'
    <2>1. wire' \in Seq(Frames)
      BY <1>1
    <2> QED
      BY <1>1, <2>1 DEF FramesOnly, IsSequence
  <1>4. PICK place : InPlace(place)
    BY DEF FedInv
  <1>5. \E q : InPlace(q)'
    BY <1>1, <1>4, PlacesBreak
  <1>6. outages' # 0
    BY <1>1, LossesNeedOutages
  <1>7. NoneMissing'
    BY <1>6 DEF NoneMissing
  <1> QED
    BY <1>2, <1>3, <1>5, <1>7 DEF FedInv

\* In the beginning there is nothing to send.
LEMMA FedBegins ==
  ASSUME AprsInit
  PROVE  FedInv
  <1>1. out = <<>> /\ inbox = <<>> /\ wire = <<>> /\ atServer = <<>> /\ given = <<>>
    BY DEF AprsInit, PacketInit, FeedInit
  <1>2. DecodersIdle
    BY DEF AprsInit, PacketInit, DecodersIdle, Shaped
  <1>3. Len(out) = 0 /\ Len(inbox) = 0 /\ Len(Handed) = 0 /\ Len(given) = 0
    BY <1>1 DEF Handed
  <1>4. FramesOnly
    BY <1>1, <1>3 DEF FramesOnly, IsSequence
  <1>5. InPlace([i \in 1..0 |-> 0])
    <2>1. PICK place : place = [i \in 1..0 |-> 0]
      OBVIOUS
    <2>2. place \in [1..0 + 0 -> 1..0] /\ DOMAIN place = 1..0
      BY <2>1
    <2>3. InPlace(place)
      BY <1>3, <2>2 DEF InPlace
    <2> QED
      BY <2>1, <2>3
  <1>6. NoneMissing
    BY <1>3 DEF NoneMissing
  <1> QED
    BY <1>2, <1>4, <1>5, <1>6 DEF FedInv

\* No step of packet, of the program or of the server loses track of a frame.
LEMMA FedStep ==
  ASSUME FeedInv, FedInv, [AprsNext]_aprsVars
  PROVE  FedInv'
  <1>1. ASSUME NEW s \in Streams, Decode(s), Arrive(SubSeq(out', Len(out) + 1, Len(out'))),
               UNCHANGED <<conn, server, peer, wire, outages, atServer, given, failed>>
        PROVE  FedInv'
    BY <1>1, DecodeFed
  <1>2. CASE Relay
    BY <1>2, RelayFed
  <1>3. CASE Outage
    <2>1. outages \in Nat /\ outages' = outages + 1
      BY <1>3 DEF Outage, FeedInv
    <2>2. UNCHANGED <<dec, out, inbox, wire, atServer, given>> /\ outages' # 0
      BY <1>3, <2>1 DEF Outage, packetVars, decodeVars
    <2> QED
      BY <2>2, FedSame
  <1>4. ASSUME UNCHANGED <<dec, out, inbox, wire, atServer, given, outages>>
        PROVE  FedInv'
    BY <1>4, FedSame
  <1>5. CASE Resolve \/ Connect \/ Login \/ Return
    BY <1>4, <1>5 DEF Resolve, Connect, Login, Return, packetVars, decodeVars
  <1>6. ASSUME NEW s \in Streams, Packet(Transmit(s) \/ StartDecoder(s))
        PROVE  FedInv'
    BY <1>4, <1>6 DEF Packet, Transmit, StartDecoder, feedVars, decodeVars
  <1>7. ASSUME NEW p \in net, Packet(Lose(p) \/ Receive(p))
        PROVE  FedInv'
    BY <1>4, <1>7 DEF Packet, Lose, Receive, feedVars, decodeVars
  <1>8. CASE UNCHANGED aprsVars
    BY <1>4, <1>8 DEF aprsVars, feedVars, packetVars, decodeVars
  <1>9. CASE Deliver
    BY <1>9, DeliverFed
  <1>10. CASE Break
    BY <1>10, BreakFed
  <1> QED
    BY <1>1, <1>2, <1>3, <1>5, <1>6, <1>7, <1>8, <1>9, <1>10 DEF AprsNext, Feed

\* Whatever packet sends is at the server, in flight, waiting, refused or lost, in the order in which
\* it was sent.
THEOREM FedInductive == AprsSpec => []FedInv
  <1>1. AprsInit => FedInv
    BY FedBegins
  <1>2. FeedInv /\ FedInv /\ [AprsNext]_aprsVars => FedInv'
    BY FedStep
  <1> QED
    BY <1>1, <1>2, FeedInductive, PTL DEF AprsSpec

\* The places of m frames are m places.
LEMMA PlacesCounted ==
  ASSUME NEW m \in Nat, NEW place, \A i \in 1..m : place[i] \in Nat,
         \A i, j \in 1..m : i < j => place[i] < place[j]
  PROVE  Cardinality({place[i] : i \in 1..m}) = m
  <1>1. PICK S : S = {place[i] : i \in 1..m}
    OBVIOUS
  <1>2. PICK f : f = [i \in 1..m |-> place[i]]
    OBVIOUS
  <1>3. f \in [1..m -> S] /\ \A x \in S : \E i \in 1..m : f[i] = x
    BY <1>1, <1>2
  <1>4. ASSUME NEW i \in 1..m, NEW j \in 1..m, f[i] = f[j]
        PROVE  i = j
    <2>1. place[i] = place[j] /\ place[i] \in Nat /\ place[j] \in Nat
      BY <1>2, <1>4
    <2>2. ~(i < j) /\ ~(j < i)
      BY <2>1
    <2> QED
      BY <2>2
  <1>5. f \in Bijection(1..m, S)
    BY <1>3, <1>4 DEF Bijection, Injection, Surjection, IsInjective
  <1>6. ExistsBijection(1..m, S)
    BY <1>5 DEF ExistsBijection
  <1> QED
    BY <1>1, <1>6, FS_CountingElements

\* The server gets what packet has sent, in that order, nothing twice and nothing from the
\* Internet; and everything that is not refused, unless it goes away or the socket is full.
THEOREM ServerGetsFramesThm == AprsSpec => []ServerGetsFrames
  <1>1. ASSUME FedInv
        PROVE  ServerGetsFrames
    <2>1. PICK place : InPlace(place)
      BY <1>1 DEF FedInv
    <2>0. FramesOnly
      BY <1>1 DEF FedInv
    <2>2. PICK a \in Nat : a = Len(atServer)
      BY <2>0, HandedIs
    <2>13. PICK w \in Nat : w = Len(wire)
      BY <2>0, HandedIs
    <2>14. Len(Handed) = a + w /\ \A i \in 1..a : Handed[i] = atServer[i]
      BY <2>0, <2>2, <2>13, HandedIs
    <2>3. PICK m \in Nat : m = Len(inbox)
      BY <1>1, LenProperties DEF FedInv, FramesOnly
    <2>4. PICK n \in Nat : n = Len(out) /\ DOMAIN out = 1..n
      BY <1>1, LenProperties DEF FedInv, FramesOnly, IsSequence
    <2>15. /\ place \in [1..(a + w) + m -> 1..n] /\ DOMAIN place = 1..(a + w) + m
           /\ \A i, j \in DOMAIN place : i < j => place[i] < place[j]
           /\ \A i \in 1..a + w :
                Handed[i] = out[place[i]].frame /\ ~FromInternet(Ax[Handed[i]])
      BY <2>1, <2>3, <2>4, <2>14 DEF InPlace
    <2>5. \A i \in 1..a : atServer[i] = out[place[i]].frame /\ ~FromInternet(Ax[atServer[i]])
      <3>1. \A i \in 1..a : i \in 1..a + w
        OBVIOUS
      <3> QED
        BY <2>14, <2>15, <3>1
    <2>6. /\ \A i \in 1..a : place[i] \in 1..n
          /\ \A i, j \in 1..a : i < j => place[i] < place[j]
      <3>1. 1..a \subseteq 1..(a + w) + m
        OBVIOUS
      <3>2. \A i \in 1..(a + w) + m : place[i] \in 1..n
        BY <2>15
      <3>3. \A i, j \in 1..(a + w) + m : i < j => place[i] < place[j]
        BY <2>15
      <3>4. \A i, j \in 1..a : i < j => place[i] < place[j]
        BY <3>1, <3>3
      <3> QED
        BY <3>1, <3>2, <3>4
    <2>7. PICK kept : kept = {place[i] : i \in 1..a}
      OBVIOUS
    <2>8. kept \in SUBSET DOMAIN FromPacket
      BY <2>4, <2>6, <2>7 DEF FromPacket
    <2>9. Cardinality(kept) = a
      BY <2>6, <2>7, PlacesCounted
    <2>10. ASSUME NEW k \in kept
           PROVE  /\ atServer[Cardinality({j \in kept : j <= k})] = FromPacket[k]
                  /\ ~FromInternet(Ax[FromPacket[k]])
      <3>1. PICK i \in 1..a : k = place[i]
        BY <2>7
      <3>2. {j \in kept : j <= k} = {place[l] : l \in 1..i}
        <4>1. ASSUME NEW l \in 1..a
              PROVE  place[l] <= place[i] <=> l <= i
          <5>1. place[l] \in 1..n /\ place[i] \in 1..n
            BY <2>6
          <5>2. l < i => place[l] < place[i]
            BY <2>6
          <5>3. i < l => place[i] < place[l]
            BY <2>6
          <5> QED
            BY <5>1, <5>2, <5>3
        <4>2. ASSUME NEW j \in kept, j <= k
              PROVE  \E l \in 1..i : j = place[l]
          <5>1. PICK l \in 1..a : j = place[l]
            BY <2>7
          <5>2. l \in 1..i
            BY <3>1, <4>1, <4>2, <5>1
          <5> QED
            BY <5>1, <5>2
        <4>3. ASSUME NEW l \in 1..i
              PROVE  place[l] \in kept /\ place[l] <= k
          <5>1. l \in 1..a /\ l <= i
            OBVIOUS
          <5> QED
            BY <2>7, <3>1, <4>1, <5>1
        <4> QED
          BY <4>2, <4>3
      <3>3. Cardinality({place[l] : l \in 1..i}) = i
        <4>1. i \in Nat /\ 1..i \subseteq 1..a /\ 1..n \subseteq Nat
          OBVIOUS
        <4>2. /\ \A l \in 1..i : place[l] \in Nat
              /\ \A l, j \in 1..i : l < j => place[l] < place[j]
          BY <2>6, <4>1
        <4> QED
          BY <4>1, <4>2, PlacesCounted
      <3>4. FromPacket[k] = out[place[i]].frame
        BY <2>4, <2>6, <3>1 DEF FromPacket
      <3>5. atServer[i] = FromPacket[k] /\ ~FromInternet(Ax[atServer[i]])
        BY <2>5, <3>4
      <3> QED
        BY <3>2, <3>3, <3>5
    <2>11. outages = 0 /\ Len(out) <= SocketSize =>
             Len(atServer) + Len(wire) + Len(given) + Len(inbox) = Len(out)
      <3>1. outages = 0 /\ Len(out) <= SocketSize =>
              (a + w) + Len(given) + Len(inbox) = Len(out)
        BY <1>1, <2>14 DEF FedInv, NoneMissing
      <3> QED
        BY <2>2, <2>13, <3>1
    <2>12. Cardinality(kept) = Len(atServer)
      BY <2>2, <2>9
    <2> QED
      BY <2>8, <2>10, <2>11, <2>12 DEF ServerGetsFrames
  <1> QED
    BY <1>1, FedInductive, PTL
=============================================================================
