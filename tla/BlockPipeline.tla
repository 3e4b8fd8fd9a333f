--------------------------- MODULE BlockPipeline ---------------------------
(***************************************************************************)
(* The heart of the `radio' program: the thread that fills the             *)
(* fast-convolution filter (proc_samples in radio.c), the filter's two     *)
(* halves (execute_filter_input and execute_filter_output in filter.c) and *)
(* the demodulator threads (demod_fm in fm.c, demod_linear in linear.c).   *)
(*                                                                         *)
(* Every demodulator has its own thread, created once; demod_type says     *)
(* which of them is active, and the others wait on demod_cond.  All of     *)
(* them read ONE filter_out, so its block number, its f_fdomain array and  *)
(* its output array are shared.  filter_mutex protects only the block      *)
(* numbers, response_mutex only the multiplication by the response; the    *)
(* spectrum master->fdomain is read, and output.c is written and read,     *)
(* with no lock that would keep the other threads out.                     *)
(*                                                                         *)
(* Samples are abstracted to the number of the block they belong to, or    *)
(* Torn when an array was written while it was being read.  A critical     *)
(* section that cannot block is one step; response_mutex, held during a    *)
(* computation, has an explicit owner.                                     *)
(***************************************************************************)
EXTENDS Integers

CONSTANTS
  Demods,     \* the demodulators, one thread each (LINEAR_DEMOD, FM_DEMOD)
  FirstDemod, \* demod_type at startup
  MaxBlock    \* bound: blocks of I/Q samples that arrive

Nobody == "nobody"

ASSUME PipelineAssumption ==
  /\ FirstDemod \in Demods
  /\ Nobody \notin Demods
  /\ MaxBlock \in Nat

VARIABLES
  inputPhase,   \* where proc_samples is in execute_filter_input
  fdomain,      \* the block whose spectrum is in master->fdomain, or Torn
  masterBlock,  \* master->blocknum
  slaveBlock,   \* slave->blocknum
  respOwner,    \* the thread that holds slave->response_mutex, or Nobody
  demodType,    \* demod->demod_type
  phase,        \* where each demodulator thread is
  claimed,      \* the block number each thread copied last
  work,         \* the block whose data each thread is really using, or Torn
  late,         \* history: the last FFT began before the previous block was done
  delivered     \* history: the block most recently sent as audio

vars == <<inputPhase, fdomain, masterBlock, slaveBlock, respOwner, demodType,
          phase, claimed, work, late, delivered>>

Torn == -1

Block == 0..MaxBlock

(***************************************************************************)
(* A demodulator's loop: "check" tests demod_type, "parked" waits on       *)
(* demod_cond, "poll" tests the block number, "asleep" waits on            *)
(* filter_cond.  From "claimed" to the end of the loop body it uses the    *)
(* shared arrays: it multiplies the spectrum by the response ("multiply"), *)
(* runs the inverse FFT ("inverse"), and demodulates and sends             *)
(* ("demodulate").                                                         *)
(***************************************************************************)
Using == {"multiply", "inverse", "demodulate"}
Busy  == {"claimed"} \cup Using
Phase == {"check", "parked", "poll", "asleep"} \cup Busy

Idle     == \A d \in Demods : phase[d] \notin Busy
CaughtUp == Idle /\ slaveBlock = masterBlock

TypeOK ==
  /\ inputPhase \in {"filling", "transform", "publish"}
  /\ fdomain \in Block \cup {Torn}
  /\ masterBlock \in Block
  /\ slaveBlock \in Block
  /\ respOwner \in Demods \cup {Nobody}
  /\ demodType \in Demods
  /\ phase \in [Demods -> Phase]
  /\ claimed \in [Demods -> Block]
  /\ work \in [Demods -> Block \cup {Torn}]
  /\ late \in BOOLEAN
  /\ delivered \in Block

Init ==
  /\ inputPhase = "filling"
  /\ fdomain = 0
  /\ masterBlock = 0
  /\ slaveBlock = 0
  /\ respOwner = Nobody
  /\ demodType = FirstDemod
  /\ phase = [d \in Demods |-> "check"]
  /\ claimed = [d \in Demods |-> 0]
  /\ work = [d \in Demods |-> 0]
  /\ late = FALSE
  /\ delivered = 0

-----------------------------------------------------------------------------
(* proc_samples *)

\* Mutant: pthread_cond_signal, which wakes one thread.
Signal(from, to) ==
  IF \A d \in Demods : phase[d] # from
  THEN phase' = phase
  ELSE phase' = [phase EXCEPT ![CHOOSE d \in Demods : phase[d] = from] = to]

\* pthread_cond_broadcast: every thread waiting in phase `from' tests again.
Broadcast(from, to) ==
  phase' = [d \in Demods |-> IF phase[d] = from THEN to ELSE phase[d]]

\* The input buffer is full and the forward FFT starts overwriting fdomain.
\* A thread that is multiplying reads a mixture of two blocks.
BeginTransform ==
  /\ inputPhase = "filling"
  /\ masterBlock < MaxBlock
  /\ inputPhase' = "transform"
  /\ fdomain' = Torn
  /\ work' = [d \in Demods |-> IF phase[d] = "multiply" THEN Torn ELSE work[d]]
  /\ late' = ~CaughtUp
  /\ UNCHANGED <<masterBlock, slaveBlock, respOwner, demodType, phase, claimed,
                 delivered>>

EndTransform ==
  /\ inputPhase = "transform"
  /\ inputPhase' = "publish"
  /\ fdomain' = masterBlock + 1
  /\ UNCHANGED <<masterBlock, slaveBlock, respOwner, demodType, phase, claimed,
                 work, late, delivered>>

\* Under filter_mutex: count the block and wake every waiting reader.
Publish ==
  /\ inputPhase = "publish"
  /\ inputPhase' = "filling"
  /\ masterBlock' = masterBlock + 1
  /\ Broadcast("asleep", "poll")
  /\ UNCHANGED <<fdomain, slaveBlock, respOwner, demodType, claimed, work, late,
                 delivered>>

-----------------------------------------------------------------------------
(* The status thread: a mode preset or a DEMOD_TYPE command *)

\* Mutant: the waiting threads are not told.
SetDemodTypeSilently(t) ==
  /\ demodType # t
  /\ demodType' = t
  /\ UNCHANGED <<inputPhase, fdomain, masterBlock, slaveBlock, respOwner, phase,
                 claimed, work, late, delivered>>

SetDemodType(t) ==
  /\ demodType # t
  /\ demodType' = t
  /\ Broadcast("parked", "check")
  /\ UNCHANGED <<inputPhase, fdomain, masterBlock, slaveBlock, respOwner, claimed,
                 work, late, delivered>>

-----------------------------------------------------------------------------
(* A demodulator thread *)

Goto(d, p) == phase' = [phase EXCEPT ![d] = p]

\* "Are we active?", under demod_mutex.
CheckActive(d) ==
  /\ phase[d] = "check"
  /\ Goto(d, IF demodType = d THEN "poll" ELSE "parked")
  /\ UNCHANGED <<inputPhase, fdomain, masterBlock, slaveBlock, respOwner, demodType,
                 claimed, work, late, delivered>>

\* "Wait for new block of data", under filter_mutex.
Sleep(d) ==
  /\ phase[d] = "poll"
  /\ slaveBlock = masterBlock
  /\ Goto(d, "asleep")
  /\ UNCHANGED <<inputPhase, fdomain, masterBlock, slaveBlock, respOwner, demodType,
                 claimed, work, late, delivered>>

\* Mutant: `if' for `while': a thread that was woken does not test again.
ClaimUntested(d) ==
  /\ phase[d] = "poll"
  /\ masterBlock > 0
  /\ slaveBlock' = masterBlock
  /\ claimed' = [claimed EXCEPT ![d] = masterBlock]
  /\ Goto(d, "claimed")
  /\ UNCHANGED <<inputPhase, fdomain, masterBlock, respOwner, demodType, work, late,
                 delivered>>

Claim(d) ==
  /\ phase[d] = "poll"
  /\ slaveBlock # masterBlock
  /\ slaveBlock' = masterBlock
  /\ claimed' = [claimed EXCEPT ![d] = masterBlock]
  /\ Goto(d, "claimed")
  /\ UNCHANGED <<inputPhase, fdomain, masterBlock, respOwner, demodType, work, late,
                 delivered>>

\* Mutant: a return from pthread_cond_wait is taken for a new block.
SpuriousWakeupIsData(d) ==
  /\ \/ phase[d] = "parked" /\ Goto(d, "check")
     \/ phase[d] = "asleep" /\ Goto(d, "claimed")
  /\ UNCHANGED <<inputPhase, fdomain, masterBlock, slaveBlock, respOwner, demodType,
                 claimed, work, late, delivered>>

\* POSIX allows pthread_cond_wait to return with no broadcast.
SpuriousWakeup(d) ==
  /\ \/ phase[d] = "parked" /\ Goto(d, "check")
     \/ phase[d] = "asleep" /\ Goto(d, "poll")
  /\ UNCHANGED <<inputPhase, fdomain, masterBlock, slaveBlock, respOwner, demodType,
                 claimed, work, late, delivered>>

\* Takes response_mutex and starts to write f_fdomain from master->fdomain.
\* A thread whose inverse FFT is still reading f_fdomain loses its block.
BeginMultiply(d) ==
  /\ phase[d] = "claimed"
  /\ respOwner = Nobody
  /\ respOwner' = d
  /\ Goto(d, "multiply")
  /\ work' = [e \in Demods |-> IF e = d THEN fdomain
                               ELSE IF phase[e] = "inverse" THEN Torn
                               ELSE work[e]]
  /\ UNCHANGED <<inputPhase, fdomain, masterBlock, slaveBlock, demodType, claimed,
                 late, delivered>>

\* Releases response_mutex; the inverse FFT starts to write output.c, which
\* another thread may be writing or reading.
BeginInverse(d) ==
  /\ phase[d] = "multiply"
  /\ respOwner' = Nobody
  /\ Goto(d, "inverse")
  /\ work' = [e \in Demods |->
       IF e # d
       THEN IF phase[e] \in {"inverse", "demodulate"} THEN Torn ELSE work[e]
       ELSE IF \E f \in Demods \ {d} : phase[f] = "inverse" THEN Torn ELSE work[d]]
  /\ UNCHANGED <<inputPhase, fdomain, masterBlock, slaveBlock, demodType, claimed,
                 late, delivered>>

\* The demodulator reads output.c, and demod_linear changes it in place.
BeginDemodulate(d) ==
  /\ phase[d] = "inverse"
  /\ Goto(d, "demodulate")
  /\ work' = IF \E f \in Demods \ {d} : phase[f] \in {"inverse", "demodulate"}
             THEN [work EXCEPT ![d] = Torn]
             ELSE work
  /\ UNCHANGED <<inputPhase, fdomain, masterBlock, slaveBlock, respOwner, demodType,
                 claimed, late, delivered>>

\* send_mono_output or send_stereo_output, and back to the top of the loop.
SendOutput(d) ==
  /\ phase[d] = "demodulate"
  /\ Goto(d, "check")
  /\ delivered' = claimed[d]
  /\ UNCHANGED <<inputPhase, fdomain, masterBlock, slaveBlock, respOwner, demodType,
                 claimed, work, late>>

-----------------------------------------------------------------------------
ProcSamples == BeginTransform \/ EndTransform \/ Publish

DemodThread(d) ==
  \/ CheckActive(d)
  \/ Sleep(d)
  \/ Claim(d)
  \/ BeginMultiply(d)
  \/ BeginInverse(d)
  \/ BeginDemodulate(d)
  \/ SendOutput(d)

Next ==
  \/ ProcSamples
  \/ \E t \in Demods : SetDemodType(t)
  \/ \E d \in Demods : DemodThread(d) \/ SpuriousWakeup(d)

(***************************************************************************)
(* Threads that can run do run.  Nothing obliges a block to arrive, an     *)
(* operator to change the mode or a wakeup to be spurious.                 *)
(***************************************************************************)
Fairness ==
  /\ WF_vars(EndTransform \/ Publish)
  /\ \A d \in Demods : WF_vars(DemodThread(d))

Spec == Init /\ [][Next]_vars /\ Fairness
-----------------------------------------------------------------------------
(* Properties *)

\* No lost wakeup: a thread sleeps on filter_cond only when there is no block
\* it has not seen, and on demod_cond only while another demodulator is active
\* (filter.c:260-264, fm.c:37-40, linear.c:50-53).
NoLostWakeup ==
  \A d \in Demods :
    /\ phase[d] = "asleep" => slaveBlock = masterBlock
    /\ phase[d] = "parked" => demodType # d

\* Two demodulator threads never work on the same block, whatever the mode
\* switches and however late they are (filter.c:263 under filter_mutex).
NoBlockClaimedTwice ==
  \A d, e \in Demods :
    d # e /\ phase[d] \in Busy /\ phase[e] \in Busy => claimed[d] # claimed[e]

\* As long as the last block was finished before the FFT of the next began, at
\* most one thread is inside the loop body.  This is all that protects the
\* slave's arrays and demod->output.rtp (seq, timestamp, silent), which have
\* no mutex.
OneUserWhenOnTime ==
  ~late => \A d, e \in Demods : phase[d] \in Busy /\ phase[e] \in Busy => d = e

\* Under the same condition the data a demodulator uses is the whole of the
\* block it claimed: neither master->fdomain nor the slave's arrays change
\* under it, although no lock covers them.
IntactWhenOnTime ==
  ~late => \A d \in Demods : phase[d] \in Using => work[d] = claimed[d]

\* Both: what no mutex protects has one user at a time and stays as that user
\* expects it, as long as the demodulators keep up.
SafeWhenOnTime == OneUserWhenOnTime /\ IntactWhenOnTime

\* Audio leaves in the order of the blocks, also across a change of mode, as
\* long as the demodulators keep up.
InOrderWhenOnTime ==
  [][~late /\ delivered' # delivered => delivered' > delivered]_vars

\* A block that arrives is processed, or overtaken by a newer one, once the
\* operator settles on a mode: the thread that was parked does take over.
BlocksTaken ==
  (\E d \in Demods : <>[](demodType = d)) =>
    \A n \in Block : (masterBlock >= n) ~> (slaveBlock >= n)

\* However the threads test the shared block numbers, sleep, are woken for
\* nothing and change modes: each block is handed to one reader, once, as the
\* newest there is, and leaves as audio at most once (the test and the copy
\* under one filter_mutex, filter.c:258-264, and the loop around the wait).
\* The readers' promise says nothing of slave->blocknum, by which it is kept.
Mailbox == INSTANCE LatestBlock WITH
  Readers <- Demods,
  posted <- masterBlock,
  last <- claimed,
  using <- [d \in Demods |-> phase[d] \in Busy],
  heard <- delivered
ImplementsMailbox == Mailbox!MailSpec
=============================================================================
