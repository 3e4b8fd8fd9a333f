----------------------------- MODULE SampleRing -----------------------------
(***************************************************************************)
(* The ring of raw samples in the HackRF and Airspy front ends, between    *)
(* the USB library's thread, which calls rx_callback with a transfer of    *)
(* samples, and the main thread, which decimates them into RTP packets     *)
(* (hackrf.c; airspy.c has the same code).                                 *)
(*                                                                         *)
(* rx_callback stores samples, moves Samp_wp and broadcasts Buf_cond       *)
(* without taking Buf_mutex, so it can do so between main's test and its   *)
(* wait.  Neither side looks whether the ring has overflowed.              *)
(*                                                                         *)
(* A sample is its number in the stream from the A/D converter.  Reading a *)
(* chunk is one step: a sample stored into the chunk meanwhile is one that *)
(* makes `late' true.                                                      *)
(***************************************************************************)
EXTENDS Integers

CONSTANTS
  BufferSize,   \* samples in the ring
  Decimate,     \* raw samples to one output sample
  Blocksize,    \* output samples in a packet
  Transfer,     \* samples in a USB transfer
  MaxTransfers  \* bound: transfers

\* Raw samples in a packet.
Need == Decimate * Blocksize

ASSUME RingAssumption ==
  /\ {BufferSize, Decimate, Blocksize, Transfer} \subseteq Nat \ {0}
  /\ MaxTransfers \in Nat
  /\ BufferSize % Decimate = 0
  /\ Need < BufferSize

VARIABLES
  wp,         \* Samp_wp
  left,       \* samples of the current transfer still to be stored
  calling,    \* rx_callback is running
  transfers,  \* transfers completed
  written,    \* history: samples stored
  ring,       \* Sampbuffer_i and Sampbuffer_q
  rp,         \* samp_rp
  phase,      \* where main is: "test", "block", "asleep", "read"
  remain,     \* output samples still missing from the packet
  packets,    \* packets completed: Rtp.timestamp / Blocksize
  taken,      \* history: samples taken from the ring
  late,       \* history: the ring has been full
  asStamped   \* history: all samples taken were those the RTP timestamp tells

usbVars  == <<left, calling, transfers>>
mainVars == <<rp, phase, remain, packets, taken, asStamped>>
vars     == <<wp, usbVars, written, ring, mainVars, late>>

Slot == 0..BufferSize - 1
NoSample == -1

TypeOK ==
  /\ wp \in Slot /\ rp \in Slot
  /\ left \in 0..Transfer /\ calling \in BOOLEAN
  /\ transfers \in 0..MaxTransfers
  /\ written \in Nat /\ taken \in Nat /\ packets \in Nat
  /\ ring \in [Slot -> Nat \cup {NoSample}]
  /\ phase \in {"test", "block", "asleep", "read"}
  /\ remain \in 0..Blocksize
  /\ late \in BOOLEAN /\ asStamped \in BOOLEAN

Init ==
  /\ wp = 0 /\ rp = 0
  /\ left = 0 /\ calling = FALSE
  /\ transfers = 0
  /\ written = 0 /\ taken = 0 /\ packets = 0
  /\ ring = [s \in Slot |-> NoSample]
  /\ phase = "test"
  /\ remain = 0
  /\ late = FALSE /\ asStamped = TRUE

-----------------------------------------------------------------------------
(* rx_callback, in the USB library's thread *)

StartCallback ==
  /\ ~calling
  /\ transfers < MaxTransfers
  /\ calling' = TRUE
  /\ left' = Transfer
  /\ UNCHANGED <<wp, transfers, written, ring, mainVars, late>>

StoreSample ==
  /\ calling /\ left > 0
  /\ ring' = [ring EXCEPT ![wp] = written]
  /\ wp' = (wp + 1) % BufferSize
  /\ written' = written + 1
  /\ left' = left - 1
  /\ late' = (late \/ written + 1 - taken >= BufferSize)
  /\ UNCHANGED <<calling, transfers, mainVars>>

\* Mutant: nobody is told.
EndCallbackSilently ==
  /\ calling /\ left = 0
  /\ calling' = FALSE
  /\ transfers' = transfers + 1
  /\ UNCHANGED <<wp, left, written, ring, mainVars, late>>

\* "Wake him up only after we're done": a broadcast, with no mutex held.
EndCallback ==
  /\ calling /\ left = 0
  /\ calling' = FALSE
  /\ transfers' = transfers + 1
  /\ phase' = IF phase = "asleep" THEN "test" ELSE phase
  /\ UNCHANGED <<wp, left, written, ring, rp, remain, packets, taken, asStamped, late>>

-----------------------------------------------------------------------------
(* main *)

Available == (wp - rp) % BufferSize

\* Mutant: output samples are counted, not raw ones.
EnoughForOne == Available >= Blocksize

Enough == Available >= Need

\* The condition of the wait, under Buf_mutex.
Test ==
  /\ phase = "test"
  /\ IF Enough
     THEN phase' = "read" /\ remain' = Blocksize
     ELSE phase' = "block" /\ UNCHANGED remain
  /\ UNCHANGED <<wp, usbVars, written, ring, rp, packets, taken, late, asStamped>>

\* pthread_cond_wait: from here on a broadcast is noticed.
Block ==
  /\ phase = "block"
  /\ phase' = "asleep"
  /\ UNCHANGED <<wp, usbVars, written, ring, rp, remain, packets, taken, late, asStamped>>

SpuriousWakeup ==
  /\ phase = "asleep"
  /\ phase' = "test"
  /\ UNCHANGED <<wp, usbVars, written, ring, rp, remain, packets, taken, late, asStamped>>

\* Output samples of the next chunk, which does not straddle the ring's end.
Chunk ==
  IF rp + remain * Decimate > BufferSize
  THEN (BufferSize - rp) \div Decimate
  ELSE remain

\* The number in the stream of the next sample, as the RTP timestamp has it.
Stamp == packets * Need + (Blocksize - remain) * Decimate

ReadChunk ==
  /\ phase = "read" /\ remain > 0
  /\ asStamped' = (asStamped /\ \A i \in 0..Chunk * Decimate - 1 : ring[rp + i] = Stamp + i)
  /\ rp' = (rp + Chunk * Decimate) % BufferSize
  /\ taken' = taken + Chunk * Decimate
  /\ remain' = remain - Chunk
  /\ UNCHANGED <<wp, usbVars, written, ring, phase, packets, late>>

\* send(), whether or not it succeeds: the timestamp advances.
SendPacket ==
  /\ phase = "read" /\ remain = 0
  /\ packets' = packets + 1
  /\ phase' = "test"
  /\ UNCHANGED <<wp, usbVars, written, ring, rp, remain, taken, late, asStamped>>

-----------------------------------------------------------------------------
RxCallback == StartCallback \/ StoreSample \/ EndCallback

Main == Test \/ Block \/ ReadChunk \/ SendPacket

Next == RxCallback \/ Main \/ SpuriousWakeup

(***************************************************************************)
(* Both threads run, and a callback that was begun ends.  Nothing obliges  *)
(* a transfer to come or a wakeup to be spurious.                          *)
(***************************************************************************)
Fairness ==
  /\ WF_vars(StoreSample \/ EndCallback)
  /\ WF_vars(Main)

Spec == Init /\ [][Next]_vars /\ Fairness
-----------------------------------------------------------------------------
(* Properties *)

\* What main takes has been stored, also when the ring has overflowed and the
\* difference of the pointers tells too little (hackrf.c:480).
NeverReadsAhead == phase = "read" => taken + remain * Decimate <= written

\* A packet always makes progress: the chunk up to the ring's end is never
\* empty, or the loop at hackrf.c:485 would not end.
ChunkNotEmpty == phase = "read" /\ remain > 0 => Chunk > 0

\* Unless the ring has been full, every packet holds the samples its RTP
\* timestamp tells, in order, none lost, repeated or overwritten; the callback
\* writes into the ring while main reads it, and no lock separates them.
StampedUnlessLate == ~late => asStamped

\* A lost wakeup is made good by the next callback that finishes storing while
\* main is asleep: main then sends every packet completed up to there.
NextCallbackMakesGood ==
  \A n \in 0..MaxTransfers - 1 :
    (phase = "asleep" /\ calling /\ left = 0 /\ transfers = n)
      ~> (late \/ taken + Need > (n + 1) * Transfer)
=============================================================================
