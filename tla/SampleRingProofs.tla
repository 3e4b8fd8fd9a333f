-------------------------- MODULE SampleRingProofs --------------------------
(***************************************************************************)
(* Proofs about the sample ring, for a ring, packets and transfers of any  *)
(* size.  The argument: the two pointers are the true counts modulo the    *)
(* ring's size, so what main sees as available is at most what has been    *)
(* stored; and while fewer samples are stored than the ring has slots, no  *)
(* two of them share a slot, so each is where its number says.             *)
(* Then the same for the ring of captured audio, whose writer nothing      *)
(* holds back: that main is never ahead of the pointer it sees, so that    *)
(* the sign of the pointers' distance keeps it out of what is rewritten.   *)
(* Then for the ring in which monitor mixes what it plays: that what its   *)
(* slots hold is due in the round the callback is about to play.           *)
(***************************************************************************)
EXTENDS AudioCapture, MonitorPlayout, ModularArithmetic, SequenceTheorems

\* The pointers are the counts of samples stored and taken.
Pointers ==
  /\ rp = taken % BufferSize
  /\ wp = written % BufferSize
  /\ taken <= written

\* The RTP timestamp stands for the number of the next sample to be taken.
TimestampIsPlace ==
  IF phase = "read" THEN taken = Stamp ELSE taken = packets * Need

\* The read pointer is at a whole output sample.
Aligned == \E k \in Nat : rp = k * Decimate

\* While the ring has not been full, each sample stored is in its slot.
RingIntact ==
  ~late => /\ written - taken < BufferSize
           /\ \A n \in taken..written - 1 : ring[n % BufferSize] = n
           /\ asStamped

\* A callback is under way only for a transfer still allowed.
CallBound == calling => transfers < MaxTransfers

IInv ==
  TypeOK /\ CallBound /\ Pointers /\ TimestampIsPlace /\ Aligned /\ NeverReadsAhead /\ RingIntact

-----------------------------------------------------------------------------
(* The ring *)

\* A pointer moved by k.
LEMMA Moved ==
  ASSUME NEW a \in Int, NEW k \in Int
  PROVE  /\ ((a % BufferSize) + k) % BufferSize = (a + k) % BufferSize
         /\ (a + k) % BufferSize \in Slot
  <1>1. BufferSize \in Nat \ {0}
    BY RingAssumption
  <1>2. a + k \in Int
    OBVIOUS
  <1> QED
    BY <1>1, <1>2, ModAdd, DivMod DEF Slot

\* The sizes are positive whole numbers.
LEMMA Sizes ==
  /\ BufferSize \in Nat \ {0} /\ Decimate \in Nat \ {0}
  /\ Blocksize \in Nat \ {0} /\ Transfer \in Nat \ {0}
  /\ Need \in Nat \ {0} /\ Need < BufferSize
  /\ \E k \in Nat : BufferSize = k * Decimate
  <1>1. /\ BufferSize \in Nat \ {0} /\ Decimate \in Nat \ {0}
        /\ Blocksize \in Nat \ {0} /\ Transfer \in Nat \ {0}
        /\ BufferSize % Decimate = 0
    BY RingAssumption
  <1>2. Decimate * Blocksize >= 1
    BY <1>1
  <1>3. Need \in Nat \ {0} /\ Need < BufferSize
    BY <1>1, <1>2, RingAssumption DEF Need
  <1>4. BufferSize \div Decimate \in Int
        /\ BufferSize = Decimate * (BufferSize \div Decimate)
    BY <1>1, DivMod
  <1>5. BufferSize \div Decimate >= 0
    <2>1. SUFFICES ASSUME BufferSize \div Decimate <= -1 PROVE FALSE
      BY <1>4
    <2>2. Decimate * (BufferSize \div Decimate) <= -1
      BY <1>1, <1>4, <2>1
    <2> QED
      BY <1>1, <1>4, <2>2
  <1>6. BufferSize \div Decimate \in Nat
        /\ BufferSize = (BufferSize \div Decimate) * Decimate
    BY <1>1, <1>4, <1>5
  <1>7. \E k \in Nat : BufferSize = k * Decimate
    BY <1>6, Zenon
  <1> QED
    BY <1>1, <1>3, <1>7

\* A chunk is not empty, does not exceed what is missing, and does not straddle
\* the ring's end.
LEMMA ChunkBounds ==
  ASSUME TypeOK, Aligned, remain > 0
  PROVE  /\ Chunk \in 1..remain
         /\ Chunk * Decimate \in Nat
         /\ rp + Chunk * Decimate <= BufferSize
         /\ Chunk * Decimate <= remain * Decimate
  <1>1. rp \in Nat /\ rp < BufferSize /\ remain \in Nat \ {0}
    BY Sizes DEF TypeOK, Slot
  <1>2. PICK k \in Nat : rp = k * Decimate
    BY DEF Aligned
  <1>3. PICK b \in Nat : BufferSize = b * Decimate
    BY Sizes
  <1> DEFINE room == b - k
  <1>4. room \in Int /\ BufferSize - rp = room * Decimate
    BY <1>2, <1>3, Sizes
  <1>5. (BufferSize - rp) \div Decimate = room
    BY <1>4, Sizes, DivExact
  <1>6. room >= 1
    <2>1. SUFFICES ASSUME room <= 0 PROVE FALSE
      BY <1>4
    <2>2. room * Decimate <= 0
      BY <1>4, <2>1, Sizes
    <2> QED
      BY <1>1, <1>4, <2>2, Sizes
  <1>7. CASE rp + remain * Decimate > BufferSize
    <2>1. Chunk = room
      BY <1>5, <1>7 DEF Chunk
    <2>2. remain * Decimate > room * Decimate
      BY <1>1, <1>4, <1>7, Sizes
    <2>3. room < remain
      <3>1. SUFFICES ASSUME room >= remain PROVE FALSE
        BY <1>1, <1>4
      <3>2. room * Decimate >= remain * Decimate
        BY <1>1, <1>4, <3>1, Sizes
      <3> QED
        BY <1>1, <1>4, <2>2, <3>2, Sizes
    <2>4. rp + room * Decimate = BufferSize /\ room * Decimate \in Nat
      BY <1>1, <1>4, Sizes
    <2>5. room * Decimate <= remain * Decimate
      BY <1>1, <1>4, <2>2, Sizes
    <2> QED
      BY <1>1, <1>4, <1>6, <2>1, <2>3, <2>4, <2>5, Sizes
  <1>8. CASE ~(rp + remain * Decimate > BufferSize)
    <2>1. Chunk = remain
      BY <1>8 DEF Chunk
    <2>2. remain * Decimate \in Nat
      BY <1>1, Sizes
    <2> QED
      BY <1>1, <1>8, <2>1, <2>2, Sizes
  <1> QED
    BY <1>7, <1>8

-----------------------------------------------------------------------------
(* The inductive invariant *)

\* The invariant holds at the start, with the ring empty.
LEMMA InitIInv == Init => IInv
  <1>1. SUFFICES ASSUME Init PROVE IInv
    OBVIOUS
  <1>2. 0 \in Slot /\ BufferSize \in Nat \ {0} /\ 0 % BufferSize = 0
    BY Sizes DEF Slot
  <1>3. TypeOK
    <2>1. ring \in [Slot -> Nat \cup {NoSample}]
      BY <1>1 DEF Init
    <2>2. 0 \in 0..Transfer /\ 0 \in 0..MaxTransfers /\ 0 \in 0..Blocksize
      BY Sizes, RingAssumption
    <2> QED
      BY <1>1, <1>2, <2>1, <2>2 DEF Init, TypeOK
  <1>4. Pointers /\ NeverReadsAhead
    BY <1>1, <1>2 DEF Init, Pointers, NeverReadsAhead
  <1>5. TimestampIsPlace
    BY <1>1, Sizes DEF Init, TimestampIsPlace
  <1>6. Aligned
    <2>1. rp = 0 * Decimate
      BY <1>1, Sizes DEF Init
    <2> QED
      BY <2>1, Zenon DEF Aligned
  <1>7. RingIntact
    BY <1>1, <1>2 DEF Init, RingIntact
  <1> QED
    BY <1>1, <1>3, <1>4, <1>5, <1>6, <1>7 DEF IInv, CallBound, Init

\* Storing a sample: it goes into a slot that holds none of those still to be
\* taken, unless the ring is full.
LEMMA StorePreserves ==
  ASSUME IInv, StoreSample
  PROVE  IInv'
  <1> USE DEF IInv
  <1>1. /\ wp \in Slot /\ written \in Nat /\ taken \in Nat /\ taken <= written
        /\ wp = written % BufferSize /\ BufferSize \in Nat \ {0}
    BY Sizes DEF TypeOK, Pointers
  <1>2. wp' = (written + 1) % BufferSize
    <2>1. written \in Int /\ 1 \in Int
      BY <1>1
    <2>2. ((written % BufferSize) + 1) % BufferSize = (written + 1) % BufferSize
      BY <2>1, Moved
    <2> QED
      BY <1>1, <2>2 DEF StoreSample
  <1>3. (written + 1) % BufferSize \in Slot
    <2>1. written \in Int /\ 1 \in Int
      BY <1>1
    <2> QED
      BY <2>1, Moved
  <1>4. TypeOK'
    <2>1. wp' \in Slot /\ written' \in Nat /\ late' \in BOOLEAN /\ left' \in 0..Transfer
      BY <1>1, <1>2, <1>3, Sizes DEF StoreSample, TypeOK
    <2>2. ring' \in [Slot -> Nat \cup {NoSample}]
      BY <1>1 DEF StoreSample, TypeOK
    <2> QED
      BY <2>1, <2>2 DEF StoreSample, TypeOK, mainVars
  <1>5. Pointers' /\ NeverReadsAhead'
    <2>1. taken' = taken /\ rp' = rp /\ written' = written + 1
          /\ phase' = phase /\ remain' = remain
      BY DEF StoreSample, mainVars
    <2>2. Pointers'
      BY <1>1, <1>2, <2>1 DEF Pointers
    <2>3. phase = "read" => taken + remain * Decimate \in Int
      BY <1>1, Sizes DEF TypeOK
    <2> QED
      BY <1>1, <2>1, <2>2, <2>3 DEF NeverReadsAhead
  <1>6. TimestampIsPlace' /\ Aligned'
    BY DEF StoreSample, mainVars, TimestampIsPlace, Stamp, Aligned
  <1>7. RingIntact'
    <2>1. SUFFICES ASSUME ~late'
                   PROVE  /\ written' - taken' < BufferSize
                          /\ \A n \in taken'..written' - 1 : ring'[n % BufferSize] = n
                          /\ asStamped'
      BY DEF RingIntact
    <2>2. ~late /\ written + 1 - taken < BufferSize
      <3>1. ~(late \/ written + 1 - taken >= BufferSize)
        BY <2>1, Zenon DEF StoreSample
      <3> QED
        BY <1>1, <3>1
    <2>3. /\ \A n \in taken..written - 1 : ring[n % BufferSize] = n
          /\ asStamped
      BY <2>2 DEF RingIntact
    <2>4. taken' = taken /\ written' = written + 1 /\ asStamped' = asStamped
          /\ ring' = [ring EXCEPT ![wp] = written]
      BY DEF StoreSample, mainVars
    <2>5. ASSUME NEW n \in taken..written PROVE ring'[n % BufferSize] = n
      <3>1. n \in Int /\ n % BufferSize \in Slot
        BY <1>1, DivMod DEF Slot
      <3>2. CASE n = written
        BY <1>1, <2>4, <3>2 DEF TypeOK
      <3>3. CASE n # written
        <4>1. n < written /\ written - n < BufferSize
          BY <1>1, <2>2, <3>1, <3>3
        <4>2. n % BufferSize # wp
          <5>1. n \in Int /\ written \in Int /\ BufferSize \in Nat \ {0}
            BY <1>1, <3>1
          <5>2. n % BufferSize # written % BufferSize
            BY <4>1, <5>1, ModDistinct
          <5> QED
            BY <1>1, <5>2
        <4>3. ring'[n % BufferSize] = ring[n % BufferSize]
          BY <2>4, <3>1, <4>2 DEF TypeOK
        <4> QED
          BY <1>1, <2>3, <3>1, <4>1, <4>3
      <3> QED
        BY <3>2, <3>3
    <2> QED
      BY <1>1, <2>2, <2>3, <2>4, <2>5
  <1>8. CallBound'
    BY DEF StoreSample, CallBound
  <1> QED
    BY <1>4, <1>5, <1>6, <1>7, <1>8

\* Finding enough available: there is at least that much.
LEMMA TestPreserves ==
  ASSUME IInv, Test
  PROVE  IInv'
  <1> USE DEF IInv
  <1>1. /\ phase = "test" /\ taken = packets * Need
        /\ written \in Nat /\ taken \in Nat /\ taken <= written
        /\ BufferSize \in Nat \ {0}
        /\ UNCHANGED <<wp, left, calling, transfers, written, ring, rp, packets, taken, late, asStamped>>
    BY Sizes DEF Test, TimestampIsPlace, TypeOK, Pointers, usbVars
  <1>2. TypeOK'
    BY <1>1, Sizes DEF Test, TypeOK, Slot
  <1>3. Pointers' /\ Aligned' /\ RingIntact' /\ CallBound'
    BY <1>1 DEF Pointers, Aligned, RingIntact, CallBound
  <1>4. CASE Enough
    <2>1. phase' = "read" /\ remain' = Blocksize
      BY <1>1, <1>4 DEF Test
    <2>2. Available <= written - taken
      BY <1>1, ModDistance DEF Available, Pointers
    <2>3. Available \in Int /\ Need \in Int /\ Need <= Available
      <3>1. wp - rp \in Int
        BY Sizes DEF TypeOK, Slot
      <3>2. (wp - rp) % BufferSize \in 0..BufferSize - 1
        BY <1>1, <3>1, DivMod
      <3> QED
        BY <1>1, <1>4, <3>2, Sizes DEF Available, Enough
    <2>4. Blocksize * Decimate = Need
      BY Sizes DEF Need
    <2>5. NeverReadsAhead'
      BY <1>1, <2>1, <2>2, <2>3, <2>4 DEF NeverReadsAhead
    <2>6. Stamp' = packets * Need
      <3>1. (Blocksize - remain') * Decimate = 0
        BY <2>1, Sizes
      <3>2. packets * Need \in Int
        BY Sizes DEF TypeOK
      <3> QED
        BY <1>1, <3>1, <3>2 DEF Stamp
    <2> QED
      BY <1>1, <1>2, <1>3, <2>1, <2>5, <2>6 DEF TimestampIsPlace
  <1>5. CASE ~Enough
    <2>1. phase' = "block"
      BY <1>1, <1>5 DEF Test
    <2> QED
      BY <1>1, <1>2, <1>3, <2>1 DEF TimestampIsPlace, NeverReadsAhead
  <1> QED
    BY <1>4, <1>5

\* Taking a chunk: the samples in it are the ones the timestamp tells.
LEMMA ReadPreserves ==
  ASSUME IInv, ReadChunk
  PROVE  IInv'
  <1> USE DEF IInv
  <1> DEFINE c == Chunk * Decimate
  <1>1. /\ phase = "read" /\ remain > 0 /\ remain \in Nat /\ rp \in Nat
        /\ written \in Nat /\ taken \in Nat /\ packets \in Nat
        /\ rp = taken % BufferSize /\ taken = Stamp
        /\ BufferSize \in Nat \ {0} /\ Decimate \in Nat \ {0}
    BY Sizes DEF ReadChunk, TypeOK, Slot, Pointers, TimestampIsPlace
  <1>2. /\ Chunk \in 1..remain /\ c \in Nat
        /\ rp + c <= BufferSize /\ c <= remain * Decimate
    BY <1>1, ChunkBounds
  <1>3. /\ rp' = (rp + c) % BufferSize /\ taken' = taken + c
        /\ remain' = remain - Chunk
        /\ UNCHANGED <<wp, left, calling, transfers, written, ring, phase, packets, late>>
    BY DEF ReadChunk, usbVars
  <1>4. remain * Decimate \in Nat /\ taken + remain * Decimate <= written
    BY <1>1 DEF NeverReadsAhead
  <1>5. /\ (rp + c) % BufferSize = (taken + c) % BufferSize
         /\ (rp + c) % BufferSize \in Slot
    <2>1. taken \in Int /\ c \in Int
      BY <1>1, <1>2
    <2>2. /\ ((taken % BufferSize) + c) % BufferSize = (taken + c) % BufferSize
          /\ (taken + c) % BufferSize \in Slot
      BY <2>1, Moved
    <2> QED
      BY <1>1, <2>2
  <1>6. TypeOK'
    <2>1. rp' \in Slot
      BY <1>1, <1>3, <1>5
    <2>2. remain' \in 0..Blocksize /\ taken' \in Nat /\ asStamped' \in BOOLEAN
      BY <1>1, <1>2, <1>3, Sizes DEF TypeOK, ReadChunk
    <2> QED
      BY <1>3, <2>1, <2>2 DEF TypeOK
  <1>7. Pointers'
    <2>1. rp' = (taken + c) % BufferSize
      BY <1>3, <1>5
    <2> QED
      BY <1>1, <1>2, <1>3, <1>4, <2>1 DEF Pointers
  <1>8. TimestampIsPlace'
    <2>1. (Blocksize - (remain - Chunk)) * Decimate = (Blocksize - remain) * Decimate + c
      BY <1>1, <1>2, Sizes
    <2>2. packets * Need \in Int /\ (Blocksize - remain) * Decimate \in Int
      BY <1>1, Sizes
    <2>3. Stamp' = Stamp + c
      BY <1>1, <1>2, <1>3, <2>1, <2>2 DEF Stamp
    <2> QED
      BY <1>1, <1>3, <2>3 DEF TimestampIsPlace
  <1>9. Aligned'
    <2>1. PICK k \in Nat : rp = k * Decimate
      BY DEF Aligned
    <2>2. CASE rp + c = BufferSize
      <3>1. rp' = 0 * Decimate
        BY <1>1, <1>3, <2>2
      <3> QED
        BY <3>1, Zenon DEF Aligned
    <2>3. CASE rp + c < BufferSize
      <3>1. rp' = rp + c
        BY <1>1, <1>2, <1>3, <2>3
      <3>2. rp + c = (k + Chunk) * Decimate /\ k + Chunk \in Nat
        BY <1>1, <1>2, <2>1
      <3> QED
        BY <3>1, <3>2 DEF Aligned
    <2> QED
      BY <1>1, <1>2, <2>2, <2>3
  <1>10. NeverReadsAhead'
    <2>1. (remain - Chunk) * Decimate = remain * Decimate - c
      BY <1>1, <1>2
    <2> QED
      BY <1>1, <1>2, <1>3, <1>4, <2>1 DEF NeverReadsAhead
  <1>11. RingIntact'
    <2>1. SUFFICES ASSUME ~late
                   PROVE  /\ written - (taken + c) < BufferSize
                          /\ \A n \in taken + c..written - 1 : ring[n % BufferSize] = n
                          /\ asStamped'
      BY <1>3 DEF RingIntact
    <2>2. /\ written - taken < BufferSize
          /\ \A n \in taken..written - 1 : ring[n % BufferSize] = n
          /\ asStamped
      BY <2>1 DEF RingIntact
    <2>3. ASSUME NEW i \in 0..c - 1 PROVE ring[rp + i] = Stamp + i
      <3>1. i \in Nat /\ rp + i < BufferSize
        BY <1>1, <1>2
      <3>2. (taken + i) % BufferSize = rp + i
        <4>1. taken \in Int /\ i \in Nat /\ (taken % BufferSize) + i < BufferSize
          BY <1>1, <3>1
        <4>2. (taken + i) % BufferSize = (taken % BufferSize) + i
          BY <1>1, <4>1, ModWithin
        <4> QED
          BY <1>1, <4>2
      <3>3. taken + i \in taken..written - 1
        BY <1>1, <1>2, <1>4, <3>1
      <3> QED
        BY <1>1, <2>2, <3>2, <3>3
    <2>4. asStamped'
      BY <2>2, <2>3 DEF ReadChunk
    <2> QED
      BY <1>1, <1>2, <2>2, <2>4
  <1>12. CallBound'
    BY <1>3 DEF CallBound
  <1> QED
    BY <1>6, <1>7, <1>8, <1>9, <1>10, <1>11, <1>12

\* A packet is complete: the next timestamp is that of the next sample.
LEMMA SendPreserves ==
  ASSUME IInv, SendPacket
  PROVE  IInv'
  <1> USE DEF IInv
  <1>1. /\ phase = "read" /\ remain = 0 /\ phase' = "test"
        /\ packets' = packets + 1 /\ packets \in Nat
        /\ UNCHANGED <<wp, left, calling, transfers, written, ring, rp, remain, taken, late, asStamped>>
    BY DEF SendPacket, TypeOK, usbVars
  <1>2. TypeOK' /\ CallBound' /\ Pointers' /\ Aligned' /\ NeverReadsAhead' /\ RingIntact'
    BY <1>1 DEF TypeOK, CallBound, Pointers, Aligned, NeverReadsAhead, RingIntact
  <1>3. taken = packets * Need + Blocksize * Decimate
    BY <1>1, Sizes DEF TimestampIsPlace, Stamp
  <1>4. taken = (packets + 1) * Need
    BY <1>1, <1>3, Sizes DEF Need
  <1> QED
    BY <1>1, <1>2, <1>4 DEF TimestampIsPlace

\* Steps that move no pointer.
LEMMA OthersPreserve ==
  ASSUME IInv,
         StartCallback \/ EndCallback \/ Block \/ SpuriousWakeup \/ UNCHANGED vars
  PROVE  IInv'
  <1> USE DEF IInv
  <1>1. /\ UNCHANGED <<wp, written, ring, rp, remain, packets, taken, late, asStamped>>
        /\ phase' = "read" <=> phase = "read"
    BY DEF StartCallback, EndCallback, Block, SpuriousWakeup, vars, usbVars, mainVars
  <1>2. Pointers' /\ TimestampIsPlace' /\ Aligned' /\ NeverReadsAhead' /\ RingIntact'
    BY <1>1 DEF Pointers, TimestampIsPlace, Stamp, Aligned, NeverReadsAhead, RingIntact
  <1>3. TypeOK'
    <2>1. CASE StartCallback
      BY <2>1, Sizes DEF StartCallback, TypeOK, mainVars
    <2>2. CASE EndCallback
      <3>1. transfers \in 0..MaxTransfers /\ transfers < MaxTransfers /\ MaxTransfers \in Nat
        BY <2>2, RingAssumption DEF EndCallback, TypeOK, CallBound
      <3>2. transfers' \in 0..MaxTransfers
        BY <2>2, <3>1 DEF EndCallback
      <3> QED
        BY <2>2, <3>2 DEF EndCallback, TypeOK
    <2>3. CASE Block
      BY <2>3 DEF Block, TypeOK, usbVars
    <2>4. CASE SpuriousWakeup
      BY <2>4 DEF SpuriousWakeup, TypeOK, usbVars
    <2>5. CASE UNCHANGED vars
      BY <2>5 DEF TypeOK, vars, usbVars, mainVars
    <2> QED
      BY <2>1, <2>2, <2>3, <2>4, <2>5
  <1>4. CallBound'
    BY DEF StartCallback, EndCallback, Block, SpuriousWakeup, CallBound, vars, usbVars
  <1> QED
    BY <1>2, <1>3, <1>4

\* The invariant the properties rest on.
THEOREM Inductive == Spec => []IInv
  <1>1. IInv /\ [Next]_vars => IInv'
    BY StorePreserves, TestPreserves, ReadPreserves, SendPreserves, OthersPreserve
    DEF Next, RxCallback, Main
  <1> QED
    BY <1>1, InitIInv, PTL DEF Spec

\* The variables always have values of their types.
THEOREM TypeCorrect == Spec => []TypeOK
  <1>1. IInv => TypeOK
    BY DEF IInv
  <1> QED
    BY <1>1, Inductive, PTL

\* main never takes a sample that has not been stored, even if the ring has
\* overflowed any number of times.
THEOREM NeverReadsAheadThm == Spec => []NeverReadsAhead
  <1>1. IInv => NeverReadsAhead
    BY DEF IInv
  <1> QED
    BY <1>1, Inductive, PTL

\* The loop that fills a packet always makes progress.
THEOREM ChunkNotEmptyThm == Spec => []ChunkNotEmpty
  <1>1. IInv => ChunkNotEmpty
    <2>1. SUFFICES ASSUME IInv, remain > 0 PROVE Chunk > 0
      BY DEF ChunkNotEmpty
    <2>2. remain \in Nat /\ Chunk \in 1..remain
      BY <2>1, ChunkBounds DEF IInv, TypeOK
    <2> QED
      BY <2>2
  <1> QED
    BY <1>1, Inductive, PTL

\* As long as the ring has never been full, every packet holds exactly the
\* samples its RTP timestamp stands for.
THEOREM StampedUnlessLateThm == Spec => []StampedUnlessLate
  <1>1. IInv => StampedUnlessLate
    BY DEF IInv, RingIntact, StampedUnlessLate
  <1> QED
    BY <1>1, Inductive, PTL

-----------------------------------------------------------------------------
(* The ring of opussend and pcmsend *)

AudioTypes ==
  /\ captured \in Nat /\ Wptr \in 0..AudioSize - 1
  /\ Audiodata \in [0..AudioSize - 1 -> Int]
  /\ rptr \in 0..AudioSize - 1
  /\ frame \in Seq(Int) /\ Len(frame) <= Frame
  /\ rtpOut \in [seq : Nat, timestamp : Nat]
  /\ during \in Nat
  /\ copying \in BOOLEAN /\ behind \in BOOLEAN

\* The ring holds the latest samples captured, each in its slot.
HoldsLatest ==
  \A n \in 0..captured - 1 : captured - n <= AudioSize => Audiodata[n % AudioSize] = n

\* The write pointer as main sees it stands for w samples: at most a frame less
\* than there are.
Published(w) ==
  /\ Wptr = w % AudioSize /\ w <= captured
  /\ captured - w <= IF captured % Frame = 0 THEN Frame ELSE captured % Frame

\* main is never ahead of what it has been told.
NotAhead ==
  /\ \E w \in 0..captured :
       Published(w) /\ rtpOut.timestamp + (IF copying THEN Frame ELSE 0) <= w
  /\ rptr = (rtpOut.timestamp + Len(frame)) % AudioSize

\* The frame being taken begins at k, whole laps after the timestamp: it is
\* complete, and so late as was seen, counting what has been stored since.
TakenFrom(k) ==
  /\ k % AudioSize = rtpOut.timestamp % AudioSize
  /\ k + Frame <= captured
  /\ captured < k + AudioSize \div 2 + Frame + during
  /\ ~behind => k = rtpOut.timestamp
  /\ (~behind \/ during + Frame <= AudioSize \div 2) =>
       \A i \in DOMAIN frame : frame[i] = k + i - 1

FrameHeld == IF copying THEN \E k \in 0..captured : TakenFrom(k) ELSE frame = <<>>

NotYetBehind == ~behind => captured - rtpOut.timestamp < AudioSize \div 2

CInv == AudioTypes /\ HoldsLatest /\ NotAhead /\ FrameHeld /\ NotYetBehind

\* The sizes of the ring and of a frame.
LEMMA AudioSizes ==
  /\ AudioSize \in Nat \ {0} /\ Frame \in Nat \ {0}
  /\ AudioSize \div 2 \in Nat /\ 2 * (AudioSize \div 2) = AudioSize
  /\ 2 * Frame <= AudioSize \div 2
  <1>1. AudioSize \in Nat \ {0} /\ Frame \in Nat \ {0} /\ AudioSize % 2 = 0
        /\ 2 * Frame <= AudioSize \div 2
    BY CaptureAssumption
  <1>2. AudioSize = 2 * (AudioSize \div 2) + (AudioSize % 2)
    BY <1>1, DivMod
  <1>3. AudioSize \div 2 \in Nat
    BY <1>1, DivNat
  <1> QED
    BY <1>1, <1>2, <1>3

\* Samples less than the ring's size apart have slots of their own.
LEMMA OwnSlots ==
  ASSUME NEW a \in Int, NEW b \in Int, a < b, b - a < AudioSize
  PROVE  a % AudioSize # b % AudioSize
  BY AudioSizes, ModDistinct

\* The next sample is in the same frame, or the first of one.
LEMMA NextInFrame ==
  ASSUME NEW c \in Nat
  PROVE  /\ c % Frame \in 0..Frame - 1 /\ (c + 1) % Frame \in 0..Frame - 1
         /\ (c + 1) % Frame = 0 \/ (c + 1) % Frame = (c % Frame) + 1
  <1>1. Frame \in Nat \ {0} /\ c + 1 \in Int
    BY AudioSizes
  <1>2. c % Frame \in 0..Frame - 1 /\ (c + 1) % Frame \in 0..Frame - 1
    BY <1>1, ModRange
  <1>3. CASE (c % Frame) + 1 < Frame
    <2>1. (c + 1) % Frame = (c % Frame) + 1
      <3>1. c \in Int /\ 1 \in Nat /\ Frame \in Nat \ {0} /\ (c % Frame) + 1 < Frame
        BY <1>1, <1>3
      <3> QED
        BY <3>1, ModWithin
    <2> QED
      BY <1>2, <2>1
  <1>4. CASE (c % Frame) + 1 = Frame
    <2>1. ((c % Frame) + 1) % Frame = (c + 1) % Frame
      <3>1. c \in Int /\ 1 \in Int /\ Frame \in Nat \ {0}
        BY <1>1
      <3> QED
        BY <3>1, ModAdd
    <2>2. (Frame * 1 + 0) % Frame = 0
      BY <1>1, ModUnique
    <2>3. Frame % Frame = 0
      BY <1>1, <2>2
    <2> QED
      BY <1>2, <1>4, <2>1, <2>3
  <1> QED
    BY <1>1, <1>2, <1>3, <1>4

\* Whole laps leave the slot the same.
LEMMA WholeLaps ==
  ASSUME NEW m \in Nat \ {0}, NEW t \in Int, NEW q \in Int, NEW k \in Int, k = t + m * q
  PROVE  k % m = t % m
  <1>1. t \div m \in Int /\ t % m \in 0..m - 1 /\ t = m * (t \div m) + (t % m)
    BY DivMod
  <1> DEFINE p == t \div m
             r == t % m
  <1> HIDE DEF p, r
  <1>2. p \in Int /\ r \in 0..m - 1 /\ t = m * p + r
    BY <1>1 DEF p, r
  <1>3. p + q \in Int /\ k = m * (p + q) + r
    BY <1>2
  <1>4. (m * (p + q) + r) % m = r
    BY <1>2, <1>3, ModUnique
  <1> QED
    BY <1>3, <1>4 DEF r

\* The callback stores a sample in the slot of the oldest.
LEMMA StoreAudioKeeps ==
  ASSUME CInv, StoreAudio
  PROVE  CInv'
  <1>1. /\ captured \in Nat /\ captured' = captured + 1
        /\ UNCHANGED <<Wptr, rptr, copying, frame, rtpOut>>
        /\ rtpOut.timestamp \in Nat
    BY DEF CInv, AudioTypes, StoreAudio, senderVars
  <1>2. AudioSize \in Nat \ {0} /\ Frame \in Nat \ {0}
        /\ AudioSize \div 2 \in Nat /\ 2 * (AudioSize \div 2) = AudioSize
        /\ 2 * Frame <= AudioSize \div 2
    BY AudioSizes
  <1>3. captured % AudioSize \in 0..AudioSize - 1
    BY <1>1, <1>2, ModRange
  <1>4. AudioTypes'
    <2>1. Audiodata' \in [0..AudioSize - 1 -> Int]
      BY <1>1, <1>3 DEF CInv, AudioTypes, StoreAudio
    <2>2. during' \in Nat
      BY DEF CInv, AudioTypes, StoreAudio
    <2>3. behind' \in BOOLEAN
      BY DEF CInv, AudioTypes, StoreAudio
    <2> QED
      BY <1>1, <2>1, <2>2, <2>3 DEF CInv, AudioTypes
  <1>5. HoldsLatest'
    <2>1. SUFFICES ASSUME NEW n \in 0..captured, captured + 1 - n <= AudioSize
                   PROVE  Audiodata'[n % AudioSize] = n
      BY <1>1 DEF HoldsLatest
    <2>2. CASE n = captured
      BY <1>3, <2>2 DEF StoreAudio, CInv, AudioTypes
    <2>3. CASE n < captured
      <3>1. n % AudioSize \in 0..AudioSize - 1
        BY <1>1, <1>2, ModRange
      <3>2. n % AudioSize # captured % AudioSize
        <4>1. n \in Int /\ captured \in Int /\ n < captured /\ captured - n < AudioSize
          BY <1>1, <1>2, <2>1, <2>3
        <4> QED
          BY <4>1, OwnSlots
      <3>3. Audiodata[n % AudioSize] = n
        BY <1>1, <1>2, <2>1, <2>3 DEF CInv, HoldsLatest
      <3> QED
        BY <3>1, <3>2, <3>3 DEF StoreAudio, CInv, AudioTypes
    <2> QED
      BY <1>1, <2>2, <2>3
  <1>6. NotAhead'
    <2>1. PICK w \in 0..captured :
            Published(w) /\ rtpOut.timestamp + (IF copying THEN Frame ELSE 0) <= w
      BY DEF CInv, NotAhead
    <2> DEFINE r == captured % Frame
               n == (captured + 1) % Frame
    <2>2. r \in 0..Frame - 1 /\ n \in 0..Frame - 1 /\ (n = 0 \/ n = r + 1)
      BY <1>1, NextInFrame
    <2> HIDE DEF r, n
    <2>3. /\ Wptr = w % AudioSize /\ w <= captured
          /\ captured - w <= IF r = 0 THEN Frame ELSE r
          /\ r = 0 => Wptr = captured % AudioSize
      BY <2>1 DEF Published, StoreAudio, r
    <2>4. r = 0 => w = captured
      <3>1. ASSUME r = 0, w < captured PROVE FALSE
        <4>1. w \in Int /\ captured \in Int /\ w < captured /\ captured - w < AudioSize
          BY <1>1, <1>2, <2>1, <2>3, <3>1
        <4>2. w % AudioSize # captured % AudioSize
          BY <4>1, OwnSlots
        <4> QED
          BY <2>3, <3>1, <4>2
      <3> QED
        BY <1>1, <2>3, <3>1
    <2>5. captured + 1 - w <= IF n = 0 THEN Frame ELSE n
      BY <1>1, <1>2, <2>2, <2>3, <2>4
    <2>6. Published(w)'
      BY <1>1, <2>3, <2>5 DEF Published, n
    <2>7. w \in 0..captured'
      BY <1>1
    <2> QED
      BY <1>1, <2>1, <2>6, <2>7 DEF CInv, NotAhead
  <1>7. FrameHeld'
    <2>1. CASE copying
      <3>1. PICK k \in 0..captured : TakenFrom(k)
        BY <2>1 DEF CInv, FrameHeld
      <3>2. during \in Nat /\ during' = during + 1 /\ (behind => behind')
        BY <2>1 DEF StoreAudio, CInv, AudioTypes
      <3>3. TakenFrom(k)' /\ k \in 0..captured'
        BY <1>1, <1>2, <3>1, <3>2 DEF TakenFrom
      <3> QED
        BY <1>1, <2>1, <3>3 DEF FrameHeld
    <2>2. CASE ~copying
      BY <1>1, <2>2 DEF CInv, FrameHeld
    <2> QED
      BY <2>1, <2>2
  <1>8. NotYetBehind'
    <2>1. ASSUME ~behind' PROVE captured' - rtpOut'.timestamp < AudioSize \div 2
      <3>1. ~(captured + 1 - rtpOut.timestamp >= AudioSize \div 2)
        BY <2>1 DEF StoreAudio
      <3> QED
        BY <1>1, <1>2, <3>1
    <2> QED
      BY <2>1 DEF NotYetBehind
  <1> QED
    BY <1>4, <1>5, <1>6, <1>7, <1>8 DEF CInv

\* main sees the write pointer move.
LEMMA MovePointerKeeps ==
  ASSUME CInv, MovePointer
  PROVE  CInv'
  <1>1. /\ captured \in Nat /\ Wptr' = captured % AudioSize
        /\ UNCHANGED <<captured, Audiodata, rptr, copying, frame, rtpOut, during, behind>>
        /\ rtpOut.timestamp \in Nat
    BY DEF CInv, AudioTypes, MovePointer, senderVars
  <1>2. AudioSize \in Nat \ {0} /\ Frame \in Nat \ {0}
    BY AudioSizes
  <1>3. captured % AudioSize \in 0..AudioSize - 1 /\ captured % Frame \in 0..Frame - 1
    BY <1>1, <1>2, ModRange
  <1>4. AudioTypes'
    BY <1>1, <1>3 DEF CInv, AudioTypes
  <1>5. NotAhead'
    <2>1. PICK w \in 0..captured :
            Published(w) /\ rtpOut.timestamp + (IF copying THEN Frame ELSE 0) <= w
      BY DEF CInv, NotAhead
    <2>2. Published(captured)'
      BY <1>1, <1>2, <1>3 DEF Published
    <2>3. rtpOut.timestamp + (IF copying THEN Frame ELSE 0) <= captured /\ captured \in 0..captured
      BY <1>1, <1>2, <2>1
    <2> QED
      BY <1>1, <2>2, <2>3 DEF CInv, NotAhead
  <1>6. HoldsLatest' /\ NotYetBehind'
    BY <1>1 DEF CInv, HoldsLatest, NotYetBehind
  <1>7. FrameHeld'
    BY <1>1 DEF CInv, FrameHeld, TakenFrom
  <1> QED
    BY <1>4, <1>5, <1>6, <1>7 DEF CInv

\* The sign of the distance of the pointers keeps main a frame behind what it has
\* been told and less than half a ring, though maybe laps after its timestamp.
LEMMA DistanceTold ==
  ASSUME NEW w \in Nat, NEW t \in Nat, t <= w,
         NEW d, d = signmod((w % AudioSize) - (t % AudioSize)), d >= Frame
  PROVE  /\ d \in Nat /\ d < AudioSize \div 2 /\ d <= w - t
         /\ (w - d) % AudioSize = t % AudioSize
         /\ w - t < AudioSize \div 2 => d = w - t
  <1>1. AudioSize \in Nat \ {0} /\ Frame \in Nat \ {0}
        /\ AudioSize \div 2 \in Nat /\ 2 * (AudioSize \div 2) = AudioSize
    BY AudioSizes
  <1> DEFINE x == ((w % AudioSize) - (t % AudioSize)) % AudioSize
             h == AudioSize \div 2
  <1>2. (w % AudioSize) - (t % AudioSize) \in Int
    BY <1>1, ModRange
  <1>3. x \in 0..AudioSize - 1
    BY <1>1, <1>2, ModRange
  <1>4. d = IF x >= h THEN x - AudioSize ELSE x
    BY DEF signmod
  <1>5. x <= w - t
    BY <1>1, ModDistance
  <1>6. x = (w - t) % AudioSize
    <2>1. w \in Int /\ t \in Int /\ AudioSize \in Nat \ {0}
      BY <1>1
    <2> QED
      BY <2>1, ModSubtract
  <1>7. h \in Nat
    BY <1>1
  <1>8. w - t < h => w - t \in 0..AudioSize - 1
    BY <1>1
  <1>9. w - t < h => (w - t) % AudioSize = w - t
    BY <1>1, <1>8, ModSmall
  <1>10. w - t = AudioSize * ((w - t) \div AudioSize) + ((w - t) % AudioSize)
         /\ (w - t) \div AudioSize \in Int
    <2>1. w - t \in Int /\ AudioSize \in Nat \ {0}
      BY <1>1
    <2> QED
      BY <2>1, DivMod
  <1> DEFINE q == (w - t) \div AudioSize
  <1>11. q \in Int /\ w - t = AudioSize * q + x
    BY <1>6, <1>10
  <1> HIDE DEF x, h, q
  <1>12. d = x /\ d < h /\ d \in Nat
    BY <1>1, <1>3, <1>4, <1>7
  <1>13. (w - d) % AudioSize = t % AudioSize
    <2>1. w - d \in Int /\ t \in Int /\ q \in Int /\ w - d = t + AudioSize * q
      BY <1>1, <1>11, <1>12
    <2> QED
      BY <1>1, <2>1, WholeLaps
  <1>14. w - t < h => d = w - t
    BY <1>6, <1>9, <1>12
  <1> QED
    BY <1>5, <1>12, <1>13, <1>14 DEF h

\* main finds a frame.
LEMMA FrameReadyKeeps ==
  ASSUME CInv, FrameReady
  PROVE  CInv'
  <1> DEFINE t == rtpOut.timestamp
  <1>1. /\ captured \in Nat /\ t \in Nat /\ ~copying /\ copying' = TRUE /\ during' = 0
        /\ UNCHANGED <<captured, Wptr, Audiodata, rptr, frame, rtpOut, behind>>
    BY DEF CInv, AudioTypes, FrameReady, sourceVars
  <1>2. /\ AudioSize \in Nat \ {0} /\ Frame \in Nat \ {0}
        /\ AudioSize \div 2 \in Nat
    BY AudioSizes
  <1>3. frame = <<>> /\ Len(frame) = 0 /\ rptr = t % AudioSize
    <2>1. frame = <<>> /\ Len(frame) = 0
      BY <1>1, EmptySeq DEF CInv, FrameHeld
    <2>2. t + Len(frame) = t
      BY <1>1, <2>1
    <2> QED
      BY <2>1, <2>2 DEF CInv, NotAhead
  <1>4. PICK w \in 0..captured : Published(w) /\ t <= w
    BY <1>1 DEF CInv, NotAhead
  <1> DEFINE d == signmod(Wptr - rptr)
  <1>5. d >= Frame /\ d = signmod((w % AudioSize) - (t % AudioSize))
    BY <1>3, <1>4 DEF FrameReady, Published
  <1> HIDE DEF d
  <1>6. /\ d \in Nat /\ d < AudioSize \div 2 /\ d <= w - t
        /\ (w - d) % AudioSize = t % AudioSize
        /\ w - t < AudioSize \div 2 => d = w - t
    BY <1>1, <1>4, <1>5, DistanceTold
  <1>k. PICK k \in Int : k = w - d
    BY <1>1, <1>6
  <1>7. captured - w <= Frame /\ w <= captured
    <2> DEFINE r == captured % Frame
    <2>1. r \in 0..Frame - 1
      BY <1>1, <1>2, ModRange
    <2>2. w <= captured /\ captured - w <= IF r = 0 THEN Frame ELSE r
      BY <1>4 DEF Published
    <2> HIDE DEF r
    <2> QED
      BY <1>1, <1>2, <2>1, <2>2
  <1>8. ~behind => captured - t < AudioSize \div 2
    BY DEF CInv, NotYetBehind
  <1>9. k \in 0..captured /\ k + Frame <= captured /\ t + Frame <= w
        /\ captured < k + AudioSize \div 2 + Frame + 0
    BY <1>1, <1>2, <1>4, <1>5, <1>6, <1>7, <1>k
  <1>10. ~behind => k = t
    BY <1>1, <1>2, <1>4, <1>6, <1>7, <1>8, <1>k
  <1>11. TakenFrom(k)'
    <2>1. DOMAIN frame' = {}
      BY <1>1, <1>3
    <2>2. rtpOut'.timestamp = t /\ k % AudioSize = t % AudioSize
      BY <1>1, <1>6, <1>k
    <2>3. captured' < k + AudioSize \div 2 + Frame + during'
      BY <1>1, <1>9
    <2>4. k + Frame <= captured' /\ (~behind' => k = rtpOut'.timestamp)
      BY <1>1, <1>9, <1>10
    <2> HIDE DEF t
    <2> QED
      BY <2>1, <2>2, <2>3, <2>4 DEF TakenFrom
  <1>12. FrameHeld'
    <2>1. k \in 0..captured' /\ copying'
      BY <1>1, <1>9
    <2>2. \E j \in 0..captured' : TakenFrom(j)'
      BY <1>11, <2>1
    <2> QED
      BY <2>1, <2>2 DEF FrameHeld
  <1>13. NotAhead'
    <2>1. Published(w)'
      BY <1>1, <1>4 DEF Published
    <2> QED
      BY <1>1, <1>9, <2>1 DEF CInv, NotAhead
  <1>14. AudioTypes' /\ HoldsLatest' /\ NotYetBehind'
    BY <1>1 DEF CInv, AudioTypes, HoldsLatest, NotYetBehind
  <1> QED
    BY <1>12, <1>13, <1>14 DEF CInv

\* main takes a sample, which has not been overwritten.
LEMMA CopySampleKeeps ==
  ASSUME CInv, CopySample
  PROVE  CInv'
  <1> DEFINE t == rtpOut.timestamp
             n == Len(frame)
             x == Audiodata[rptr]
  <1>1. /\ captured \in Nat /\ t \in Nat /\ copying /\ n < Frame /\ during \in Nat
        /\ UNCHANGED <<captured, Wptr, Audiodata, copying, rtpOut, during, behind>>
        /\ frame' = Append(frame, x) /\ rptr' = (rptr + 1) % AudioSize
    BY DEF CInv, AudioTypes, CopySample, sourceVars
  <1>2. /\ AudioSize \in Nat \ {0} /\ Frame \in Nat \ {0}
        /\ AudioSize \div 2 \in Nat /\ 2 * (AudioSize \div 2) = AudioSize
    BY AudioSizes
  <1>3. frame \in Seq(Int) /\ x \in Int /\ n \in Nat
    <2>1. /\ frame \in Seq(Int) /\ rptr \in 0..AudioSize - 1
          /\ Audiodata \in [0..AudioSize - 1 -> Int]
      BY DEF CInv, AudioTypes
    <2>2. x \in Int
      BY <2>1
    <2>3. n \in Nat
      BY <2>1, LenProperties
    <2> QED
      BY <2>1, <2>2, <2>3
  <1>4. /\ frame' \in Seq(Int) /\ Len(frame') = n + 1
        /\ \A i \in 1..n : frame'[i] = frame[i]
        /\ frame'[n + 1] = x
        /\ DOMAIN frame = 1..n /\ DOMAIN frame' = 1..n + 1
    <2>1. \A y \in Int : /\ Append(frame, y) \in Seq(Int) /\ Len(Append(frame, y)) = n + 1
                       /\ \A i \in 1..n : Append(frame, y)[i] = frame[i]
                       /\ Append(frame, y)[n + 1] = y
      BY <1>3, AppendProperties
    <2>2. \A s \in Seq(Int) : DOMAIN s = 1..Len(s)
      OBVIOUS
    <2> QED
      BY <1>1, <1>3, <2>1, <2>2
  <1>5. rptr = (t + n) % AudioSize /\ rptr' = (t + (n + 1)) % AudioSize
    <2>1. rptr = (t + n) % AudioSize
      BY DEF CInv, NotAhead
    <2> HIDE DEF t, n
    <2>2. t + n \in Int /\ 1 \in Int /\ AudioSize \in Nat \ {0} /\ (t + n) + 1 = t + (n + 1)
      <3>1. t \in Nat /\ n \in Nat
        BY <1>1, <1>3
      <3> QED
        BY <1>2, <3>1
    <2>3. (((t + n) % AudioSize) + 1) % AudioSize = ((t + n) + 1) % AudioSize
      BY <2>2, ModAdd
    <2> QED
      BY <1>1, <2>1, <2>2, <2>3
  <1>6. PICK k \in 0..captured : TakenFrom(k)
    BY <1>1 DEF CInv, FrameHeld
  <1> HIDE DEF t, n, x
  <1>7. ~behind \/ during + Frame <= AudioSize \div 2 => x = k + n
    <2>1. (k + n) % AudioSize = (t + n) % AudioSize
      <3>1. k \in Int /\ t \in Int /\ n \in Int /\ AudioSize \in Nat \ {0}
        BY <1>1, <1>2, <1>3
      <3>2. ((k % AudioSize) + n) % AudioSize = (k + n) % AudioSize
        BY <3>1, ModAdd
      <3>3. ((t % AudioSize) + n) % AudioSize = (t + n) % AudioSize
        BY <3>1, ModAdd
      <3> QED
        BY <1>6, <3>2, <3>3 DEF TakenFrom, t
    <2>2. ASSUME ~behind \/ during + Frame <= AudioSize \div 2
          PROVE  k + n \in 0..captured - 1 /\ captured - (k + n) <= AudioSize
      <3>1. /\ k + Frame <= captured
            /\ captured < k + AudioSize \div 2 + Frame + during
            /\ ~behind => k = t
            /\ ~behind => captured - t < AudioSize \div 2
        BY <1>6 DEF TakenFrom, CInv, NotYetBehind, t
      <3> QED
        BY <1>1, <1>2, <1>3, <2>2, <3>1
    <2>3. ASSUME ~behind \/ during + Frame <= AudioSize \div 2 PROVE x = k + n
      <3>1. Audiodata[(k + n) % AudioSize] = k + n
        BY <2>2, <2>3 DEF CInv, HoldsLatest
      <3> QED
        BY <1>5, <2>1, <3>1 DEF x
    <2> QED
      BY <2>3
  <1>8. TakenFrom(k)'
    <2>1. ASSUME ~behind \/ during + Frame <= AudioSize \div 2, NEW i \in DOMAIN frame'
          PROVE  frame'[i] = k + i - 1
      <3>1. CASE i \in 1..n
        BY <1>1, <1>4, <1>6, <2>1, <3>1 DEF TakenFrom
      <3>2. CASE i = n + 1
        BY <1>3, <1>4, <1>6, <1>7, <2>1, <3>2
      <3> QED
        BY <1>3, <1>4, <2>1, <3>1, <3>2
    <2> QED
      BY <1>1, <1>6, <2>1 DEF TakenFrom
  <1>9. FrameHeld'
    BY <1>1, <1>6, <1>8 DEF FrameHeld
  <1>10. AudioTypes'
    <2>1. rptr + 1 \in Int
      BY DEF CInv, AudioTypes
    <2>2. rptr' \in 0..AudioSize - 1
      BY <1>1, <1>2, <2>1, ModRange
    <2>3. frame' \in Seq(Int) /\ Len(frame') <= Frame
      BY <1>1, <1>2, <1>3, <1>4
    <2> QED
      BY <1>1, <2>2, <2>3 DEF CInv, AudioTypes
  <1>11. HoldsLatest' /\ NotYetBehind'
    BY <1>1 DEF CInv, HoldsLatest, NotYetBehind
  <1>12. NotAhead'
    BY <1>1, <1>4, <1>5 DEF CInv, NotAhead, Published, t
  <1> QED
    BY <1>9, <1>10, <1>11, <1>12 DEF CInv

\* The frame has gone; the timestamp counts it.
LEMMA SendKeeps ==
  ASSUME CInv, SendOpus \/ SendPcm
  PROVE  CInv'
  <1> DEFINE t == rtpOut.timestamp
  <1>1. /\ captured \in Nat /\ t \in Nat /\ copying /\ ~copying' /\ Len(frame) = Frame
        /\ frame' = <<>> /\ Len(frame') = 0 /\ rtpOut'.timestamp = t + Frame
        /\ UNCHANGED <<captured, Wptr, Audiodata, rptr, during, behind>>
    BY EmptySeq DEF CInv, AudioTypes, SendOpus, SendPcm, sourceVars
  <1>2. AudioSize \in Nat \ {0} /\ Frame \in Nat \ {0}
    BY AudioSizes
  <1>3. rtpOut' \in [seq : Nat, timestamp : Nat] /\ copying' \in BOOLEAN
    <2>1. rtpOut.seq \in Nat /\ t + Frame \in Nat
      BY <1>1, <1>2 DEF CInv, AudioTypes
    <2>2. PICK gone \in {0, 1} :
            rtpOut' = [seq |-> rtpOut.seq + gone, timestamp |-> t + Frame]
      BY DEF SendOpus, SendPcm
    <2>3. copying' \in BOOLEAN
      BY DEF SendOpus, SendPcm
    <2>4. rtpOut.seq + gone \in Nat
      BY <2>1, <2>2
    <2> QED
      BY <2>1, <2>2, <2>3, <2>4
  <1>4. AudioTypes'
    <2>1. frame' \in Seq(Int) /\ Len(frame') <= Frame
      BY <1>1, <1>2
    <2> QED
      BY <1>1, <1>3, <2>1 DEF CInv, AudioTypes
  <1>5. NotAhead'
    <2>1. PICK w \in 0..captured : Published(w) /\ t + Frame <= w
      BY <1>1 DEF CInv, NotAhead
    <2>2. rptr = (t + Frame) % AudioSize /\ (t + Frame) + 0 = t + Frame
      BY <1>1, <1>2 DEF CInv, NotAhead
    <2>3. Published(w)' /\ t + Frame + 0 <= w
      BY <1>1, <1>2, <2>1 DEF Published
    <2> HIDE DEF t
    <2> QED
      BY <1>1, <2>2, <2>3 DEF NotAhead
  <1>6. FrameHeld' /\ HoldsLatest'
    BY <1>1 DEF FrameHeld, CInv, HoldsLatest
  <1>7. NotYetBehind'
    <2>1. AudioSize \div 2 \in Nat
      BY AudioSizes
    <2> QED
      BY <1>1, <1>2, <2>1 DEF CInv, NotYetBehind
  <1> QED
    BY <1>4, <1>5, <1>6, <1>7 DEF CInv

\* A packet of captured audio is one piece of what was captured, and its timestamp
\* tells which, with no lock between the callback and main.
THEOREM FramesAsCapturedThm == CaptureSpec => []FramesAsCaptured
  <1>1. CaptureInit => CInv
    <2>1. SUFFICES ASSUME CaptureInit PROVE CInv
      OBVIOUS
    <2>2. /\ AudioSize \in Nat \ {0} /\ Frame \in Nat \ {0}
          /\ AudioSize \div 2 \in Nat /\ 2 * Frame <= AudioSize \div 2
      BY AudioSizes
    <2>3. <<>> \in Seq(Int) /\ Len(<<>>) = 0
      BY EmptySeq
    <2>4. 0 % AudioSize = 0 /\ 0 % Frame = 0
      <3>1. 0 \in 0..AudioSize - 1 /\ 0 \in 0..Frame - 1
        BY <2>2
      <3> QED
        BY <2>2, <3>1, ModSmall
    <2>5. AudioTypes
      <3>1. Audiodata \in [0..AudioSize - 1 -> Int]
        <4>1. Audiodata = [i \in 0..AudioSize - 1 |-> NoSample]
          BY <2>1 DEF CaptureInit
        <4>2. NoSample \in Int
          BY DEF NoSample
        <4> QED
          BY <4>1, <4>2
      <3>2. captured \in Nat /\ during \in Nat /\ rtpOut \in [seq : Nat, timestamp : Nat]
        BY <2>1 DEF CaptureInit
      <3>3. frame \in Seq(Int) /\ Len(frame) <= Frame
        <4>1. frame = <<>>
          BY <2>1 DEF CaptureInit
        <4>2. <<>> \in Seq(Int)
          OBVIOUS
        <4> QED
          BY <2>2, <2>3, <4>1, <4>2
      <3>4. Wptr \in 0..AudioSize - 1 /\ rptr \in 0..AudioSize - 1
        <4>1. Wptr = 0 /\ rptr = 0
          BY <2>1 DEF CaptureInit
        <4> QED
          BY <2>2, <4>1
      <3>5. copying \in BOOLEAN /\ behind \in BOOLEAN
        BY <2>1 DEF CaptureInit
      <3> QED
        BY <3>1, <3>2, <3>3, <3>4, <3>5 DEF AudioTypes
    <2>6. captured = 0 /\ Wptr = 0 /\ rptr = 0 /\ ~copying /\ frame = <<>> /\ Len(frame) = 0
          /\ rtpOut.timestamp = 0
      BY <2>1, <2>3 DEF CaptureInit
    <2>7. NotAhead
      <3>1. Published(0)
        BY <2>2, <2>4, <2>6 DEF Published
      <3>2. rptr = (rtpOut.timestamp + Len(frame)) % AudioSize
        BY <2>4, <2>6
      <3> QED
        BY <2>6, <3>1, <3>2 DEF NotAhead
    <2>8. HoldsLatest
      BY <2>6 DEF HoldsLatest
    <2>9. FrameHeld /\ NotYetBehind
      BY <2>2, <2>6 DEF FrameHeld, NotYetBehind
    <2> QED
      BY <2>5, <2>7, <2>8, <2>9 DEF CInv
  <1>2. CInv /\ [CaptureNext]_captureVars => CInv'
    <2>1. ASSUME CInv, UNCHANGED audioVars PROVE CInv'
      BY <2>1 DEF CInv, AudioTypes, HoldsLatest, NotAhead, Published, FrameHeld, TakenFrom,
         NotYetBehind, audioVars, sourceVars, senderVars
    <2> QED
      BY <2>1, StoreAudioKeeps, MovePointerKeeps, FrameReadyKeeps, CopySampleKeeps, SendKeeps
      DEF CaptureNext, Capture, captureVars
  <1>3. CInv => FramesAsCaptured
    <2>1. SUFFICES ASSUME CInv, NEW i \in DOMAIN frame
                   PROVE  /\ during + Frame <= AudioSize \div 2 => frame[i] = frame[1] + i - 1
                          /\ ~behind => frame[i] = rtpOut.timestamp + i - 1
      BY DEF FramesAsCaptured
    <2>2. frame \in Seq(Int) /\ frame # <<>>
      BY <2>1 DEF CInv, AudioTypes
    <2>3. 1 \in DOMAIN frame /\ i \in Nat
      BY <2>1, <2>2
    <2>4. PICK k \in 0..captured : TakenFrom(k)
      BY <2>1, <2>2 DEF CInv, FrameHeld
    <2>5. captured \in Nat
      BY <2>1 DEF CInv, AudioTypes
    <2> QED
      BY <2>1, <2>3, <2>4, <2>5 DEF TakenFrom
  <1> QED
    BY <1>1, <1>2, <1>3, PTL DEF CaptureSpec

\* The front ends beside them keep their promise whatever program is modelled.
THEOREM StampedInCapture == CaptureSpec => []StampedUnlessLate
  <1>1. CaptureInit => IInv
    BY InitIInv DEF CaptureInit
  <1>2. IInv /\ [CaptureNext]_captureVars => IInv'
    <2>1. [CaptureNext]_captureVars => [Next]_vars
      BY DEF CaptureNext, captureVars
    <2> QED
      BY <2>1, StorePreserves, TestPreserves, ReadPreserves, SendPreserves, OthersPreserve
      DEF Next, RxCallback, Main
  <1>3. IInv => StampedUnlessLate
    BY DEF IInv, RingIntact, StampedUnlessLate
  <1> QED
    BY <1>1, <1>2, <1>3, PTL DEF CaptureSpec

-----------------------------------------------------------------------------
(* The playout ring of monitor *)

\* Stream and read pointer have come as far as their counts tell.
Counts ==
  /\ clock <= sent * (PacketSize + MaxSilence)
  /\ Rptr + frames = callbacks * Frames
  /\ unplayed <= Rptr /\ start.rptr <= Rptr

\* Whatever is in a slot is meant for it, for this time round.
RingSound ==
  ~overtaken /\ ~overfull =>
    /\ asDue
    /\ \A s \in OutputSlot : \A due \in Output_buffer[s] :
         /\ due % RingSize = s
         /\ Rptr - unplayed <= due /\ due < Rptr - unplayed + RingSize

\* What decode_task knows of its packet.
TaskSound ==
  /\ stage # "wait" => pkt \in Packet
  /\ stage = "test" =>
       wptr = start.rptr + start.upper + StampOf(pkt) - start.timestamp + start.playout
  /\ stage = "resync" => start.timestamp = StampOf(pkt) /\ start.playout = Playout
  /\ stage = "write" => wptr \in Nat

\* The upper part of the timestamp counts whole turns.
WholeTurns == \E j \in Nat : start.upper = TimeMod * j

\* The place of the first packet after a new placement and its timestamp belong
\* together.
Anchored ==
  ~split /\ ~reset /\ stage # "resync" =>
    /\ \E k \in Int : start.rptr + start.playout - start.timestamp
                        = offset - FirstStamp + TimeMod * k
    /\ -MaxPlace <= offset /\ offset <= Rptr + Playout

PlayoutInv == PlayoutTypes /\ Counts /\ RingSound /\ TaskSound /\ WholeTurns /\ Anchored

\* The sizes are whole numbers, and a chunk is smaller than the ring.
LEMMA PlayoutSizes ==
  /\ SeqMod \in Nat \ {0} /\ TimeMod \in Nat \ {0} /\ RingSize \in Nat \ {0}
  /\ Frames \in Nat \ {0} /\ PacketSize \in Nat \ {0} /\ PacketSize + MaxSilence \in Nat
  /\ Playout \in Nat /\ FirstSeq \in Nat /\ FirstStamp \in Nat /\ MaxSilence \in Nat
  /\ MaxPackets \in Nat /\ MaxCallbacks \in Nat /\ MaxResets \in Nat
  /\ Frames < RingSize /\ Silences \subseteq 0..MaxSilence
  /\ MaxPlace \in Nat /\ MaxRptr \in Nat
  /\ MaxPlace + MaxRptr + RingSize + Playout < TimeMod
  <1>1. /\ SeqMod \in Nat \ {0} /\ TimeMod \in Nat \ {0} /\ RingSize \in Nat \ {0}
        /\ Frames \in Nat \ {0} /\ PacketSize \in Nat \ {0}
        /\ Playout \in Nat /\ FirstSeq \in Nat /\ FirstStamp \in Nat /\ MaxSilence \in Nat
        /\ MaxPackets \in Nat /\ MaxCallbacks \in Nat /\ MaxResets \in Nat
        /\ Frames < RingSize \div 2 /\ Silences \subseteq 0..MaxSilence
        /\ MaxPlace + MaxRptr + RingSize + Playout < TimeMod
    BY PlayoutAssumption
  <1>2. /\ RingSize \div 2 \in Int /\ RingSize % 2 \in 0..1
        /\ RingSize = 2 * (RingSize \div 2) + (RingSize % 2)
    BY <1>1, DivMod
  <1>3. PacketSize + MaxSilence \in Nat
    BY <1>1
  <1>4. MaxPlace \in Nat /\ MaxRptr \in Nat
    BY <1>1, <1>3 DEF MaxPlace, MaxRptr
  <1> QED
    BY <1>1, <1>2, <1>3, <1>4

\* A timestamp is the place in the stream, but for whole turns.
LEMMA StampTells ==
  ASSUME NEW p, p.at \in Nat
  PROVE  /\ StampOf(p) \in 0..TimeMod - 1
         /\ \E k \in Int : StampOf(p) = FirstStamp + p.at - TimeMod * k
  <1>1. TimeMod \in Nat \ {0} /\ FirstStamp \in Nat
    BY PlayoutSizes
  <1>2. PICK a \in Int : a = FirstStamp + p.at
    BY <1>1
  <1>3. a \div TimeMod \in Int /\ a % TimeMod \in 0..TimeMod - 1
        /\ a = TimeMod * (a \div TimeMod) + (a % TimeMod)
    BY <1>1, DivMod
  <1>4. StampOf(p) = a % TimeMod
    BY <1>2 DEF StampOf
  <1>5. PICK k \in Int : k = a \div TimeMod
    BY <1>3
  <1>6. TimeMod * k \in Int
    BY <1>1
  <1>7. StampOf(p) = a - TimeMod * k
    BY <1>1, <1>3, <1>4, <1>5, <1>6
  <1>8. StampOf(p) \in 0..TimeMod - 1
    BY <1>3, <1>4
  <1>9. StampOf(p) = FirstStamp + p.at - TimeMod * k
    BY <1>1, <1>2, <1>7
  <1> QED
    BY <1>8, <1>9, Zenon

\* Fewer packets end no later.
LEMMA PlaceBounds ==
  ASSUME NEW n \in Nat, NEW m \in Nat, n <= m
  PROVE  /\ n * (PacketSize + MaxSilence) \in Nat /\ m * (PacketSize + MaxSilence) \in Nat
         /\ n * (PacketSize + MaxSilence) <= m * (PacketSize + MaxSilence)
         /\ (n + 1) * (PacketSize + MaxSilence)
              = n * (PacketSize + MaxSilence) + PacketSize + MaxSilence
  <1> DEFINE w == PacketSize + MaxSilence
             d == m - n
  <1>1. w \in Nat /\ d \in Nat /\ m = n + d /\ PacketSize \in Nat /\ MaxSilence \in Nat
    BY PlayoutSizes
  <1> HIDE DEF w, d
  <1>2. n * w \in Nat /\ d * w \in Nat /\ m * w = n * w + d * w /\ (n + 1) * w = n * w + w
    BY <1>1
  <1>3. n * w <= m * w /\ m * w \in Nat
    BY <1>2
  <1> QED
    BY <1>1, <1>2, <1>3 DEF w

\* The same for the read pointer.
LEMMA RptrBounds ==
  ASSUME PlayoutTypes, Counts
  PROVE  Rptr <= MaxRptr /\ (callbacks + 1) * Frames = callbacks * Frames + Frames
  <1>1. callbacks \in Nat /\ callbacks <= MaxCallbacks /\ MaxCallbacks \in Nat /\ Frames \in Nat
        /\ Rptr \in Nat /\ frames \in Nat /\ Rptr + frames = callbacks * Frames
    BY PlayoutSizes DEF PlayoutTypes, Counts
  <1> DEFINE d == MaxCallbacks - callbacks
  <1>2. d \in Nat /\ MaxCallbacks = callbacks + d
    BY <1>1
  <1> HIDE DEF d
  <1>3. d * Frames \in Nat /\ callbacks * Frames \in Nat
        /\ MaxCallbacks * Frames = callbacks * Frames + d * Frames
        /\ (callbacks + 1) * Frames = callbacks * Frames + Frames
    BY <1>1, <1>2
  <1> QED
    BY <1>1, <1>3 DEF MaxRptr

\* In the beginning nothing is written.
LEMMA PlayoutBegins ==
  ASSUME PlayoutInit
  PROVE  PlayoutInv
  <1>1. TimeMod * 0 = 0 /\ 0 \in Nat
    BY PlayoutSizes
  <1>2. PlayoutTypes
    <2>1. start \in [rptr: Nat, timestamp: 0..TimeMod - 1, upper: Nat, playout: {0, Playout}]
      BY PlayoutSizes DEF PlayoutInit
    <2>2. /\ queue \in Seq(Packet) /\ net \subseteq Packet
          /\ Output_buffer \in [OutputSlot -> SUBSET Nat]
      BY DEF PlayoutInit
    <2>3. /\ wptr \in Int /\ offset \in Int /\ Rptr \in Nat
          /\ sent \in 0..MaxPackets /\ clock \in 0..MaxPlace /\ done \in 0..PacketSize - 1
          /\ unplayed \in 0..Frames /\ frames \in 0..Frames
          /\ callbacks \in 0..MaxCallbacks /\ resets \in 0..MaxResets
      BY PlayoutSizes DEF PlayoutInit, NoOffset
    <2>4. /\ stage \in {"wait", "test", "resync", "write"} /\ pkt = NoPacket /\ newest = NoPacket
          /\ {reset, split, overtaken, overfull, asDue} \subseteq BOOLEAN
      BY DEF PlayoutInit
    <2> QED
      BY <2>1, <2>2, <2>3, <2>4 DEF PlayoutTypes
  <1>3. 0 * (PacketSize + MaxSilence) = 0 /\ 0 * Frames = 0
    BY PlayoutSizes
  <1>4. WholeTurns
    BY <1>1 DEF PlayoutInit, WholeTurns
  <1> QED
    BY <1>2, <1>3, <1>4 DEF PlayoutInit, PlayoutInv, Counts, RingSound, TaskSound, Anchored

\* A packet is sent, or taken from the network into the queue.
LEMMA SendAudioKeeps ==
  ASSUME PlayoutInv, SendAudio
  PROVE  PlayoutInv'
  <1>1. PICK quiet \in Silences :
          LET p == [idx |-> sent, at |-> clock + quiet, marker |-> quiet > 0]
          IN  (net' = net \cup {p} \/ UNCHANGED net) /\ clock' = p.at + PacketSize
    BY DEF SendAudio
  <1> DEFINE p == [idx |-> sent, at |-> clock + quiet, marker |-> quiet > 0]
  <1>2. /\ sent < MaxPackets /\ sent' = sent + 1 /\ net' \subseteq net \cup {p}
        /\ clock' = clock + quiet + PacketSize
        /\ UNCHANGED <<queue, taskVars, reset, resets, playVars, ringVars>>
    BY <1>1 DEF SendAudio
  <1>3. /\ sent \in Nat /\ sent \in 0..MaxPackets - 1 /\ clock \in Nat /\ quiet \in Nat
        /\ quiet <= MaxSilence /\ clock <= sent * (PacketSize + MaxSilence)
    BY <1>2, PlayoutSizes DEF PlayoutInv, PlayoutTypes, Counts
  <1>4. /\ (sent + 1) * (PacketSize + MaxSilence)
             = sent * (PacketSize + MaxSilence) + PacketSize + MaxSilence
        /\ (sent + 1) * (PacketSize + MaxSilence) <= MaxPlace
        /\ sent * (PacketSize + MaxSilence) \in Nat
    <2>1. sent + 1 \in Nat /\ sent + 1 <= MaxPackets /\ MaxPackets \in Nat /\ sent <= sent + 1
      BY <1>3, PlayoutSizes
    <2>2. (sent + 1) * (PacketSize + MaxSilence) <= MaxPackets * (PacketSize + MaxSilence)
      BY <2>1, PlaceBounds
    <2> QED
      BY <1>3, <2>1, <2>2, PlaceBounds DEF MaxPlace
  <1>5. /\ clock' \in 0..MaxPlace /\ clock + quiet \in 0..MaxPlace
        /\ clock' <= (sent + 1) * (PacketSize + MaxSilence)
    BY <1>2, <1>3, <1>4, PlayoutSizes
  <1>6. p \in Packet
    BY <1>3, <1>5 DEF Packet
  <1> HIDE DEF p
  <1>7. PlayoutTypes'
    <2>1. sent' \in 0..MaxPackets /\ clock' \in 0..MaxPlace /\ net' \subseteq Packet
      <3>1. net \subseteq Packet /\ MaxPackets \in Nat
        BY PlayoutSizes DEF PlayoutInv, PlayoutTypes
      <3> QED
        BY <1>2, <1>3, <1>5, <1>6, <3>1
    <2> QED
      BY <1>2, <2>1 DEF PlayoutInv, PlayoutTypes, taskVars, playVars, ringVars
  <1>8. Counts'
    BY <1>2, <1>5 DEF PlayoutInv, Counts, taskVars, playVars
  <1>9. RingSound' /\ TaskSound' /\ Anchored'
    BY <1>2 DEF PlayoutInv, RingSound, TaskSound, Anchored, taskVars, playVars, ringVars
  <1>10. WholeTurns'
    BY <1>2 DEF PlayoutInv, WholeTurns, taskVars
  <1> QED
    BY <1>7, <1>8, <1>9, <1>10 DEF PlayoutInv

\* sockproc puts it among the others.
LEMMA EnqueueKeeps ==
  ASSUME PlayoutInv, NEW p \in net, Enqueue(p)
  PROVE  PlayoutInv'
  <1>1. PICK i \in 1..Len(queue) + 1 : queue' = SE!InsertAt(queue, i, p)
    BY DEF Enqueue
  <1>2. net' = net \ {p} /\ UNCHANGED <<sendVars, taskVars, reset, resets, playVars, ringVars>>
    BY DEF Enqueue
  <1>3. queue \in Seq(Packet) /\ net \subseteq Packet /\ p \in Packet
    BY DEF PlayoutInv, PlayoutTypes
  <1>4. queue' \in Seq(Packet)
    <2>1. Len(queue) \in Nat /\ <<p>> \in Seq(Packet)
      BY <1>3, LenProperties
    <2>2. SubSeq(queue, 1, i - 1) \in Seq(Packet)
      BY <1>3, <2>1, SubSeqProperties
    <2>3. SubSeq(queue, i, Len(queue)) \in Seq(Packet)
      BY <1>3, <2>1, SubSeqProperties
    <2>4. queue' = SubSeq(queue, 1, i - 1) \o <<p>> \o SubSeq(queue, i, Len(queue))
      BY <1>1 DEF SE!InsertAt
    <2>5. SubSeq(queue, 1, i - 1) \o <<p>> \in Seq(Packet)
      BY <2>1, <2>2, ConcatProperties
    <2> QED
      BY <2>3, <2>4, <2>5, ConcatProperties
  <1>5. PlayoutTypes'
    BY <1>2, <1>3, <1>4 DEF PlayoutInv, PlayoutTypes, sendVars, taskVars, playVars, ringVars
  <1>6. Counts' /\ RingSound' /\ TaskSound' /\ Anchored'
    BY <1>2 DEF PlayoutInv, Counts, RingSound, TaskSound, Anchored, sendVars, taskVars,
                playVars, ringVars
  <1>7. WholeTurns'
    BY <1>2 DEF PlayoutInv, WholeTurns, taskVars
  <1> QED
    BY <1>5, <1>6, <1>7 DEF PlayoutInv

\* decode_task takes a packet: its place is that of its timestamp.
LEMMA TakeKeeps ==
  ASSUME PlayoutInv, Take
  PROVE  PlayoutInv'
  <1> DEFINE p == Head(queue)
             u == Upper(p)
  <1>1. /\ queue # <<>> /\ queue' = Tail(queue) /\ pkt' = p
        /\ start' = [start EXCEPT !.upper = u]
        /\ wptr' = start.rptr + Elapsed(p, start'.upper) + start.playout
        /\ stage' = "test"
        /\ UNCHANGED <<sendVars, net, done, offset, newest, split, reset, resets, playVars,
                       ringVars>>
    BY DEF Take
  <1>2. /\ queue \in Seq(Packet)
        /\ start \in [rptr: Nat, timestamp: 0..TimeMod - 1, upper: Nat, playout: {0, Playout}]
        /\ start.upper \in Nat /\ TimeMod \in Nat \ {0} /\ Playout \in Nat /\ MaxPlace \in Nat
    BY PlayoutSizes DEF PlayoutInv, PlayoutTypes
  <1>3. p \in Packet /\ queue' \in Seq(Packet) /\ p.at \in Nat
    <2>1. p \in Packet /\ queue' \in Seq(Packet)
      BY <1>1, <1>2, HeadTailProperties
    <2> QED
      BY <1>2, <2>1 DEF Packet
  <1> HIDE DEF p
  <1>4. u \in Nat /\ \E j \in Nat : u = TimeMod * j
    <2>1. u = start.upper \/ u = start.upper + TimeMod
      BY DEF Upper
    <2>2. PICK j \in Nat : start.upper = TimeMod * j
      BY DEF PlayoutInv, WholeTurns
    <2> HIDE DEF u
    <2>3. TimeMod * (j + 1) = TimeMod * j + TimeMod /\ j + 1 \in Nat
      BY <1>2
    <2>4. u = TimeMod * j \/ u = TimeMod * (j + 1)
      BY <2>1, <2>2, <2>3
    <2>5. u \in Nat
      BY <1>2, <2>1
    <2> QED
      BY <2>3, <2>4, <2>5
  <1> HIDE DEF u
  <1>5. StampOf(p) \in 0..TimeMod - 1
    BY <1>3, StampTells
  <1>6. /\ start' \in [rptr: Nat, timestamp: 0..TimeMod - 1, upper: Nat, playout: {0, Playout}]
        /\ start'.upper = u /\ start'.rptr = start.rptr /\ start'.timestamp = start.timestamp
        /\ start'.playout = start.playout
    BY <1>1, <1>2, <1>4
  <1>7. /\ wptr' = start.rptr + u + StampOf(p) - start.timestamp + start.playout
        /\ wptr' \in Int
    <2>1. /\ start.rptr \in Int /\ start.timestamp \in Int /\ start.playout \in Int
          /\ u \in Int /\ StampOf(p) \in Int
      BY <1>2, <1>4, <1>5
    <2>2. wptr' = start.rptr + Elapsed(p, u) + start.playout
      BY <1>1, <1>6
    <2>3. Elapsed(p, u) = u + StampOf(p) - start.timestamp
      BY DEF Elapsed
    <2> QED
      BY <2>1, <2>2, <2>3
  <1>8. PlayoutTypes'
    BY <1>1, <1>3, <1>4, <1>6, <1>7 DEF PlayoutInv, PlayoutTypes, sendVars, playVars, ringVars
  <1>9. Counts' /\ RingSound'
    BY <1>1, <1>6 DEF PlayoutInv, Counts, RingSound, sendVars, playVars, ringVars
  <1>10. TaskSound'
    BY <1>1, <1>3, <1>6, <1>7 DEF TaskSound, StampOf
  <1>12. WholeTurns'
    BY <1>4, <1>6 DEF WholeTurns
  <1>11. Anchored'
    <2>1. stage # "resync"
      BY DEF Take
    <2> QED
      BY <1>1, <1>6, <2>1 DEF PlayoutInv, Anchored, playVars
  <1> QED
    BY <1>8, <1>9, <1>10, <1>11, <1>12 DEF PlayoutInv

\* A packet whose place is in the ring is where the one before it said: nothing is
\* a turn of the timestamp away.
LEMMA KeptInStep ==
  ASSUME PlayoutInv, Keep
  PROVE  wptr \in Nat /\ (~split => wptr - pkt.at = offset)
  <1>1. stage = "test" /\ ~reset /\ wptr <= Rptr + RingSize /\ wptr >= Rptr
    BY DEF Keep, InRing
  <1>2. /\ start \in [rptr: Nat, timestamp: 0..TimeMod - 1, upper: Nat, playout: {0, Playout}]
        /\ start.upper \in Nat /\ wptr \in Int /\ Rptr \in Nat /\ offset \in Int
        /\ PlayoutTypes /\ Counts /\ TaskSound /\ Anchored
    BY DEF PlayoutInv, PlayoutTypes
  <1>3. /\ TimeMod \in Nat \ {0} /\ RingSize \in Nat /\ Playout \in Nat /\ MaxPlace \in Nat
        /\ FirstStamp \in Nat /\ MaxRptr \in Nat
        /\ MaxPlace + MaxRptr + RingSize + Playout < TimeMod
    BY PlayoutSizes
  <1>4. /\ pkt.at \in 0..MaxPlace
        /\ wptr = start.rptr + start.upper + StampOf(pkt) - start.timestamp + start.playout
    BY <1>1, <1>2 DEF TaskSound, Packet
  <1>5. SUFFICES ASSUME ~split
                 PROVE  wptr - pkt.at = offset
    BY <1>1, <1>2
  <1>6. PICK k \in Int : start.rptr + start.playout - start.timestamp
                           = offset - FirstStamp + TimeMod * k
    BY <1>1, <1>2, <1>5 DEF Anchored
  <1>7. PICK i \in Int : StampOf(pkt) = FirstStamp + pkt.at - TimeMod * i
    BY <1>4, StampTells
  <1>8. PICK j \in Nat : start.upper = TimeMod * j
    BY DEF PlayoutInv, WholeTurns
  <1> DEFINE n == k + j - i
  <1>9. TimeMod * k \in Int /\ TimeMod * j \in Int /\ TimeMod * i \in Int
        /\ TimeMod * n = TimeMod * k + TimeMod * j - TimeMod * i /\ n \in Int
    BY <1>3, <1>8
  <1> HIDE DEF n
  <1>10. TimeMod * n = wptr - offset - pkt.at
    <2>1. /\ start.rptr \in Int /\ start.playout \in Int /\ start.timestamp \in Int
          /\ StampOf(pkt) \in Int /\ pkt.at \in Int
      BY <1>2, <1>3, <1>4, <1>7, <1>9
    <2>2. wptr \in Int /\ offset \in Int /\ FirstStamp \in Int /\ start.upper \in Int
      BY <1>2, <1>3
    <2> DEFINE x == TimeMod * k
               y == TimeMod * j
               z == TimeMod * i
    <2>3. /\ start.rptr + start.playout - start.timestamp = offset - FirstStamp + x
          /\ StampOf(pkt) = FirstStamp + pkt.at - z /\ start.upper = y
          /\ TimeMod * n = x + y - z /\ x \in Int /\ y \in Int /\ z \in Int
          /\ wptr = start.rptr + start.upper + StampOf(pkt) - start.timestamp + start.playout
      BY <1>4, <1>6, <1>7, <1>8, <1>9
    <2> HIDE DEF x, y, z
    <2> QED
      BY <2>1, <2>2, <2>3
  <1>11. /\ -MaxPlace <= offset /\ offset <= Rptr + Playout /\ Rptr <= MaxRptr
    BY <1>1, <1>2, <1>5, RptrBounds DEF Anchored
  <1>12. -TimeMod < wptr - offset - pkt.at /\ wptr - offset - pkt.at < TimeMod
    BY <1>1, <1>2, <1>3, <1>4, <1>11
  <1>13. n = 0
    <2>1. wptr - offset - pkt.at \in Int
      BY <1>2, <1>4
    <2> QED
      BY <1>3, <1>9, <1>10, <1>12, <2>1, NoMultiple
  <1> QED
    BY <1>2, <1>3, <1>4, <1>10, <1>13

\* It is written there.
LEMMA KeepKeeps ==
  ASSUME PlayoutInv, Keep
  PROVE  PlayoutInv'
  <1>1. /\ stage = "test" /\ stage' = "write" /\ wptr' = wptr /\ done' = 0
        /\ offset' = wptr - pkt.at /\ newest' \in {pkt, newest} /\ ~reset
        /\ UNCHANGED <<sendVars, net, queue, pkt, start, split, reset, resets, playVars,
                       ringVars>>
    BY DEF Keep, Place
  <1>2. /\ pkt \in Packet /\ pkt.at \in Nat /\ wptr \in Nat
        /\ ~split => offset' = offset
    BY <1>1, KeptInStep DEF PlayoutInv, TaskSound, Packet
  <1>3. PlayoutTypes'
    <2>1. offset' \in Int /\ wptr' \in Int /\ newest' \in Packet \cup {NoPacket}
          /\ done' \in 0..PacketSize - 1
      BY <1>1, <1>2, PlayoutSizes DEF PlayoutInv, PlayoutTypes
    <2> QED
      BY <1>1, <2>1 DEF PlayoutInv, PlayoutTypes, sendVars, playVars, ringVars
  <1>4. Counts' /\ RingSound'
    BY <1>1 DEF PlayoutInv, Counts, RingSound, sendVars, playVars, ringVars
  <1>5. TaskSound'
    BY <1>1, <1>2 DEF TaskSound
  <1>6. Anchored'
    BY <1>1, <1>2 DEF PlayoutInv, Anchored, playVars
  <1>7. WholeTurns'
    BY <1>1 DEF PlayoutInv, WholeTurns
  <1> QED
    BY <1>3, <1>4, <1>5, <1>6, <1>7 DEF PlayoutInv

\* A new start at the read pointer of this moment, ...
LEMMA ResyncKeeps ==
  ASSUME PlayoutInv, Resync
  PROVE  PlayoutInv'
  <1>1. /\ stage = "test" /\ stage' = "resync" /\ reset' = FALSE
        /\ start' = [rptr |-> Rptr, timestamp |-> StampOf(pkt), upper |-> 0, playout |-> Playout]
        /\ UNCHANGED <<sendVars, net, queue, pkt, done, wptr, offset, newest, split, resets,
                       playVars, ringVars>>
    BY DEF Resync
  <1>2. pkt \in Packet /\ pkt.at \in Nat /\ Rptr \in Nat
    BY <1>1 DEF PlayoutInv, TaskSound, Packet, PlayoutTypes
  <1>3. StampOf(pkt) \in 0..TimeMod - 1 /\ Playout \in Nat /\ 0 \in Nat /\ 0 = TimeMod * 0
    BY <1>2, StampTells, PlayoutSizes
  <1>4. PlayoutTypes'
    <2>1. start' \in [rptr: Nat, timestamp: 0..TimeMod - 1, upper: Nat, playout: {0, Playout}]
          /\ {reset', split, overtaken, overfull, asDue} \subseteq BOOLEAN
      BY <1>1, <1>2, <1>3 DEF PlayoutInv, PlayoutTypes
    <2> QED
      BY <1>1, <2>1 DEF PlayoutInv, PlayoutTypes, sendVars, playVars, ringVars
  <1>5. Counts' /\ RingSound'
    BY <1>1, <1>2 DEF PlayoutInv, Counts, RingSound, sendVars, playVars, ringVars
  <1>6. TaskSound' /\ Anchored'
    BY <1>1, <1>2 DEF TaskSound, Anchored, StampOf
  <1>7. WholeTurns'
    BY <1>1, <1>3 DEF WholeTurns
  <1> QED
    BY <1>4, <1>5, <1>6, <1>7 DEF PlayoutInv

\* ... and the packet is placed at that of the next.
LEMMA PlaceAnewKeeps ==
  ASSUME PlayoutInv, PlaceAnew
  PROVE  PlayoutInv'
  <1> DEFINE w == Rptr + start.playout
  <1>1. /\ stage = "resync" /\ stage' = "write" /\ wptr' = w /\ done' = 0
        /\ offset' = w - pkt.at /\ newest' \in {pkt, newest}
        /\ split' = (split \/ Rptr # start.rptr)
        /\ UNCHANGED <<sendVars, net, queue, pkt, start, reset, resets, playVars, ringVars>>
    BY DEF PlaceAnew, Place
  <1>2. /\ pkt \in Packet /\ pkt.at \in 0..MaxPlace /\ pkt.at \in Nat /\ Rptr \in Nat /\ start.rptr \in Nat
        /\ start.playout = Playout /\ start.timestamp = StampOf(pkt)
        /\ Playout \in Nat /\ MaxPlace \in Nat /\ FirstStamp \in Nat /\ TimeMod \in Nat
        /\ start.timestamp \in Int
    BY <1>1, PlayoutSizes DEF PlayoutInv, TaskSound, Packet, PlayoutTypes
  <1>3. w \in Nat
    BY <1>2
  <1>4. PlayoutTypes'
    <2>1. offset' \in Int /\ wptr' \in Int
      BY <1>1, <1>2, <1>3
    <2>3. newest' \in Packet \cup {NoPacket} /\ done' \in 0..PacketSize - 1
      <3>1. newest \in Packet \cup {NoPacket}
        BY DEF PlayoutInv, PlayoutTypes
      <3>2. 0 \in 0..PacketSize - 1
        BY PlayoutSizes
      <3> HIDE DEF w
      <3> QED
        BY <1>1, <1>2, <3>1, <3>2
    <2>2. {reset, split', overtaken, overfull, asDue} \subseteq BOOLEAN
      BY <1>1 DEF PlayoutInv, PlayoutTypes
    <2> HIDE DEF w
    <2> QED
      BY <1>1, <2>1, <2>2, <2>3 DEF PlayoutInv, PlayoutTypes, sendVars, playVars, ringVars
  <1>5. Counts' /\ RingSound'
    BY <1>1 DEF PlayoutInv, Counts, RingSound, sendVars, playVars, ringVars
  <1>6. TaskSound'
    BY <1>1, <1>2, <1>3 DEF TaskSound
  <1>7. Anchored'
    <2>1. SUFFICES ASSUME ~split'
                   PROVE  /\ \E k \in Int : start.rptr + start.playout - start.timestamp
                                              = offset' - FirstStamp + TimeMod * k
                          /\ -MaxPlace <= offset' /\ offset' <= Rptr + Playout
      BY <1>1 DEF Anchored, playVars
    <2>2. Rptr = start.rptr
      BY <1>1, <2>1
    <2>3. PICK i \in Int : StampOf(pkt) = FirstStamp + pkt.at - TimeMod * i
      BY <1>2, StampTells
    <2>4. TimeMod * i \in Int
      BY <1>2
    <2>5. start.rptr + start.playout - start.timestamp = offset' - FirstStamp + TimeMod * i
      BY <1>1, <1>2, <2>2, <2>3, <2>4
    <2>6. -MaxPlace <= offset' /\ offset' <= Rptr + Playout
      BY <1>1, <1>2
    <2> QED
      BY <2>5, <2>6
  <1>8. WholeTurns'
    BY <1>1 DEF PlayoutInv, WholeTurns
  <1> QED
    BY <1>4, <1>5, <1>6, <1>7, <1>8 DEF PlayoutInv

\* A sample is written in the slot of the place it's meant for.
LEMMA WriteSampleKeeps ==
  ASSUME PlayoutInv, WriteSample
  PROVE  PlayoutInv'
  <1> DEFINE due == wptr + done
  <1>1. /\ stage = "write"
        /\ Output_buffer' = [Output_buffer EXCEPT ![due % RingSize] = @ \cup {due}]
        /\ overtaken' = (overtaken \/ due < Rptr)
        /\ overfull' = (overfull \/ due >= Rptr - unplayed + RingSize)
        /\ UNCHANGED <<sendVars, net, queue, wptr, start, offset, newest, split, reset, resets,
                       playVars, asDue>>
    BY DEF WriteSample
  <1>2. \/ done + 1 < PacketSize /\ done' = done + 1 /\ stage' = stage /\ pkt' = pkt
        \/ done' = 0 /\ stage' = "wait" /\ pkt' = NoPacket
    BY DEF WriteSample
  <1>3. /\ PacketSize \in Nat \ {0} /\ RingSize \in Nat \ {0} /\ Rptr \in Nat /\ unplayed \in Nat
        /\ unplayed <= Rptr /\ done \in Nat /\ done \in 0..PacketSize - 1 /\ wptr \in Nat
        /\ pkt \in Packet
    BY <1>1, PlayoutSizes DEF PlayoutInv, PlayoutTypes, Counts, TaskSound
  <1>4. due \in Nat /\ due \in Int
    BY <1>3
  <1>5. due % RingSize \in OutputSlot
    <2>1. due % RingSize \in 0..RingSize - 1
      BY <1>3, <1>4, ModRange
    <2> QED
      BY <2>1 DEF OutputSlot
  <1> HIDE DEF due
  <1>6. PlayoutTypes'
    <2>1. Output_buffer' \in [OutputSlot -> SUBSET Nat]
      <3> DEFINE s == due % RingSize
      <3>1. Output_buffer \in [OutputSlot -> SUBSET Nat] /\ s \in OutputSlot
        BY <1>5 DEF PlayoutInv, PlayoutTypes
      <3>2. Output_buffer' = [Output_buffer EXCEPT ![s] = Output_buffer[s] \cup {due}]
        BY <1>1
      <3> HIDE DEF s
      <3> QED
        BY <1>4, <3>1, <3>2
    <2>2. done' \in 0..PacketSize - 1
      BY <1>2, <1>3
    <2>3. stage' \in {"wait", "test", "resync", "write"} /\ pkt' \in Packet \cup {NoPacket}
      BY <1>1, <1>2, <1>3
    <2>4. {reset, split, overtaken', overfull', asDue} \subseteq BOOLEAN
      BY <1>1 DEF PlayoutInv, PlayoutTypes
    <2> QED
      BY <1>1, <2>1, <2>2, <2>3, <2>4 DEF PlayoutInv, PlayoutTypes, sendVars, playVars
  <1>7. Counts'
    BY <1>1 DEF PlayoutInv, Counts, sendVars, playVars
  <1>8. RingSound'
    <2>1. SUFFICES ASSUME ~overtaken', ~overfull'
                   PROVE  /\ asDue
                          /\ \A s \in OutputSlot : \A d \in Output_buffer'[s] :
                               /\ d % RingSize = s
                               /\ Rptr - unplayed <= d /\ d < Rptr - unplayed + RingSize
      BY <1>1 DEF RingSound, playVars
    <2>2. ~overtaken /\ ~overfull /\ ~(due < Rptr) /\ ~(due >= Rptr - unplayed + RingSize)
      BY <1>1, <2>1
    <2>3. Rptr - unplayed <= due /\ due < Rptr - unplayed + RingSize
      BY <1>3, <1>4, <2>2
    <2>4. Output_buffer \in [OutputSlot -> SUBSET Nat] /\ RingSound
      BY DEF PlayoutInv, PlayoutTypes
    <2>5. ASSUME NEW s \in OutputSlot, NEW d \in Output_buffer'[s]
          PROVE  /\ d % RingSize = s
                 /\ Rptr - unplayed <= d /\ d < Rptr - unplayed + RingSize
      <3>1. d \in Output_buffer[s] \/ (s = due % RingSize /\ d = due)
        BY <1>1, <1>5, <2>4, <2>5
      <3>2. CASE d \in Output_buffer[s]
        BY <2>2, <2>4, <3>2 DEF RingSound
      <3>3. CASE s = due % RingSize /\ d = due
        BY <2>3, <3>3
      <3> QED
        BY <3>1, <3>2, <3>3
    <2> QED
      BY <2>2, <2>4, <2>5 DEF RingSound
  <1>9. TaskSound'
    BY <1>1, <1>2, <1>3 DEF TaskSound
  <1>10. Anchored'
    <2>1. stage' # "resync" /\ stage # "resync"
      BY <1>1, <1>2
    <2> QED
      BY <1>1, <2>1 DEF PlayoutInv, Anchored, playVars
  <1>11. WholeTurns'
    BY <1>1 DEF PlayoutInv, WholeTurns
  <1> QED
    BY <1>6, <1>7, <1>8, <1>9, <1>10, <1>11 DEF PlayoutInv

\* The session is to be reset.
LEMMA ResetKeeps ==
  ASSUME PlayoutInv, Reset
  PROVE  PlayoutInv'
  <1>1. /\ resets < MaxResets /\ resets' = resets + 1 /\ reset' = TRUE
        /\ UNCHANGED <<sendVars, net, queue, taskVars, playVars, ringVars>>
    BY DEF Reset
  <1>2. PlayoutTypes'
    <2>1. resets' \in 0..MaxResets
      BY <1>1, PlayoutSizes DEF PlayoutInv, PlayoutTypes
    <2>2. {reset', split, overtaken, overfull, asDue} \subseteq BOOLEAN
      BY <1>1 DEF PlayoutInv, PlayoutTypes
    <2> QED
      BY <1>1, <2>1, <2>2 DEF PlayoutInv, PlayoutTypes, sendVars, taskVars, playVars, ringVars
  <1>3. Counts' /\ RingSound' /\ TaskSound'
    BY <1>1 DEF PlayoutInv, Counts, RingSound, TaskSound, sendVars, taskVars, playVars, ringVars
  <1>4. Anchored'
    BY <1>1 DEF Anchored
  <1>5. WholeTurns'
    BY <1>1 DEF PlayoutInv, WholeTurns, taskVars
  <1> QED
    BY <1>2, <1>3, <1>4, <1>5 DEF PlayoutInv

\* A chunk is at most what is wanted, and not empty.
LEMMA ChunkSize ==
  ASSUME PlayoutInv, NEW wanted \in 1..Frames, MoveBy(wanted)
  PROVE  \E chunk \in 1..wanted :
           Rptr' = Rptr + chunk /\ unplayed' = chunk /\ frames' = wanted - chunk
  <1> DEFINE at == Rptr % RingSize
             toEnd == RingSize - at
             chunk == IF wanted < toEnd THEN wanted ELSE toEnd
  <1>1. Rptr' = Rptr + chunk /\ unplayed' = chunk /\ frames' = wanted - chunk
    BY DEF MoveBy
  <1>2. RingSize \in Nat \ {0} /\ Frames \in Nat /\ Rptr \in Int
    BY PlayoutSizes DEF PlayoutInv, PlayoutTypes
  <1>3. at \in 0..RingSize - 1
    BY <1>2, ModRange
  <1> HIDE DEF at
  <1>4. chunk \in 1..wanted
    BY <1>2, <1>3
  <1> HIDE DEF chunk
  <1> QED
    BY <1>1, <1>4

\* The read pointer moves ahead of the chunk: what is to be played stays the same.
LEMMA ChunkKeeps ==
  ASSUME PlayoutInv, FirstChunk \/ SecondChunk
  PROVE  PlayoutInv'
  <1>1. /\ unplayed = 0
        /\ UNCHANGED <<sendVars, net, queue, taskVars, reset, resets, ringVars>>
    BY DEF FirstChunk, SecondChunk
  <1>2. /\ Frames \in Nat \ {0} /\ MaxCallbacks \in Nat /\ Rptr \in Nat /\ frames \in 0..Frames
        /\ callbacks \in 0..MaxCallbacks /\ PlayoutTypes /\ Counts
        /\ Rptr + frames = callbacks * Frames /\ start.rptr <= Rptr /\ start.rptr \in Nat
        /\ callbacks * Frames \in Nat /\ offset \in Int /\ Playout \in Nat
    BY PlayoutSizes DEF PlayoutInv, PlayoutTypes, Counts
  <1>3. PICK wanted \in 1..Frames :
          /\ MoveBy(wanted) /\ callbacks' \in 0..MaxCallbacks
          /\ Rptr + wanted = callbacks' * Frames
    <2>1. CASE FirstChunk
      <3>1. frames = 0 /\ callbacks < MaxCallbacks /\ callbacks' = callbacks + 1 /\ MoveBy(Frames)
        BY <2>1 DEF FirstChunk
      <3>2. callbacks' * Frames = callbacks * Frames + Frames
        BY <1>2, <3>1, RptrBounds
      <3>3. Frames \in 1..Frames /\ callbacks' \in 0..MaxCallbacks
            /\ Rptr + Frames = callbacks' * Frames
        BY <1>2, <3>1, <3>2
      <3> QED
        BY <3>1, <3>3
    <2>2. CASE SecondChunk
      <3>1. frames > 0 /\ MoveBy(frames) /\ callbacks' = callbacks
        BY <2>2 DEF SecondChunk
      <3>2. frames \in 1..Frames
        BY <1>2, <3>1
      <3> QED
        BY <1>2, <3>1, <3>2
    <2> QED
      BY <2>1, <2>2
  <1>4. PICK chunk \in 1..wanted :
          Rptr' = Rptr + chunk /\ unplayed' = chunk /\ frames' = wanted - chunk
    BY <1>3, ChunkSize
  <1>5. /\ Rptr' \in Nat /\ unplayed' \in 0..Frames /\ frames' \in 0..Frames
        /\ Rptr <= Rptr' /\ Rptr' - unplayed' = Rptr - unplayed /\ unplayed' <= Rptr'
        /\ Rptr' + frames' = callbacks' * Frames
    <2> DEFINE c == callbacks' * Frames
    <2>1. Frames \in Nat /\ Rptr \in Nat /\ chunk \in 1..wanted /\ wanted \in 1..Frames
      BY <1>2
    <2>2. unplayed = 0 /\ Rptr' = Rptr + chunk /\ unplayed' = chunk /\ frames' = wanted - chunk
      BY <1>1, <1>4
    <2>3. Rptr + wanted = c
      BY <1>3
    <2> HIDE DEF c
    <2>4. /\ Rptr' \in Nat /\ unplayed' \in 0..Frames /\ frames' \in 0..Frames
          /\ Rptr <= Rptr' /\ Rptr' - unplayed' = Rptr - unplayed /\ unplayed' <= Rptr'
      BY <2>1, <2>2
    <2>5. Rptr' + frames' = c
      BY <2>1, <2>2, <2>3
    <2> QED
      BY <2>4, <2>5 DEF c
  <1>6. PlayoutTypes'
    BY <1>1, <1>3, <1>5 DEF PlayoutInv, PlayoutTypes, sendVars, taskVars, ringVars
  <1>7. Counts'
    <2>1. start.rptr <= Rptr'
      BY <1>2, <1>5
    <2> QED
      BY <1>1, <1>5, <2>1 DEF PlayoutInv, Counts, sendVars, taskVars
  <1>8. RingSound'
    BY <1>1, <1>5 DEF PlayoutInv, RingSound, ringVars
  <1>9. TaskSound'
    BY <1>1 DEF PlayoutInv, TaskSound, taskVars, StampOf
  <1>10. Anchored'
    <2>1. SUFFICES ASSUME ~split, ~reset, stage # "resync"
                   PROVE  /\ \E k \in Int : start.rptr + start.playout - start.timestamp
                                              = offset - FirstStamp + TimeMod * k
                          /\ -MaxPlace <= offset /\ offset <= Rptr' + Playout
      BY <1>1 DEF Anchored, taskVars
    <2>2. /\ \E k \in Int : start.rptr + start.playout - start.timestamp
                              = offset - FirstStamp + TimeMod * k
          /\ -MaxPlace <= offset /\ offset <= Rptr + Playout
      BY <2>1 DEF PlayoutInv, Anchored
    <2>3. offset <= Rptr' + Playout
      <3>1. PICK o \in Int : o = offset
        BY <1>2
      <3>2. PICK l \in Nat : l = Playout
        BY <1>2
      <3>3. Rptr \in Nat /\ Rptr' = Rptr + chunk /\ chunk \in Nat
        BY <1>2, <1>4
      <3>4. o <= Rptr + l
        BY <2>2, <3>1, <3>2
      <3>5. o <= Rptr' + l
        BY <3>3, <3>4
      <3> QED
        BY <3>1, <3>2, <3>5
    <2> QED
      BY <2>2, <2>3
  <1>11. WholeTurns'
    BY <1>1 DEF PlayoutInv, WholeTurns, taskVars
  <1> QED
    BY <1>6, <1>7, <1>8, <1>9, <1>10, <1>11 DEF PlayoutInv

\* The chunk is played and cleared: what its slots hold was meant for now.
LEMMA PlayKeeps ==
  ASSUME PlayoutInv, Play
  PROVE  PlayoutInv'
  <1> DEFINE now == Rptr - unplayed..Rptr - 1
  <1>1. /\ asDue' = (asDue /\ \A r \in now : Output_buffer[r % RingSize] \subseteq {r})
        /\ Output_buffer' = [s \in OutputSlot |-> IF \E r \in now : s = r % RingSize
                                                    THEN {} ELSE Output_buffer[s]]
        /\ unplayed' = 0
        /\ UNCHANGED <<sendVars, net, queue, taskVars, reset, resets, Rptr, frames, callbacks,
                       overtaken, overfull>>
    BY DEF Play
  <1>2. /\ RingSize \in Nat \ {0} /\ Frames < RingSize /\ Frames \in Nat /\ Rptr \in Nat
        /\ unplayed \in 0..Frames /\ unplayed <= Rptr
        /\ Output_buffer \in [OutputSlot -> SUBSET Nat] /\ RingSound
    BY PlayoutSizes DEF PlayoutInv, PlayoutTypes, Counts
  <1>3. ASSUME NEW r \in now
        PROVE  r \in Int /\ r % RingSize \in OutputSlot /\ r < Rptr
    <2>1. r \in Int /\ r < Rptr
      BY <1>2
    <2>2. r % RingSize \in 0..RingSize - 1
      BY <1>2, <2>1, ModRange
    <2> QED
      BY <2>1, <2>2 DEF OutputSlot
  \* Two places within a ring of each other that share a slot are the same.
  <1>4. ASSUME NEW a \in Int, NEW b \in Int, a % RingSize = b % RingSize,
               a - b < RingSize, b - a < RingSize
        PROVE  a = b
    <2>1. ~(a < b)
      BY <1>2, <1>4, ModDistinct
    <2>2. ~(b < a)
      BY <1>2, <1>4, ModDistinct
    <2> QED
      BY <1>4, <2>1, <2>2
  <1>5. ASSUME ~overtaken, ~overfull, NEW r \in now, NEW d \in Output_buffer[r % RingSize]
        PROVE  d = r
    <2>1. r % RingSize \in OutputSlot /\ r \in Int
      BY <1>3
    <2>2. /\ d % RingSize = r % RingSize
          /\ Rptr - unplayed <= d /\ d < Rptr - unplayed + RingSize
      BY <1>2, <1>5, <2>1 DEF RingSound
    <2>3. d \in Int
      BY <1>2, <2>1
    <2>4. d - r < RingSize /\ r - d < RingSize
      <3>1. Rptr - unplayed <= r /\ r < Rptr
        BY <1>2
      <3> HIDE DEF now
      <3> QED
        BY <1>2, <2>1, <2>2, <2>3, <3>1
    <2> QED
      BY <1>4, <2>1, <2>2, <2>3, <2>4
  <1>6. PlayoutTypes'
    <2>1. Output_buffer' \in [OutputSlot -> SUBSET Nat]
      BY <1>1, <1>2
    <2>2. {reset, split, overtaken, overfull, asDue'} \subseteq BOOLEAN
      BY <1>1 DEF PlayoutInv, PlayoutTypes
    <2>3. unplayed' \in 0..Frames
      BY <1>1, <1>2
    <2> QED
      BY <1>1, <2>1, <2>2, <2>3 DEF PlayoutInv, PlayoutTypes, sendVars, taskVars
  <1>7. Counts'
    BY <1>1, <1>2 DEF PlayoutInv, Counts, sendVars, taskVars
  <1>8. RingSound'
    <2>1. SUFFICES ASSUME ~overtaken, ~overfull
                   PROVE  /\ asDue'
                          /\ \A s \in OutputSlot : \A d \in Output_buffer'[s] :
                               /\ d % RingSize = s
                               /\ Rptr - unplayed' <= d /\ d < Rptr - unplayed' + RingSize
      BY <1>1 DEF RingSound
    <2>2. asDue'
      <3>1. \A r \in now : Output_buffer[r % RingSize] \subseteq {r}
        BY <1>5, <2>1
      <3>2. asDue
        BY <1>2, <2>1 DEF RingSound
      <3> QED
        BY <1>1, <3>1, <3>2
    <2>3. ASSUME NEW s \in OutputSlot, NEW d \in Output_buffer'[s]
          PROVE  /\ d % RingSize = s
                 /\ Rptr - unplayed' <= d /\ d < Rptr - unplayed' + RingSize
      <3>1. ~(\E r \in now : s = r % RingSize) /\ d \in Output_buffer[s]
        BY <1>1, <2>3
      <3>2. d % RingSize = s /\ Rptr - unplayed <= d /\ d < Rptr - unplayed + RingSize
        BY <1>2, <2>1, <3>1 DEF RingSound
      <3>3. d \in Nat
        BY <1>2, <3>1
      <3>4. d \notin now
        BY <3>1, <3>2
      <3>5. Rptr <= d
        BY <1>2, <3>2, <3>3, <3>4
      <3>6. Rptr - unplayed' <= d /\ d < Rptr - unplayed' + RingSize
        <4>1. unplayed' = 0 /\ Rptr \in Nat /\ RingSize \in Nat /\ unplayed \in Nat
          BY <1>1, <1>2
        <4>2. Rptr <= d /\ d < Rptr - unplayed + RingSize
          BY <3>2, <3>5
        <4> QED
          BY <3>3, <4>1, <4>2
      <3> QED
        BY <3>2, <3>6
    <2> QED
      BY <2>2, <2>3
  <1>9. TaskSound'
    BY <1>1 DEF PlayoutInv, TaskSound, taskVars, StampOf
  <1>10. Anchored'
    BY <1>1 DEF PlayoutInv, Anchored, taskVars
  <1>11. WholeTurns'
    BY <1>1 DEF PlayoutInv, WholeTurns, taskVars
  <1> QED
    BY <1>6, <1>7, <1>8, <1>9, <1>10, <1>11 DEF PlayoutInv

\* Every step of the session keeps the invariant.
LEMMA PlayoutStep ==
  ASSUME PlayoutInv, [PlayoutNext]_playoutVars
  PROVE  PlayoutInv'
  <1>1. CASE SendAudio
    BY <1>1, SendAudioKeeps
  <1>2. CASE \E p \in net : Enqueue(p)
    BY <1>2, EnqueueKeeps
  <1>3. CASE Decode
    BY <1>3, TakeKeeps, KeepKeeps, ResyncKeeps, PlaceAnewKeeps, WriteSampleKeeps DEF Decode
  <1>4. CASE Reset
    BY <1>4, ResetKeeps
  <1>5. CASE PaCallback
    BY <1>5, ChunkKeeps, PlayKeeps DEF PaCallback
  <1>6. CASE UNCHANGED playoutVars
    <2>1. PlayoutTypes' /\ Counts' /\ RingSound'
      BY <1>6 DEF PlayoutInv, PlayoutTypes, Counts, RingSound, playoutVars, sendVars,
                  taskVars, playVars, ringVars
    <2>2. TaskSound' /\ Anchored' /\ WholeTurns'
      BY <1>6 DEF PlayoutInv, TaskSound, Anchored, WholeTurns, StampOf, playoutVars,
                  taskVars, playVars
    <2> QED
      BY <2>1, <2>2 DEF PlayoutInv
  <1> QED
    BY <1>1, <1>2, <1>3, <1>4, <1>5, <1>6 DEF PlayoutNext

\* The session of monitor keeps its invariant, whatever the network, the operator
\* and the callback do.
THEOREM PlayoutInductive == PlayoutSpec => []PlayoutInv
  <1>1. PlayoutInit => PlayoutInv
    BY PlayoutBegins
  <1>2. PlayoutInv /\ [PlayoutNext]_playoutVars => PlayoutInv'
    BY PlayoutStep
  <1> QED
    BY <1>1, <1>2, PTL DEF PlayoutSpec

\* The session's state is one of those the program can be in.
THEOREM PlayoutTypesThm == PlayoutSpec => []PlayoutTypes
  <1>1. PlayoutInv => PlayoutTypes
    BY DEF PlayoutInv
  <1> QED
    BY <1>1, PlayoutInductive, PTL

\* What decode_task writes ahead of the read pointer and less than a ring from it is
\* played by pa_callback at the place it was meant for.
THEOREM PlayedWhenDueThm == PlayoutSpec => []PlayedWhenDue
  <1>1. PlayoutInv => PlayedWhenDue
    BY DEF PlayoutInv, RingSound, PlayedWhenDue
  <1> QED
    BY <1>1, PlayoutInductive, PTL

\* A packet decode_task doesn't place anew keeps the distance of those before it.
THEOREM SteadyClockThm == PlayoutSpec => SteadyClock
  <1> DEFINE Steady == stage = "test" /\ stage' = "write" /\ ~split => offset' = offset
  <1>1. ASSUME PlayoutInv, [PlayoutNext]_playoutVars
        PROVE  [Steady]_playoutVars
    <2>1. SUFFICES ASSUME stage = "test", stage' = "write", ~split
                   PROVE  offset' = offset
      OBVIOUS
    <2>2. Keep
      <3>1. stage' # stage
        BY <2>1
      <3>2. ~SendAudio /\ ~(\E p \in net : Enqueue(p)) /\ ~Reset
        BY <3>1 DEF SendAudio, Enqueue, Reset, taskVars
      <3>3. ~PaCallback /\ ~UNCHANGED playoutVars
        BY <3>1 DEF PaCallback, FirstChunk, SecondChunk, Play, taskVars, playoutVars
      <3>4. ~Take /\ ~Resync /\ ~PlaceAnew /\ ~WriteSample
        BY <2>1 DEF Take, Resync, PlaceAnew, WriteSample
      <3> QED
        BY <1>1, <3>2, <3>3, <3>4 DEF PlayoutNext, Decode
    <2>3. wptr - pkt.at = offset
      BY <1>1, <2>1, <2>2, KeptInStep
    <2> QED
      BY <2>2, <2>3 DEF Keep, Place
  <1>2. PlayoutInv /\ [PlayoutNext]_playoutVars => [Steady]_playoutVars
    BY <1>1
  <1> QED
    BY <1>2, PlayoutInductive, PTL DEF PlayoutSpec, SteadyClock
=============================================================================
