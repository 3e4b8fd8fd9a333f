--------------------------- MODULE RtpInputProofs ---------------------------
(***************************************************************************)
(* Proofs about the I/Q stream, for any widths of the sequence number and  *)
(* the timestamp, any packets, filter blocks, losses, delays and restarts  *)
(* of the front end.  The argument: a packet of the session's run that is  *)
(* in flight is never so far from the last one used that its sequence      *)
(* number could be taken for that of another, because something that got   *)
(* through is always near; so each step of the numbers that rtp_process    *)
(* accepts is the true one, and the counts follow, and with them the place *)
(* of every sample in the filter's input.                                  *)
(***************************************************************************)
EXTENDS RtpInput, ModularArithmetic

\* What is in flight from a run of the front end are packets it has sent, and
\* they are within the delay of each other.
NetBounds ==
  /\ \A p \in net : /\ p.run <= run
                    /\ p.run = run => p.idx < sent /\ sent - p.idx <= Window
  /\ \A p, q \in net : p.run = q.run => p.idx - q.idx < Window

\* The session's packets carry its SSRC and have been sent.
SessionOK ==
  rtp.init =>
    /\ first.run <= run /\ last.run <= run
    /\ ssrc[first.run] = rtp.ssrc /\ ssrc[last.run] = rtp.ssrc
    /\ last.run = run => last.idx < sent

\* Packets of the session's run in flight are not far from the last one used.
InReach ==
  \A p \in net : p.run = last.run =>
    /\ last.idx - p.idx < Window
    /\ p.idx - last.idx < MaxGap + 2 * Window

\* Nothing has got through since the last one used, or something that has is in
\* flight and near it.
NextIsNear ==
  last.run = run =>
    \/ sent - lost - last.idx <= Window
    \/ \E p \in net : /\ p.run = run /\ p.idx > last.idx
                      /\ p.idx - last.idx <= MaxGap + Window

\* rtp_process expects what follows the last packet.
Expects ==
  /\ rtp.seq = (last.idx + 1) % SeqMod
  /\ rtp.timestamp = ((last.idx + 1) * PacketSize) % TimeMod

CleanOK == rtp.init /\ clean => InReach /\ NextIsNear /\ Expects

IInv ==
  TypeOK /\ NetBounds /\ SessionOK /\ CleanOK /\ SampleClock /\ FilterInPlace

-----------------------------------------------------------------------------
(* rtp_process *)

\* What the constants are.
LEMMA Constants ==
  /\ SeqMod \in Nat \ {0} /\ TimeMod \in Nat \ {0}
  /\ PacketSize \in Nat \ {0} /\ BlockSize \in Nat \ {0} /\ Window \in Nat \ {0}
  /\ MaxStep \in Nat /\ MaxGap \in Nat /\ Joined \in Nat /\ MaxSent \in Nat
  /\ MaxRun \in Nat /\ MaxCopies \in Nat
  BY RtpAssumption, RtpStateAssumption

\* How they are related.
LEMMA Widths ==
  /\ 2 * (MaxGap + Window) <= SeqMod
  /\ PacketSize * SeqMod <= TimeMod
  BY RtpAssumption

\* Headers as a receiver may see them, for the lemmas.
Headers == [ssrc : Ssrc, seq : 0..SeqMod - 1, timestamp : 0..TimeMod - 1]

\* A packet's header is one.
LEMMA HeaderType ==
  ASSUME TypeOK, NEW p \in Packet
  PROVE  /\ Header(p) \in Headers
         /\ Header(p).ssrc = ssrc[p.run]
         /\ Header(p).seq = p.idx % SeqMod
         /\ Header(p).timestamp = (p.idx * PacketSize) % TimeMod
  <1>1. p.run \in 0..MaxRun /\ p.idx \in Nat /\ ssrc[p.run] \in Ssrc
    BY Constants DEF Packet, TypeOK
  <1>2. p.idx \in Int /\ p.idx * PacketSize \in Int
    BY <1>1, Constants
  <1>3. p.idx % SeqMod \in 0..SeqMod - 1
    BY <1>2, Constants, ModRange
  <1>4. (p.idx * PacketSize) % TimeMod \in 0..TimeMod - 1
    BY <1>2, Constants, ModRange
  <1> QED
    BY <1>1, <1>3, <1>4 DEF Header, Headers, Seq, Time

\* A number cast to a signed integer is a whole number.
LEMMA SignedType ==
  ASSUME NEW m \in Nat \ {0}, NEW x \in Int
  PROVE  Signed(x, m) \in Int /\ Signed(x, m) = SignedOf(x % m, m)
  <1>1. x % m \in 0..m - 1
    BY ModRange
  <1> QED
    BY <1>1 DEF Signed, SignedOf

\* The state after the checks of SSRC and init.
LEMMA OpenedType ==
  ASSUME NEW s \in RtpStates(Ssrc), NEW h \in Headers
  PROVE  /\ Opened(s, h) \in RtpStates(Ssrc)
         /\ Opened(s, h).init = TRUE /\ Opened(s, h).ssrc = h.ssrc
         /\ SeqStep(s, h) \in Int /\ TimeStep(s, h) \in Int
         /\ NewSession(s, h) =>
              /\ Opened(s, h).seq = h.seq /\ Opened(s, h).timestamp = h.timestamp
              /\ Opened(s, h).packets = 1
              /\ Opened(s, h).drops = 0 /\ Opened(s, h).dupes = 0
              /\ SeqStep(s, h) = 0 /\ TimeStep(s, h) = 0
         /\ ~NewSession(s, h) =>
              /\ s.init /\ s.ssrc = h.ssrc
              /\ Opened(s, h).seq = s.seq /\ Opened(s, h).timestamp = s.timestamp
              /\ Opened(s, h).packets = s.packets + 1
              /\ Opened(s, h).drops = s.drops /\ Opened(s, h).dupes = s.dupes
  <1>1. SeqMod \in Nat \ {0} /\ TimeMod \in Nat \ {0}
    BY Constants
  <1>2. CASE NewSession(s, h)
    <2>1. Opened(s, h) = [ssrc |-> h.ssrc, init |-> TRUE, seq |-> h.seq,
                          timestamp |-> h.timestamp, packets |-> 1, drops |-> 0, dupes |-> 0]
      BY <1>2 DEF Opened
    <2>2. Opened(s, h) \in RtpStates(Ssrc)
      BY <2>1 DEF RtpStates, Headers
    <2>3. Signed(0, SeqMod) = 0 /\ Signed(0, TimeMod) = 0
      <3>1. 0 % SeqMod = 0 /\ 0 % TimeMod = 0
        BY <1>1, ModSmall
      <3> QED
        BY <1>1, <3>1 DEF Signed
    <2>4. h.seq \in Int /\ h.timestamp \in Int
      BY <1>1 DEF Headers
    <2>5. SeqStep(s, h) = Signed(h.seq - h.seq, SeqMod)
          /\ TimeStep(s, h) = Signed(h.timestamp - h.timestamp, TimeMod)
      BY <2>1 DEF SeqStep, TimeStep
    <2>6. h.seq - h.seq = 0 /\ h.timestamp - h.timestamp = 0
      BY <2>4
    <2> QED
      BY <1>2, <2>1, <2>2, <2>3, <2>5, <2>6
  <1>3. CASE ~NewSession(s, h)
    <2>1. Opened(s, h) = [s EXCEPT !.packets = @ + 1]
      BY <1>3 DEF Opened
    <2>2. s.init /\ s.ssrc = h.ssrc
      BY <1>3 DEF NewSession
    <2>3. Opened(s, h) \in RtpStates(Ssrc)
      BY <2>1 DEF RtpStates
    <2>4. /\ Opened(s, h).seq = s.seq /\ Opened(s, h).timestamp = s.timestamp
          /\ Opened(s, h).packets = s.packets + 1
          /\ Opened(s, h).drops = s.drops /\ Opened(s, h).dupes = s.dupes
          /\ Opened(s, h).init = s.init /\ Opened(s, h).ssrc = s.ssrc
      BY <2>1 DEF RtpStates
    <2>5. SeqStep(s, h) \in Int /\ TimeStep(s, h) \in Int
      <3>1. h.seq - s.seq \in Int /\ h.timestamp - s.timestamp \in Int
        BY <1>1 DEF Headers, RtpStates
      <3> QED
        BY <1>1, <2>4, <3>1, SignedType DEF SeqStep, TimeStep
    <2> QED
      BY <1>3, <2>2, <2>3, <2>4, <2>5 DEF RtpStates
  <1> QED
    BY <1>2, <1>3

\* The state rtp_process leaves, for each of its verdicts.
LEMMA ProcessedType ==
  ASSUME NEW s \in RtpStates(Ssrc), NEW h \in Headers
  PROVE  /\ Processed(s, h, PacketSize) \in RtpStates(Ssrc)
         /\ Processed(s, h, PacketSize).init = TRUE
         /\ Processed(s, h, PacketSize).ssrc = h.ssrc
         /\ OldSequence(s, h) =>
              Processed(s, h, PacketSize)
                = [Opened(s, h) EXCEPT !.dupes = Opened(s, h).dupes + 1]
         /\ ~OldSequence(s, h) =>
              /\ Processed(s, h, PacketSize).seq = (h.seq + 1) % SeqMod
              /\ Processed(s, h, PacketSize).packets = Opened(s, h).packets
              /\ Processed(s, h, PacketSize).dupes = Opened(s, h).dupes
              /\ Processed(s, h, PacketSize).drops = Opened(s, h).drops + SeqStep(s, h)
              /\ TimeStep(s, h) >= 0 =>
                   Processed(s, h, PacketSize).timestamp = (h.timestamp + PacketSize) % TimeMod
  <1> DEFINE o == Opened(s, h)
  <1>1. /\ SeqMod \in Nat \ {0} /\ TimeMod \in Nat \ {0} /\ PacketSize \in Nat
        /\ h.seq \in Int /\ h.timestamp \in Int
    BY Constants DEF Headers
  <1>2. /\ o \in RtpStates(Ssrc) /\ o.init = TRUE /\ o.ssrc = h.ssrc
        /\ SeqStep(s, h) \in Int /\ TimeStep(s, h) \in Int
    BY OpenedType
  <1> DEFINE n == (h.seq + 1) % SeqMod
             t == (h.timestamp + PacketSize) % TimeMod
  <1>0. h.seq + 1 \in Int /\ h.timestamp + PacketSize \in Int
    BY <1>1
  <1>3. n \in 0..SeqMod - 1
    BY <1>0, <1>1, ModRange
  <1>4. t \in 0..TimeMod - 1
    BY <1>0, <1>1, ModRange
  <1>5. CASE OldSequence(s, h)
    <2>1. Processed(s, h, PacketSize) = [o EXCEPT !.dupes = o.dupes + 1]
      BY <1>5 DEF Processed, Duplicate
    <2> HIDE DEF o
    <2>2. [o EXCEPT !.dupes = o.dupes + 1] \in RtpStates(Ssrc)
      BY <1>2 DEF RtpStates
    <2>3. /\ [o EXCEPT !.dupes = o.dupes + 1].init = TRUE
          /\ [o EXCEPT !.dupes = o.dupes + 1].ssrc = h.ssrc
      BY <1>2 DEF RtpStates
    <2> QED
      BY <1>5, <2>1, <2>2, <2>3 DEF o
  <1>6. CASE ~OldSequence(s, h)
    <2> DEFINE k == o.drops + SeqStep(s, h)
               passed == [o EXCEPT !.seq = n, !.drops = k]
               timed == [passed EXCEPT !.timestamp = t]
    <2>1. SeqStep(s, h) >= 0
      BY <1>2, <1>6 DEF OldSequence
    <2>2. Processed(s, h, PacketSize) = IF TimeStep(s, h) < 0 THEN passed ELSE timed
      BY <1>6 DEF Processed, OldTime, Passed, Timed
    <2> HIDE DEF o
    <2>3. k \in Nat
      BY <1>2, <2>1 DEF RtpStates
    <2> HIDE DEF n, t, k
    <2>4. /\ passed.init = TRUE /\ passed.ssrc = h.ssrc
          /\ passed.seq = n /\ passed.packets = o.packets
          /\ passed.dupes = o.dupes /\ passed.drops = k
      BY <1>2 DEF RtpStates
    <2>5. passed \in RtpStates(Ssrc)
      BY <1>2, <1>3, <2>3 DEF RtpStates
    <2> HIDE DEF passed
    <2>6. /\ timed.init = TRUE /\ timed.ssrc = h.ssrc
          /\ timed.seq = n /\ timed.packets = o.packets
          /\ timed.dupes = o.dupes /\ timed.drops = k
          /\ timed.timestamp = t
      BY <2>4, <2>5 DEF RtpStates
    <2>7. timed \in RtpStates(Ssrc)
      BY <1>4, <2>5 DEF RtpStates
    <2> HIDE DEF timed
    <2> QED
      BY <1>2, <1>6, <2>2, <2>4, <2>5, <2>6, <2>7 DEF o, n, t, k
  <1> QED
    BY <1>5, <1>6

\* The numbers of consecutive packets, as the counters that wrap have them.
LEMMA NextNumbers ==
  ASSUME NEW p \in Packet
  PROVE  /\ ((p.idx % SeqMod) + 1) % SeqMod = (p.idx + 1) % SeqMod
         /\ (((p.idx * PacketSize) % TimeMod) + PacketSize) % TimeMod
              = ((p.idx + 1) * PacketSize) % TimeMod
  <1>1. p.idx \in Nat
    BY Constants DEF Packet
  <1>2. ((p.idx % SeqMod) + 1) % SeqMod = (p.idx + 1) % SeqMod
    BY <1>1, Constants, ModAdd
  <1>3. p.idx * PacketSize \in Int /\ PacketSize \in Int
    BY <1>1, Constants
  <1>4. (((p.idx * PacketSize) % TimeMod) + PacketSize) % TimeMod
          = (p.idx * PacketSize + PacketSize) % TimeMod
    BY <1>3, Constants, ModAdd
  <1>5. p.idx * PacketSize + PacketSize = (p.idx + 1) * PacketSize
    BY <1>1, Constants
  <1> QED
    BY <1>2, <1>4, <1>5

\* A packet of the session's run: what is taken for a step forward is one, and
\* the timestamp has stepped with the sequence number; what is near and ahead is
\* not taken for old.
LEMMA Follows ==
  ASSUME TypeOK, rtp.init, InReach, Expects,
         NEW p \in net, p.run = last.run, ~Fresh(p),
         NEW d \in Int, d = p.idx - last.idx - 1
  PROVE  /\ ~OldSequence(rtp, Header(p)) =>
              d >= 0 /\ SeqStep(rtp, Header(p)) = d /\ Gap(p) = PacketSize * d
         /\ OldSequence(rtp, Header(p)) => d < 0 \/ 2 * d >= SeqMod
  <1>1. /\ SeqMod \in Nat \ {0} /\ TimeMod \in Nat \ {0} /\ PacketSize \in Nat \ {0}
        /\ MaxGap \in Nat /\ Window \in Nat \ {0}
        /\ 2 * (MaxGap + Window) <= SeqMod /\ PacketSize * SeqMod <= TimeMod
    BY Constants, Widths
  <1>2. p \in Packet /\ p.idx \in Nat /\ last.idx \in Nat
    BY <1>1, Constants DEF TypeOK, Packet
  <1>3. /\ Header(p) \in Headers /\ Header(p).seq = p.idx % SeqMod
        /\ Header(p).timestamp = (p.idx * PacketSize) % TimeMod
        /\ rtp \in RtpStates(Ssrc)
    BY <1>2, HeaderType DEF TypeOK
  <1>4. /\ Opened(rtp, Header(p)).seq = (last.idx + 1) % SeqMod
        /\ Opened(rtp, Header(p)).timestamp = ((last.idx + 1) * PacketSize) % TimeMod
    BY <1>3, OpenedType DEF Fresh, Expects
  <1>5. SeqStep(rtp, Header(p)) = SignedOf(d % SeqMod, SeqMod)
    <2>0. p.idx \in Int /\ last.idx + 1 \in Int
      BY <1>2
    <2>1. SeqStep(rtp, Header(p)) = Signed((p.idx % SeqMod) - ((last.idx + 1) % SeqMod), SeqMod)
      BY <1>3, <1>4 DEF SeqStep
    <2>6. p.idx % SeqMod \in Int /\ (last.idx + 1) % SeqMod \in Int
      BY <2>0, <1>1, ModRange
    <2>2. ((p.idx % SeqMod) - ((last.idx + 1) % SeqMod)) % SeqMod = (p.idx - (last.idx + 1)) % SeqMod
      BY <1>1, <2>0, ModSubtract
    <2>3. p.idx - (last.idx + 1) = d
      BY <1>2
    <2> DEFINE x == (p.idx % SeqMod) - ((last.idx + 1) % SeqMod)
    <2>4. x \in Int /\ SeqStep(rtp, Header(p)) = Signed(x, SeqMod) /\ x % SeqMod = d % SeqMod
      BY <2>1, <2>2, <2>3, <2>6
    <2> HIDE DEF x
    <2> QED
      BY <1>1, <2>4, SignedType
  <1>6. Gap(p) = SignedOf((PacketSize * d) % TimeMod, TimeMod)
    <2> DEFINE a == p.idx * PacketSize
               b == (last.idx + 1) * PacketSize
    <2>1. a \in Int /\ b \in Int /\ a - b = PacketSize * d
      BY <1>1, <1>2
    <2>2. Gap(p) = Signed((a % TimeMod) - (b % TimeMod), TimeMod)
      BY <1>3, <1>4 DEF Gap, TimeStep
    <2> HIDE DEF a, b
    <2>3. a % TimeMod \in Int /\ b % TimeMod \in Int
      BY <1>1, <2>1, ModRange
    <2>4. ((a % TimeMod) - (b % TimeMod)) % TimeMod = (a - b) % TimeMod
      BY <1>1, <2>1, ModSubtract
    <2> DEFINE x == (a % TimeMod) - (b % TimeMod)
    <2>5. x \in Int /\ Gap(p) = Signed(x, TimeMod) /\ x % TimeMod = (PacketSize * d) % TimeMod
      BY <2>1, <2>2, <2>3, <2>4
    <2> HIDE DEF x
    <2> QED
      BY <1>1, <2>5, SignedType
  <1>7. -SeqMod <= 2 * d /\ d < SeqMod
    BY <1>1, <1>2 DEF InReach
  <1>8. ASSUME ~OldSequence(rtp, Header(p))
        PROVE  d >= 0 /\ SeqStep(rtp, Header(p)) = d /\ Gap(p) = PacketSize * d
    <2>0. SeqStep(rtp, Header(p)) \in Int
      BY <1>3, OpenedType
    <2>1. SignedOf(d % SeqMod, SeqMod) >= 0
      BY <1>5, <1>8, <2>0 DEF OldSequence
    <2>2. SignedOf(d % SeqMod, SeqMod) = d /\ 2 * d < SeqMod /\ d >= 0
      BY <1>1, <1>7, <2>1, SignedNotFooled
    <2> DEFINE t == PacketSize * d
    <2>3. t \in Nat /\ 2 * t < PacketSize * SeqMod
      <3>1. t \in Nat /\ 2 * t = PacketSize * (2 * d)
        BY <1>1, <2>2
      <3>2. PacketSize * (2 * d) < PacketSize * SeqMod
        BY <1>1, <2>2
      <3> QED
        BY <3>1, <3>2
    <2>4. SignedOf(t % TimeMod, TimeMod) = t
      <3> HIDE DEF t
      <3>1. 2 * t < TimeMod /\ -TimeMod <= 2 * t /\ t \in Int
        BY <1>1, <2>3
      <3> QED
        BY <1>1, <3>1, SignedExact
    <2> QED
      BY <1>5, <1>6, <2>2, <2>4
  <1>9. ASSUME OldSequence(rtp, Header(p)) PROVE d < 0 \/ 2 * d >= SeqMod
    <2>1. CASE d < 0
      BY <2>1
    <2>2. CASE d >= 0 /\ 2 * d < SeqMod
      <3>1. SignedOf(d % SeqMod, SeqMod) = d
        BY <1>1, <1>7, <2>2, SignedExact
      <3> QED
        BY <1>5, <1>9, <2>2, <3>1 DEF OldSequence
    <2> QED
      BY <1>1, <2>1, <2>2
  <1> QED
    BY <1>8, <1>9

-----------------------------------------------------------------------------
(* What a packet does to the receiver *)

\* A packet with an old sequence number changes the counts of packets and
\* duplicates only.
LEMMA Rejected ==
  ASSUME TypeOK, NEW p \in net, RejectSequence(p)
  PROVE  /\ ~Fresh(p) /\ rtp.init
         /\ rtp' \in RtpStates(Ssrc) /\ rtp'.init /\ rtp'.ssrc = rtp.ssrc
         /\ rtp'.seq = rtp.seq /\ rtp'.timestamp = rtp.timestamp
         /\ rtp'.packets - rtp'.dupes = rtp.packets - rtp.dupes /\ rtp'.drops = rtp.drops
         /\ UNCHANGED <<samples, inCnt, recent, first, last, skipped, clean>>
  <1> DEFINE h == Header(p)
             o == Opened(rtp, h)
  <1>1. p \in Packet /\ rtp \in RtpStates(Ssrc) /\ h \in Headers
    BY HeaderType DEF TypeOK
  <1>2. /\ OldSequence(rtp, h) /\ rtp' = Processed(rtp, h, PacketSize)
        /\ UNCHANGED <<samples, inCnt, recent, first, last, skipped, clean>>
    BY DEF RejectSequence
  <1> HIDE DEF h
  <1>3. ~NewSession(rtp, h)
    <2>1. SUFFICES ASSUME NewSession(rtp, h) PROVE FALSE
      OBVIOUS
    <2>2. SeqStep(rtp, h) = 0
      BY <1>1, <2>1, OpenedType
    <2>3. SeqStep(rtp, h) < 0
      BY <1>2 DEF OldSequence
    <2> QED
      BY <2>2, <2>3
  <1>4. /\ rtp.init /\ rtp.ssrc = h.ssrc /\ o \in RtpStates(Ssrc)
        /\ o.seq = rtp.seq /\ o.timestamp = rtp.timestamp
        /\ o.packets = rtp.packets + 1 /\ o.drops = rtp.drops /\ o.dupes = rtp.dupes
    BY <1>1, <1>3, OpenedType
  <1>5. /\ rtp' \in RtpStates(Ssrc) /\ rtp'.init = TRUE /\ rtp'.ssrc = h.ssrc
        /\ rtp' = [o EXCEPT !.dupes = o.dupes + 1]
    BY <1>1, <1>2, ProcessedType
  <1> HIDE DEF o
  <1>6. /\ rtp'.seq = o.seq /\ rtp'.timestamp = o.timestamp /\ rtp'.packets = o.packets
        /\ rtp'.drops = o.drops /\ rtp'.dupes = o.dupes + 1
    BY <1>4, <1>5 DEF RtpStates
  <1>7. rtp.packets \in Nat /\ rtp.dupes \in Nat
    BY <1>1 DEF RtpStates
  <1>8. rtp'.packets - rtp'.dupes = rtp.packets - rtp.dupes
    BY <1>4, <1>6, <1>7
  <1>9. ~Fresh(p)
    BY <1>3 DEF Fresh, h
  <1> QED
    BY <1>2, <1>4, <1>5, <1>6, <1>8, <1>9

\* The packets whose sequence number is good: the three other verdicts.
Takes(p) == RejectTime(p) \/ RejectJump(p) \/ Accept(p)

\* A packet with a good sequence number moves the sequence past itself, and the
\* first one of a session is at its expected place.
LEMMA Taken ==
  ASSUME TypeOK, NEW p \in net, Takes(p)
  PROVE  /\ ~OldSequence(rtp, Header(p)) /\ Advance(p) /\ Gap(p) \in Int
         /\ rtp' \in RtpStates(Ssrc) /\ rtp'.init /\ rtp'.ssrc = Header(p).ssrc
         /\ rtp'.seq = (p.idx + 1) % SeqMod
         /\ Gap(p) >= 0 => rtp'.timestamp = ((p.idx + 1) * PacketSize) % TimeMod
         /\ Fresh(p) => /\ Gap(p) = 0
                        /\ rtp'.packets = 1 /\ rtp'.drops = 0 /\ rtp'.dupes = 0
         /\ ~Fresh(p) => /\ rtp.init /\ rtp.ssrc = Header(p).ssrc
                         /\ rtp'.packets = rtp.packets + 1 /\ rtp'.dupes = rtp.dupes
                         /\ rtp'.drops = rtp.drops + SeqStep(rtp, Header(p))
  <1> DEFINE h == Header(p)
             o == Opened(rtp, h)
  <1>1. /\ p \in Packet /\ rtp \in RtpStates(Ssrc) /\ h \in Headers
        /\ h.seq = p.idx % SeqMod /\ h.timestamp = (p.idx * PacketSize) % TimeMod
    BY HeaderType DEF TypeOK
  <1>2. ~OldSequence(rtp, h) /\ rtp' = Processed(rtp, h, PacketSize) /\ Advance(p)
    BY DEF Takes, RejectTime, RejectJump, Accept, OldTime, Good
  <1>3. /\ ((p.idx % SeqMod) + 1) % SeqMod = (p.idx + 1) % SeqMod
        /\ (((p.idx * PacketSize) % TimeMod) + PacketSize) % TimeMod
             = ((p.idx + 1) * PacketSize) % TimeMod
    BY <1>1, NextNumbers
  <1>4. Fresh(p) = NewSession(rtp, h) /\ Gap(p) = TimeStep(rtp, h)
    BY DEF Fresh, Gap
  <1> HIDE DEF h
  <1>5. /\ rtp' \in RtpStates(Ssrc) /\ rtp'.init = TRUE /\ rtp'.ssrc = h.ssrc
        /\ rtp'.seq = (h.seq + 1) % SeqMod
        /\ rtp'.packets = o.packets /\ rtp'.dupes = o.dupes
        /\ rtp'.drops = o.drops + SeqStep(rtp, h)
        /\ TimeStep(rtp, h) >= 0 => rtp'.timestamp = (h.timestamp + PacketSize) % TimeMod
    BY <1>1, <1>2, ProcessedType
  <1>6. /\ TimeStep(rtp, h) \in Int
        /\ NewSession(rtp, h) =>
             /\ o.packets = 1 /\ o.drops = 0 /\ o.dupes = 0
             /\ SeqStep(rtp, h) = 0 /\ TimeStep(rtp, h) = 0
        /\ ~NewSession(rtp, h) =>
             /\ rtp.init /\ rtp.ssrc = h.ssrc
             /\ o.packets = rtp.packets + 1 /\ o.drops = rtp.drops /\ o.dupes = rtp.dupes
    BY <1>1, OpenedType
  <1> HIDE DEF o
  <1>7. rtp'.seq = (p.idx + 1) % SeqMod
    BY <1>1, <1>3, <1>5
  <1>8. Gap(p) >= 0 => rtp'.timestamp = ((p.idx + 1) * PacketSize) % TimeMod
    BY <1>1, <1>3, <1>4, <1>5
  <1> QED
    BY <1>2, <1>4, <1>5, <1>6, <1>7, <1>8 DEF h

\* In a session of one run a packet that is taken lies ahead, and the numbers of
\* its header have stepped by the packets that are missing before it.
LEMMA TakenInTurn ==
  ASSUME TypeOK, CleanOK, NEW p \in net, Takes(p), ~Fresh(p), clean, p.run = last.run,
         NEW d \in Int, d = p.idx - last.idx - 1
  PROVE  d >= 0 /\ SeqStep(rtp, Header(p)) = d /\ Gap(p) = PacketSize * d /\ Gap(p) >= 0
  <1>1. rtp.init /\ ~OldSequence(rtp, Header(p))
    BY Taken
  <1>2. InReach /\ Expects
    BY <1>1 DEF CleanOK
  <1>3. d >= 0 /\ SeqStep(rtp, Header(p)) = d /\ Gap(p) = PacketSize * d
    BY <1>1, <1>2, Follows
  <1>4. PacketSize * d >= 0
    BY <1>3, Constants
  <1> QED
    BY <1>3, <1>4

-----------------------------------------------------------------------------
(* The invariant *)

\* What a received packet leaves alone.
LEMMA Received ==
  ASSUME NEW p \in net, Receive(p)
  PROVE  /\ RejectSequence(p) \/ Takes(p)
         /\ net' \subseteq net /\ (net' = net \/ net' = net \ {p})
         /\ UNCHANGED <<run, ssrc, sent, lost>>
  BY DEF Receive, Takes, sendVars

\* What is left of a buffer that was filled and run is a part of what went in.
LEMMA RestOfBuffer ==
  ASSUME NEW m \in Nat
  PROVE  m % BlockSize \in 0..BlockSize - 1 /\ m % BlockSize <= m
  <1> DEFINE q == m \div BlockSize
             r == m % BlockSize
  <1>1. m \in Int /\ BlockSize \in Nat \ {0}
    BY Constants
  <1>2. q \in Nat /\ r \in 0..BlockSize - 1 /\ m = BlockSize * q + r
    BY <1>1, DivMod, DivNat, ModRange
  <1> HIDE DEF q, r
  <1>3. BlockSize * q \in Nat
    BY <1>1, <1>2
  <1>4. r <= m
    BY <1>1, <1>2, <1>3
  <1> QED
    BY <1>2, <1>4 DEF r

\* A sample of the packet and one that was there before are samples.
LEMMA SlotTypes ==
  ASSUME TypeOK, NEW p \in Packet
  PROVE  /\ \A j \in Int : Sample(p, j) \in Slot
         /\ \A j \in Ago(inCnt) : Older(p, j) \in Slot
         /\ Zero \in Slot
  <1>1. p.idx \in Int /\ PacketSize \in Int /\ GivenUp(p) \in Int
    BY Constants DEF Packet, GivenUp, TypeOK
  <1>2. p.idx * PacketSize \in Int
    BY <1>1
  <1>3. Zero \in Slot
    BY DEF Zero, Slot
  <1>4. ASSUME NEW j \in Int PROVE Sample(p, j) \in Slot
    <2>1. p.idx * PacketSize + (PacketSize - 1 - j) - GivenUp(p) \in Int
      BY <1>1, <1>2
    <2> QED
      BY <2>1 DEF Sample, Slot
  <1>5. \A j \in Ago(inCnt) : Older(p, j) \in Slot
    BY <1>3 DEF Older, TypeOK, RecentOK
  <1> QED
    BY <1>3, <1>4, <1>5

\* The filter's input after a packet.
LEMMA PourType ==
  ASSUME TypeOK, NEW p \in net, NEW g \in Nat, Pour(p, g)
  PROVE  inCnt' \in 0..BlockSize - 1 /\ RecentOK'
  <1>1. p \in Packet /\ inCnt \in Nat /\ PacketSize \in Nat \ {0}
    BY Constants DEF TypeOK
  <1>2. PICK m \in Nat : m = inCnt + g + PacketSize
    BY <1>1
  <1>3. inCnt' \in 0..BlockSize - 1 /\ inCnt' <= m
    BY <1>2, RestOfBuffer DEF Pour
  <1>4. DOMAIN recent' = Ago(m)
    BY <1>2 DEF Pour
  <1>5. ASSUME NEW j \in Ago(m) PROVE recent'[j] \in Slot
    <2>1. j \in Int /\ 0 <= j /\ j < inCnt + g + PacketSize
      BY <1>1, <1>2 DEF Ago
    <2>2. recent'[j] = IF j < PacketSize THEN Sample(p, j)
                       ELSE IF j < g + PacketSize THEN Zero
                       ELSE Older(p, j - (g + PacketSize))
      BY <1>2 DEF Pour
    <2>3. ~(j < g + PacketSize) => j - (g + PacketSize) \in Ago(inCnt)
      BY <1>1, <2>1 DEF Ago
    <2> QED
      BY <1>1, <2>1, <2>2, <2>3, SlotTypes
  <1>6. recent' \in [DOMAIN recent' -> Slot]
    BY <1>4, <1>5 DEF Pour
  <1>7. Ago(inCnt') \subseteq Ago(m)
    <2>1. PICK i : i = inCnt'
      OBVIOUS
    <2>2. i \in Int /\ i <= m
      BY <1>3, <2>1, Constants
    <2>3. Ago(i) \subseteq Ago(m)
      BY <2>2 DEF Ago
    <2> QED
      BY <2>1, <2>3
  <1> QED
    BY <1>3, <1>4, <1>6, <1>7 DEF RecentOK

\* The type invariant is inductive.
LEMMA TypeStep ==
  ASSUME TypeOK, [Next]_vars
  PROVE  TypeOK'
  <1> USE Constants
  <1>1. CASE SendPacket
    <2>1. [run |-> run, idx |-> sent] \in Packet /\ sent + 1 \in 0..Joined + MaxSent
      BY <1>1 DEF SendPacket, TypeOK, Packet, Missed
    <2>2. net' \subseteq Packet /\ lost' \in 0..MaxGap
      BY <1>1, <2>1 DEF SendPacket, TypeOK
    <2> QED
      <3>1. RecentOK'
        BY <1>1 DEF SendPacket, TypeOK, RecentOK, rcvVars
      <3> QED
        BY <1>1, <2>1, <2>2, <3>1 DEF SendPacket, TypeOK, rcvVars
  <1>2. CASE Restart
    <2>1. run + 1 \in 0..MaxRun /\ run + 1 \in Ssrc
      BY <1>2 DEF Restart, TypeOK, Ssrc
    <2>2. ssrc' \in [0..MaxRun -> Ssrc]
      BY <1>2, <2>1 DEF Restart, TypeOK
    <2> QED
      <3>1. RecentOK'
        BY <1>2 DEF Restart, TypeOK, RecentOK, rcvVars
      <3> QED
        BY <1>2, <2>1, <2>2, <3>1 DEF Restart, TypeOK, netVars, rcvVars
  <1>3. ASSUME NEW p \in net, Receive(p) PROVE TypeOK'
    <2>1. /\ net' \subseteq Packet /\ copies' \in 0..MaxCopies
          /\ run' \in 0..MaxRun /\ ssrc' \in [0..MaxRun -> Ssrc]
          /\ sent' \in 0..Joined + MaxSent /\ lost' \in 0..MaxGap
      BY <1>3 DEF Receive, TypeOK, sendVars
    <2>2. CASE RejectSequence(p)
      BY <2>1, <2>2, Rejected DEF TypeOK, RecentOK
    <2>3. CASE Takes(p)
      <3>1. rtp' \in RtpStates(Ssrc) /\ Advance(p) /\ Gap(p) \in Int
        BY <2>3, Taken
      <3>3. /\ last' \in Packet /\ first' \in Packet /\ clean' \in BOOLEAN
        BY <3>1 DEF Advance, TypeOK
      <3>4. Counted(p) \in Nat /\ GivenUp(p) \in Nat
        BY DEF Counted, GivenUp, TypeOK
      <3>5. /\ samples' \in Nat /\ skipped' \in Nat /\ inCnt' \in 0..BlockSize - 1
            /\ RecentOK'
        <4>0. RecentOK
          BY DEF TypeOK
        <4>1. CASE RejectTime(p)
          BY <3>4, <4>0, <4>1 DEF RejectTime, TypeOK, RecentOK
        <4>2. CASE RejectJump(p)
          <5>1. UNCHANGED <<inCnt, recent>> /\ samples' = Counted(p)
                /\ skipped' = GivenUp(p) + Gap(p) + PacketSize /\ Gap(p) > MaxStep
            BY <4>2 DEF RejectJump
          <5>2. RecentOK'
            BY <4>0, <5>1 DEF RecentOK
          <5> QED
            BY <3>1, <3>4, <5>1, <5>2 DEF TypeOK
        <4>3. CASE Accept(p)
          <5>1. /\ samples' = Counted(p) + Gap(p) + PacketSize /\ skipped' = GivenUp(p)
                /\ Pour(p, Gap(p)) /\ Gap(p) \in Nat
            BY <4>3 DEF Accept
          <5>2. inCnt' \in 0..BlockSize - 1 /\ RecentOK'
            BY <5>1, PourType
          <5> QED
            BY <3>4, <5>1, <5>2
        <4> QED
          BY <2>3, <4>1, <4>2, <4>3 DEF Takes
      <3> QED
        BY <2>1, <3>1, <3>3, <3>5 DEF TypeOK
    <2> QED
      BY <1>3, <2>2, <2>3, Received
  <1>4. CASE UNCHANGED vars
    BY <1>4 DEF TypeOK, RecentOK, vars, sendVars, netVars, rcvVars
  <1> QED
    BY <1>1, <1>2, <1>3, <1>4 DEF Next

\* The sender waits for what is in flight, so nothing in flight is older than
\* the delay allows.
LEMMA NetStep ==
  ASSUME TypeOK, NetBounds, [Next]_vars
  PROVE  NetBounds'
  <1>0. Window \in Nat \ {0} /\ run \in Nat /\ sent \in Nat
    BY Constants DEF TypeOK
  <1>1. CASE SendPacket
    <2> DEFINE n == [run |-> run, idx |-> sent]
    <2>1. run' = run /\ sent' = sent + 1 /\ net' \subseteq net \cup {n}
      BY <1>1 DEF SendPacket
    <2>2. \A p \in net : p.idx \in Nat /\ (p.run = run => sent - p.idx < Window)
      BY <1>1, Constants DEF SendPacket, TypeOK, Packet
    <2>3. \A p \in net : /\ p.run <= run
                         /\ p.run = run => p.idx < sent /\ sent - p.idx <= Window
      BY DEF NetBounds
    <2>4. n.run = run /\ n.idx = sent
      OBVIOUS
    <2> HIDE DEF n
    <2>5. ASSUME NEW p \in net'
          PROVE  /\ p.run <= run'
                 /\ p.run = run' => p.idx < sent' /\ sent' - p.idx <= Window
      <3>1. CASE p \in net
        <4>1. p.idx \in Nat
          BY <2>2, <3>1
        <4>3. p.run <= run
          BY <2>3, <3>1
        <4>2. ASSUME p.run = run PROVE p.idx < sent /\ sent - p.idx < Window
          BY <2>2, <2>3, <3>1, <4>2
        <4> QED
          BY <1>0, <2>1, <4>1, <4>2, <4>3
      <3>2. CASE p = n
        BY <1>0, <2>1, <2>4, <3>2
      <3> QED
        BY <2>1, <2>5, <3>1, <3>2
    <2>6. ASSUME NEW p \in net', NEW q \in net', p.run = q.run
          PROVE  p.idx - q.idx < Window
      <3>1. CASE p \in net /\ q \in net
        BY <2>6, <3>1 DEF NetBounds
      <3>2. CASE p = n
        BY <1>0, <2>1, <2>2, <2>3, <2>4, <2>6, <3>2
      <3>3. CASE q = n /\ p \in net
        BY <1>0, <2>2, <2>3, <2>4, <2>6, <3>3
      <3> QED
        BY <2>1, <3>1, <3>2, <3>3
    <2> QED
      BY <2>5, <2>6 DEF NetBounds
  <1>2. CASE Restart
    BY <1>0, <1>2, Constants DEF Restart, NetBounds, netVars, TypeOK, Packet
  <1>3. ASSUME NEW p \in net, Receive(p) PROVE NetBounds'
    <2>1. net' \subseteq net /\ UNCHANGED <<run, sent>>
      BY <1>3, Received
    <2> QED
      BY <2>1 DEF NetBounds
  <1>4. CASE UNCHANGED vars
    BY <1>4 DEF NetBounds, vars, sendVars, netVars
  <1> QED
    BY <1>1, <1>2, <1>3, <1>4 DEF Next

\* A session's packets keep its SSRC, whatever runs they come from.
LEMMA SessionStep ==
  ASSUME TypeOK, NetBounds, SessionOK, [Next]_vars
  PROVE  SessionOK'
  <1>0. /\ run \in Nat /\ sent \in Nat /\ first \in Packet /\ last \in Packet
        /\ first.run \in 0..MaxRun /\ last.run \in 0..MaxRun /\ last.idx \in Nat
    BY Constants DEF TypeOK, Packet
  <1>1. CASE SendPacket
    BY <1>0, <1>1 DEF SendPacket, SessionOK, rcvVars
  <1>2. CASE Restart
    <2>1. SUFFICES ASSUME rtp'.init PROVE SessionOK'
      BY DEF SessionOK
    <2>2. run' = run + 1 /\ UNCHANGED <<rtp, first, last>> /\ rtp.init
      BY <1>2, <2>1 DEF Restart, rcvVars
    <2>3. /\ first.run <= run /\ last.run <= run
          /\ ssrc[first.run] = rtp.ssrc /\ ssrc[last.run] = rtp.ssrc
      BY <2>2 DEF SessionOK
    <2>4. \A r \in 0..MaxRun : r <= run => ssrc'[r] = ssrc[r]
      BY <1>0, <1>2 DEF Restart, TypeOK
    <2>5. ssrc'[first.run] = ssrc[first.run] /\ ssrc'[last.run] = ssrc[last.run]
      BY <1>0, <2>3, <2>4
    <2>6. first.run <= run' /\ last.run < run'
      BY <1>0, <2>2, <2>3
    <2> QED
      BY <1>0, <2>2, <2>3, <2>5, <2>6 DEF SessionOK
  <1>3. ASSUME NEW p \in net, Receive(p) PROVE SessionOK'
    <2>1. UNCHANGED <<run, ssrc, sent>> /\ (RejectSequence(p) \/ Takes(p))
      BY <1>3, Received
    <2>2. CASE RejectSequence(p)
      BY <2>1, <2>2, Rejected DEF SessionOK
    <2>3. CASE Takes(p)
      <3>1. /\ p.run <= run /\ (p.run = run => p.idx < sent)
            /\ Header(p).ssrc = ssrc[p.run]
        BY HeaderType DEF NetBounds, TypeOK
      <3>2. rtp'.ssrc = Header(p).ssrc /\ Advance(p)
        BY <2>3, Taken
      <3>3. CASE Fresh(p)
        BY <2>1, <3>1, <3>2, <3>3 DEF Advance, SessionOK
      <3>4. CASE ~Fresh(p)
        <4>1. rtp.init /\ rtp.ssrc = Header(p).ssrc
          BY <2>3, <3>4, Taken
        <4> QED
          BY <2>1, <3>1, <3>2, <3>4, <4>1 DEF Advance, SessionOK
      <3> QED
        BY <3>3, <3>4
    <2> QED
      BY <2>1, <2>2, <2>3
  <1>4. CASE UNCHANGED vars
    BY <1>4 DEF SessionOK, vars, sendVars, rcvVars
  <1> QED
    BY <1>1, <1>2, <1>3, <1>4 DEF Next

\* What is sent next is in reach of the last packet used.
LEMMA SendStaysNear ==
  ASSUME TypeOK, SessionOK, CleanOK, SendPacket, rtp.init, clean
  PROVE  InReach' /\ NextIsNear'
  <1> DEFINE n == [run |-> run, idx |-> sent]
  <1>0. /\ Window \in Nat \ {0} /\ MaxGap \in Nat /\ sent \in Nat
        /\ last.idx \in Nat /\ lost \in 0..MaxGap
        /\ \A p \in net : p.idx \in Nat
    BY Constants DEF TypeOK, Packet
  <1>1. /\ run' = run /\ last' = last /\ sent' = sent + 1
        /\ \/ net' = net \cup {n} /\ lost' = 0
           \/ net' = net /\ lost' = lost + 1
        /\ \A p \in net : p.run = run => sent - p.idx < Window
    BY DEF SendPacket, rcvVars
  <1>2. InReach /\ NextIsNear /\ (last.run = run => last.idx < sent)
    BY DEF CleanOK, SessionOK
  <1>3. n.run = run /\ n.idx = sent
    OBVIOUS
  <1> HIDE DEF n
  <1>4. ASSUME last.run = run PROVE sent - last.idx < MaxGap + 2 * Window
    <2>1. CASE sent - lost - last.idx <= Window
      BY <1>0, <2>1
    <2>2. CASE \E p \in net : /\ p.run = run /\ p.idx > last.idx
                              /\ p.idx - last.idx <= MaxGap + Window
      <3>1. PICK p \in net : p.run = run /\ p.idx - last.idx <= MaxGap + Window
        BY <2>2
      <3>2. sent - p.idx < Window
        BY <1>1, <3>1
      <3> QED
        BY <1>0, <3>1, <3>2
    <2> QED
      BY <1>2, <1>4, <2>1, <2>2 DEF NextIsNear
  <1>5. InReach'
    <2>1. SUFFICES ASSUME NEW p \in net', p.run = last.run
                   PROVE  /\ last.idx - p.idx < Window
                          /\ p.idx - last.idx < MaxGap + 2 * Window
      BY <1>1 DEF InReach
    <2>2. CASE p \in net
      BY <1>2, <2>1, <2>2 DEF InReach
    <2>3. CASE p = n
      BY <1>0, <1>2, <1>3, <1>4, <2>1, <2>3
    <2> QED
      BY <1>1, <2>1, <2>2, <2>3
  <1>6. NextIsNear'
    <2>1. SUFFICES ASSUME last.run = run
                   PROVE  \/ sent' - lost' - last.idx <= Window
                          \/ \E p \in net' : /\ p.run = run /\ p.idx > last.idx
                                              /\ p.idx - last.idx <= MaxGap + Window
      BY <1>1 DEF NextIsNear
    <2>2. CASE \E p \in net : /\ p.run = run /\ p.idx > last.idx
                              /\ p.idx - last.idx <= MaxGap + Window
      BY <1>1, <2>2
    <2>3. CASE sent - lost - last.idx <= Window
      <3>1. CASE net' = net \cup {n} /\ lost' = 0
        <4>1. n.idx > last.idx /\ n.idx - last.idx <= MaxGap + Window
          BY <1>0, <1>2, <1>3, <2>1, <2>3
        <4> QED
          BY <1>3, <3>1, <4>1
      <3>2. CASE net' = net /\ lost' = lost + 1
        BY <1>0, <1>1, <2>3, <3>2
      <3> QED
        BY <1>1, <3>1, <3>2
    <2> QED
      BY <1>2, <2>1, <2>2, <2>3 DEF NextIsNear
  <1> QED
    BY <1>5, <1>6

\* A packet that is taken becomes the one that those in flight are near to.
LEMMA TakenStaysNear ==
  ASSUME TypeOK, NetBounds, CleanOK, NEW p \in net, Receive(p), Takes(p), clean'
  PROVE  InReach' /\ NextIsNear' /\ Expects'
  <1>0. /\ Window \in Nat \ {0} /\ MaxGap \in Nat /\ sent \in Nat /\ lost \in Nat
        /\ \A q \in net : q.idx \in Nat
    BY Constants DEF TypeOK, Packet
  <1>1. net' \subseteq net /\ UNCHANGED <<run, ssrc, sent, lost>>
    BY Received
  <1>2. Advance(p) /\ last' = p
    BY Taken DEF Advance
  <1>3. InReach'
    <2>1. SUFFICES ASSUME NEW q \in net, q.run = p.run
                   PROVE  p.idx - q.idx < Window /\ q.idx - p.idx < MaxGap + 2 * Window
      BY <1>1, <1>2 DEF InReach
    <2>2. p.idx - q.idx < Window /\ q.idx - p.idx < Window
      BY <2>1 DEF NetBounds
    <2> QED
      BY <1>0, <2>2
  <1>4. NextIsNear'
    <2>1. SUFFICES ASSUME p.run = run PROVE sent - lost - p.idx <= Window
      BY <1>1, <1>2 DEF NextIsNear
    <2>2. sent - p.idx <= Window
      BY <2>1 DEF NetBounds
    <2> QED
      BY <1>0, <2>2
  <1>5. Gap(p) >= 0
    <2>1. CASE Fresh(p)
      BY <2>1, Taken
    <2>2. CASE ~Fresh(p)
      <3>1. clean /\ p.run = last.run
        BY <1>2, <2>2 DEF Advance
      <3> DEFINE d == p.idx - last.idx - 1
      <3>2. d \in Int
        BY <1>0, Constants DEF TypeOK, Packet
      <3> QED
        BY <2>2, <3>1, <3>2, TakenInTurn
    <2> QED
      BY <2>1, <2>2
  <1>6. Expects'
    BY <1>2, <1>5, Taken DEF Expects
  <1> QED
    BY <1>3, <1>4, <1>6

\* A packet that is rejected is not the one that is near and ahead.
LEMMA RejectedStaysNear ==
  ASSUME TypeOK, CleanOK, NEW p \in net, Receive(p), RejectSequence(p), clean
  PROVE  InReach' /\ NextIsNear' /\ Expects'
  <1>0. /\ Window \in Nat \ {0} /\ MaxGap \in Nat /\ SeqMod \in Nat
        /\ last.idx \in Nat /\ p.idx \in Nat
    BY Constants DEF TypeOK, Packet
  <1>1. /\ net' = net \/ net' = net \ {p}
        /\ UNCHANGED <<run, ssrc, sent, lost>>
    BY Received
  <1>2. /\ ~Fresh(p) /\ rtp.init /\ last' = last
        /\ rtp'.seq = rtp.seq /\ rtp'.timestamp = rtp.timestamp
    BY Rejected
  <1>3. InReach /\ NextIsNear /\ Expects
    BY <1>2 DEF CleanOK
  <1>4. InReach'
    BY <1>1, <1>2, <1>3 DEF InReach
  <1>5. Expects'
    BY <1>2, <1>3 DEF Expects
  <1>6. NextIsNear'
    <2>1. SUFFICES ASSUME last.run = run
                   PROVE  \/ sent - lost - last.idx <= Window
                          \/ \E q \in net' : /\ q.run = run /\ q.idx > last.idx
                                              /\ q.idx - last.idx <= MaxGap + Window
      BY <1>1, <1>2 DEF NextIsNear
    <2>2. CASE sent - lost - last.idx <= Window
      BY <2>2
    <2>3. CASE \E q \in net : /\ q.run = run /\ q.idx > last.idx
                              /\ q.idx - last.idx <= MaxGap + Window
      <3>1. PICK q \in net : /\ q.run = run /\ q.idx > last.idx
                            /\ q.idx - last.idx <= MaxGap + Window
        BY <2>3
      <3>2. q # p
        <4>1. SUFFICES ASSUME q = p PROVE FALSE
          OBVIOUS
        <4> DEFINE d == p.idx - last.idx - 1
        <4>2. d \in Int /\ d >= 0 /\ 2 * d < 2 * (MaxGap + Window)
          BY <1>0, <3>1, <4>1
        <4>3. OldSequence(rtp, Header(p)) /\ p.run = last.run
          BY <2>1, <3>1, <4>1 DEF RejectSequence
        <4>4. d < 0 \/ 2 * d >= SeqMod
          BY <1>2, <1>3, <4>2, <4>3, Follows
        <4> QED
          BY <1>0, <4>2, <4>4, Widths
      <3> QED
        BY <1>1, <3>1, <3>2
    <2> QED
      BY <1>3, <2>1, <2>2, <2>3 DEF NextIsNear
  <1> QED
    BY <1>4, <1>5, <1>6

\* The distances of a session of one run are kept.
LEMMA CleanStep ==
  ASSUME TypeOK, NetBounds, SessionOK, CleanOK, [Next]_vars
  PROVE  CleanOK'
  <1>0. SUFFICES ASSUME rtp'.init, clean' PROVE InReach' /\ NextIsNear' /\ Expects'
    BY DEF CleanOK
  <1>1. CASE SendPacket
    <2>1. rtp.init /\ clean /\ UNCHANGED <<rtp, last>>
      BY <1>0, <1>1 DEF SendPacket, rcvVars
    <2> QED
      BY <1>1, <2>1, SendStaysNear DEF CleanOK, Expects
  <1>2. CASE Restart
    <2>1. rtp.init /\ clean /\ UNCHANGED <<rtp, last, net>> /\ run' = run + 1
      BY <1>0, <1>2 DEF Restart, rcvVars, netVars
    <2>2. last.run <= run /\ last.run \in Int /\ run \in Int
      BY <2>1, Constants DEF SessionOK, TypeOK, Packet
    <2>3. last.run # run'
      BY <2>1, <2>2
    <2> QED
      BY <2>1, <2>3 DEF CleanOK, InReach, NextIsNear, Expects
  <1>3. ASSUME NEW p \in net, Receive(p) PROVE InReach' /\ NextIsNear' /\ Expects'
    <2>1. CASE RejectSequence(p)
      <3>1. clean
        BY <1>0, <2>1, Rejected
      <3> QED
        BY <1>3, <2>1, <3>1, RejectedStaysNear
    <2>2. CASE Takes(p)
      BY <1>0, <1>3, <2>2, TakenStaysNear
    <2> QED
      BY <1>3, <2>1, <2>2, Received
  <1>4. CASE UNCHANGED vars
    BY <1>0, <1>4 DEF CleanOK, InReach, NextIsNear, Expects, vars, sendVars, netVars, rcvVars
  <1> QED
    BY <1>1, <1>2, <1>3, <1>4 DEF Next

-----------------------------------------------------------------------------
(* The counts *)

\* The stream's time up to the packet that is taken.
LEMMA StreamTimeStep ==
  ASSUME NEW a \in Int, NEW b \in Int, NEW c \in Int
  PROVE  (c - a + 1) * PacketSize
           = (b - a + 1) * PacketSize + PacketSize * (c - b - 1) + PacketSize
  BY Constants

\* A packet that is taken is counted with the samples missing before it.
LEMMA TakenIsCounted ==
  ASSUME TypeOK, CleanOK, SampleClock, NEW p \in net, Takes(p), clean'
  PROVE  SampleClock'
  <1>0. /\ p.idx \in Int /\ last.idx \in Int /\ first.idx \in Int
        /\ samples \in Nat /\ skipped \in Nat /\ rtp.packets \in Nat
        /\ rtp.drops \in Nat /\ rtp.dupes \in Nat /\ PacketSize \in Nat
    BY Constants DEF TypeOK, Packet, RtpStates
  <1>1. Advance(p) /\ last' = p
    BY Taken DEF Advance
  <1>2. CASE Fresh(p)
    <2>1. Gap(p) = 0 /\ rtp'.packets = 1 /\ rtp'.drops = 0 /\ rtp'.dupes = 0
      BY <1>2, Taken
    <2>2. Accept(p)
      <3>1. ~(Gap(p) < 0) /\ ~(Gap(p) > MaxStep)
        BY <2>1, Constants
      <3> QED
        BY <3>1 DEF Takes, RejectTime, RejectJump, OldTime, Gap
    <2>3. samples' = PacketSize /\ skipped' = 0
      BY <1>0, <1>2, <2>1, <2>2 DEF Accept, Counted, GivenUp
    <2>4. first' = p
      BY <1>1, <1>2 DEF Advance
    <2>5. last'.idx - first'.idx + 1 = 1
      BY <1>0, <1>1, <2>4
    <2> QED
      BY <1>0, <2>1, <2>3, <2>5 DEF SampleClock, StreamTime
  <1>3. CASE ~Fresh(p)
    <2> DEFINE d == p.idx - last.idx - 1
               g == PacketSize * d
    <2>0. d \in Int /\ g \in Int
      BY <1>0
    <2>1. clean /\ p.run = last.run /\ first' = first
      BY <1>1, <1>3 DEF Advance
    <2>2. d >= 0 /\ SeqStep(rtp, Header(p)) = d /\ Gap(p) = g /\ Gap(p) >= 0
      BY <1>3, <2>0, <2>1, TakenInTurn
    <2>3. /\ rtp.init /\ rtp'.packets = rtp.packets + 1 /\ rtp'.dupes = rtp.dupes
          /\ rtp'.drops = rtp.drops + d
      BY <1>3, <2>2, Taken
    <2>4. /\ samples + skipped = StreamTime
          /\ (rtp.packets - rtp.dupes) + rtp.drops = last.idx - first.idx + 1
      BY <2>1, <2>3 DEF SampleClock
    <2>5. samples' + skipped' = samples + skipped + g + PacketSize
      <3>1. RejectJump(p) \/ Accept(p)
        <4>1. ~(Gap(p) < 0)
          <5> HIDE DEF g
          <5> QED
            BY <2>0, <2>2
        <4> QED
          BY <4>1 DEF Takes, RejectTime, OldTime, Gap
      <3>2. CASE RejectJump(p)
        <4>1. samples' = samples /\ skipped' = skipped + g + PacketSize
          BY <1>3, <2>2, <3>2 DEF RejectJump, Counted, GivenUp
        <4> QED
          BY <1>0, <2>0, <4>1
      <3>3. CASE Accept(p)
        <4>1. samples' = samples + (g + PacketSize) /\ skipped' = skipped
          <5>1. samples' = samples + Gap(p) + PacketSize /\ skipped' = skipped
            BY <1>3, <3>3 DEF Accept, Counted, GivenUp
          <5> HIDE DEF g
          <5> QED
            BY <1>0, <2>0, <2>2, <5>1
        <4> QED
          BY <1>0, <2>0, <4>1
      <3> QED
        BY <3>1, <3>2, <3>3
    <2>6. StreamTime' = StreamTime + g + PacketSize
      <3>1. StreamTime' = (p.idx - first.idx + 1) * PacketSize
        BY <1>1, <2>1 DEF StreamTime
      <3> QED
        BY <1>0, <3>1, StreamTimeStep DEF StreamTime
    <2>7. samples' + skipped' = StreamTime'
      BY <2>4, <2>5, <2>6
    <2>8. (rtp'.packets - rtp'.dupes) + rtp'.drops = last'.idx - first'.idx + 1
      <3> HIDE DEF g
      <3>1. (rtp'.packets - rtp'.dupes) + rtp'.drops
              = (rtp.packets - rtp.dupes) + rtp.drops + 1 + d
        BY <1>0, <2>0, <2>3
      <3> QED
        BY <1>0, <1>1, <2>1, <2>4, <3>1
    <2> QED
      BY <2>7, <2>8 DEF SampleClock
  <1> QED
    BY <1>2, <1>3

\* The sample count stays on the stream's time.
LEMMA SampleClockStep ==
  ASSUME TypeOK, CleanOK, SampleClock, [Next]_vars
  PROVE  SampleClock'
  <1>1. ASSUME UNCHANGED rcvVars PROVE SampleClock'
    BY <1>1 DEF SampleClock, StreamTime, rcvVars
  <1>2. ASSUME NEW p \in net, Receive(p) PROVE SampleClock'
    <2>1. CASE RejectSequence(p)
      BY <2>1, Rejected DEF SampleClock, StreamTime
    <2>2. CASE Takes(p)
      BY <2>2, TakenIsCounted DEF SampleClock
    <2> QED
      BY <1>2, <2>1, <2>2, Received
  <1> QED
    BY <1>1, <1>2 DEF Next, SendPacket, Restart, vars

\* The samples of a packet that is taken come into the filter's input where the
\* count says, and move what is there by as many places as the count moves on.
LEMMA PouredInPlace ==
  ASSUME TypeOK, CleanOK, SampleClock, FilterInPlace, NEW p \in net, Accept(p), clean'
  PROVE  FilterInPlace'
  <1> DEFINE g == Gap(p)
  <1>1. /\ samples' = Counted(p) + g + PacketSize /\ skipped' = GivenUp(p)
        /\ Pour(p, g) /\ Advance(p) /\ g \in Nat
    BY DEF Accept
  <1>2. Takes(p)
    BY DEF Takes
  <1> HIDE DEF g
  <1>3. /\ p.idx \in Int /\ first.idx \in Int /\ first'.idx \in Int
        /\ samples \in Int /\ PacketSize \in Nat \ {0} /\ inCnt \in Nat /\ GivenUp(p) \in Int
    <2>1. p \in Packet /\ first \in Packet /\ first' \in Packet
      BY <1>1 DEF TypeOK, Advance
    <2>2. p.idx \in Int /\ first.idx \in Int /\ first'.idx \in Int
      BY <2>1, Constants DEF Packet
    <2> QED
      BY <2>2, Constants DEF TypeOK, GivenUp
  <1>4. /\ rtp'.init /\ last' = p
        /\ samples' + GivenUp(p) = (p.idx - first'.idx + 1) * PacketSize
    <2>1. SampleClock' /\ rtp'.init
      BY <1>2, TakenIsCounted, Taken
    <2> QED
      BY <1>1, <2>1 DEF SampleClock, StreamTime, Advance
  <1>5. PICK f \in Int : f = first'.idx * PacketSize
    BY <1>3
  <1>6. PICK h \in Int : h = p.idx * PacketSize
    BY <1>3
  <1>7. samples' \in Int /\ samples' + GivenUp(p) = h - f + PacketSize
    <2>1. (p.idx - first'.idx + 1) * PacketSize
            = p.idx * PacketSize - first'.idx * PacketSize + PacketSize
      BY <1>3
    <2>2. samples' \in Int
      BY <1>1, <1>3 DEF Counted
    <2> QED
      BY <1>4, <1>5, <1>6, <2>1, <2>2
  <1>8. SUFFICES ASSUME NEW j \in DOMAIN recent', recent'[j].real
                 PROVE  recent'[j].at = f + samples' - 1 - j
    BY <1>5 DEF FilterInPlace
  <1>9. /\ j \in Int /\ 0 <= j /\ j < inCnt + g + PacketSize
        /\ recent'[j] = IF j < PacketSize THEN Sample(p, j)
                         ELSE IF j < g + PacketSize THEN Zero
                         ELSE Older(p, j - (g + PacketSize))
    BY <1>1, <1>3 DEF Pour, Ago
  <1>10. CASE j < PacketSize
    <2>1. recent'[j] = Sample(p, j)
      BY <1>9, <1>10, Zenon
    <2>2. Sample(p, j).at = p.idx * PacketSize + (PacketSize - 1 - j) - GivenUp(p)
      BY Zenon DEF Sample
    <2>3. Sample(p, j).at = h + (PacketSize - 1 - j) - GivenUp(p)
      BY <1>6, <2>2, Zenon
    <2>4. PICK u \in Int : u = GivenUp(p)
      BY <1>3, Zenon
    <2>5. PICK n \in Int : n = samples'
      BY <1>7, Zenon
    <2>6. n + u = h - f + PacketSize
      BY <1>7, <2>4, <2>5, Zenon
    <2>7. j \in Int /\ PacketSize \in Int
      BY <1>3, <1>9
    <2>8. h + (PacketSize - 1 - j) - u = f + n - 1 - j
      BY <2>6, <2>7
    <2>9. recent'[j].at = h + (PacketSize - 1 - j) - u
      BY <2>1, <2>3, <2>4, Zenon
    <2> QED
      BY <2>5, <2>8, <2>9, Zenon
  <1>11. CASE ~(j < PacketSize)
    <2> DEFINE k == j - (g + PacketSize)
    <2>1. ~(j < g + PacketSize) /\ recent'[j] = Older(p, k)
      BY <1>8, <1>9, <1>11 DEF Zero
    <2>2. k \in Ago(inCnt) /\ k \in Int
      BY <1>1, <1>3, <1>9, <2>1 DEF Ago
    <2> HIDE DEF k
    <2>3. ~Fresh(p) /\ recent[k].real /\ recent'[j] = recent[k]
      BY <1>8, <2>1 DEF Older, Zero
    <2>4. k \in DOMAIN recent /\ rtp.init /\ clean /\ first' = first
      BY <1>1, <1>2, <2>2, <2>3, Taken DEF TypeOK, RecentOK, Advance
    <2>5. recent[k].at = f + samples - 1 - k
      BY <1>5, <2>3, <2>4 DEF FilterInPlace
    <2>6. samples' = samples + g + PacketSize
      BY <1>1, <2>3 DEF Counted
    <2>7. k = j - (g + PacketSize)
      BY DEF k
    <2> QED
      BY <1>1, <1>3, <1>9, <2>2, <2>3, <2>5, <2>6, <2>7
  <1> QED
    BY <1>10, <1>11

\* Every sample in the filter's input stays where the count says.
LEMMA FilterStep ==
  ASSUME TypeOK, CleanOK, SampleClock, FilterInPlace, [Next]_vars
  PROVE  FilterInPlace'
  <1>1. ASSUME UNCHANGED rcvVars PROVE FilterInPlace'
    BY <1>1 DEF FilterInPlace, rcvVars
  <1>2. ASSUME NEW p \in net, Receive(p) PROVE FilterInPlace'
    <2>1. CASE RejectSequence(p)
      BY <2>1, Rejected DEF FilterInPlace
    <2>2. CASE RejectTime(p) \/ RejectJump(p)
      <3>1. Takes(p)
        BY <2>2 DEF Takes
      <3>2. ~Fresh(p)
        <4>1. SUFFICES ASSUME Fresh(p) PROVE FALSE
          OBVIOUS
        <4>2. Gap(p) = 0
          BY <3>1, <4>1, Taken
        <4>3. Gap(p) < 0 \/ Gap(p) > MaxStep
          BY <2>2 DEF RejectTime, RejectJump, OldTime, Gap
        <4> QED
          BY <4>2, <4>3, Constants
      <3>3. UNCHANGED <<samples, recent, first>> /\ (clean' => clean) /\ rtp.init
        BY <2>2, <3>1, <3>2, Taken DEF RejectTime, RejectJump, Counted, Advance
      <3> QED
        BY <3>3 DEF FilterInPlace
    <2>3. CASE Accept(p)
      <3>1. CASE clean'
        BY <2>3, <3>1, PouredInPlace
      <3>2. CASE ~clean'
        BY <3>2 DEF FilterInPlace
      <3> QED
        BY <3>1, <3>2
    <2> QED
      BY <1>2, <2>1, <2>2, <2>3 DEF Receive
  <1> QED
    BY <1>1, <1>2 DEF Next, SendPacket, Restart, vars

-----------------------------------------------------------------------------
(* Theorems *)

\* The invariant holds at the start and is kept by every step.
THEOREM Inductive == Spec => []IInv
  <1>1. Init => IInv
    <2> SUFFICES ASSUME Init PROVE IInv
      OBVIOUS
    <2>1. TypeOK
      <3>1. Unopened \in RtpStates(Ssrc)
        BY Constants DEF Unopened, RtpStates
      <3>2. NoPacket \in Packet
        BY Constants DEF NoPacket, Packet
      <3> QED
        <4>1. RecentOK
          BY DEF Init, RecentOK, Ago
        <4> QED
          BY <3>1, <3>2, <4>1, Constants DEF Init, TypeOK, Ssrc
    <2>2. rtp.init = FALSE /\ net = {}
      BY DEF Init, Unopened
    <2>3. NetBounds /\ SessionOK /\ CleanOK /\ SampleClock
      BY <2>2 DEF NetBounds, SessionOK, CleanOK, SampleClock
    <2>4. FilterInPlace
      BY <2>2 DEF FilterInPlace
    <2> QED
      BY <2>1, <2>3, <2>4 DEF IInv
  <1>2. IInv /\ [Next]_vars => IInv'
    BY TypeStep, NetStep, SessionStep, CleanStep, SampleClockStep, FilterStep DEF IInv
  <1> QED
    BY <1>1, <1>2, PTL DEF Spec

\* The state stays well-typed, whatever the network does.
THEOREM TypeCorrect == Spec => []TypeOK
  BY Inductive, PTL DEF IInv

\* radio's sample count and the counts of rtp_process are the stream's own, for
\* as long as a session has packets of one run only.
THEOREM SampleClockHolds == Spec => []SampleClock
  BY Inductive, PTL DEF IInv

\* What is in the filter's input, and in the blocks last run, are the samples of
\* the stream that the count stands for, place by place.
THEOREM FilterInPlaceHolds == Spec => []FilterInPlace
  BY Inductive, PTL DEF IInv

\* No packet's samples are used twice or out of order.
THEOREM NoRepeatHolds == Spec => NoRepeat
  <1> DEFINE A == rtp.init /\ first' = first /\ clean' /\ samples' # samples
                    => last'.idx > last.idx
  <1>1. IInv /\ [Next]_vars => [A]_vars
    <2> SUFFICES ASSUME IInv, [Next]_vars, rtp.init, first' = first, clean', samples' # samples
                 PROVE  last'.idx > last.idx
      OBVIOUS
    <2>0. TypeOK /\ SessionOK /\ CleanOK
      BY DEF IInv
    <2>1. PICK p \in net : Receive(p)
      BY DEF Next, SendPacket, Restart, vars, rcvVars
    <2>2. Takes(p)
      BY <2>0, <2>1, Received, Rejected
    <2>3. Advance(p)
      BY <2>0, <2>2, Taken
    <2>4. ~Fresh(p)
      <3>1. SUFFICES ASSUME Fresh(p) PROVE FALSE
        OBVIOUS
      <3>2. p = first
        BY <2>3, <3>1 DEF Advance
      <3>3. Header(p).ssrc = ssrc[p.run]
        BY <2>0, HeaderType DEF TypeOK
      <3>4. ssrc[first.run] = rtp.ssrc
        BY <2>0 DEF SessionOK
      <3> QED
        BY <3>1, <3>2, <3>3, <3>4 DEF Fresh, NewSession
    <2>5. clean /\ p.run = last.run /\ last' = p
      BY <2>3, <2>4 DEF Advance
    <2>6. p.idx \in Int /\ last.idx \in Int
      BY <2>0, Constants DEF TypeOK, Packet
    <2> DEFINE d == p.idx - last.idx - 1
    <2>7. d \in Int /\ d >= 0
      BY <2>0, <2>2, <2>4, <2>5, <2>6, TakenInTurn
    <2> QED
      BY <2>5, <2>6, <2>7
  <1> QED
    BY <1>1, Inductive, PTL DEF Spec, NoRepeat
=============================================================================
