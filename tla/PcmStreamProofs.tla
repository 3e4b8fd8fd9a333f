-------------------------- MODULE PcmStreamProofs --------------------------
(***************************************************************************)
(* Proofs about the receivers of PCM: the stream and its Opus transcoder,  *)
(* for any packets, blocks, frames, silences, losses, copies and delays,   *)
(* then the sessions of monitor, opus and pcmcat, for any threads, groups, *)
(* streams and places in memory.                                           *)
(*                                                                         *)
(* The stream: the packets in flight and the one accepted last are pieces  *)
(* of the audio in the order of their numbers, with nothing but silence    *)
(* between two whose numbers are consecutive; a packet that rtp_process    *)
(* accepts is ahead of everything that came before, however the numbers    *)
(* wrap; and the sample with which a talk spurt begins waits in the buffer *)
(* for as long as the marker does.                                         *)
(*                                                                         *)
(* The sessions: the places in use can be put in a row that the pointers   *)
(* follow; a thread that is to start a decoder is alone with its session;  *)
(* and what pcmcat takes for the next packet is the one after the last it  *)
(* wrote.                                                                  *)
(***************************************************************************)
EXTENDS PcmStream, ReceiverSessions, ModularArithmetic, SequenceTheorems, FiniteSetTheorems

\* The packets that matter: in flight, or accepted last.
Known == net \cup ({last} \ {NoPacket})

\* Packet q comes after p in the audio, next to it if its number is the next.
After(p, q) ==
  /\ End(p) + q.quiet <= q.at
  /\ p.stamp + p.len + q.quiet <= q.stamp
  /\ q.idx = p.idx + 1 => q.at = End(p) + q.quiet /\ q.stamp = p.stamp + p.len + q.quiet

\* Packets are in the order of their numbers.
InOrder ==
  \A p, q \in Known : /\ p.idx = q.idx => p = q
                      /\ p.idx < q.idx => After(p, q)

\* The marker says that silence was left out.
Marked == (out.silent <=> quiet > 0) /\ \A p \in Known : p.marker <=> p.quiet > 0

\* What radio sends next comes after packet p.
BehindSender(p) ==
  /\ p.idx < out.seq
  /\ End(p) + quiet <= produced /\ p.stamp + p.len + quiet <= out.timestamp
  /\ p.idx + 1 = out.seq =>
       End(p) + quiet = produced /\ p.stamp + p.len + quiet = out.timestamp

\* radio counts no more than there is.
SenderAhead ==
  /\ out.seq <= produced /\ out.timestamp <= produced /\ produced + size <= MaxAudio
  /\ \A p \in Known : BehindSender(p)

Delays == \A p \in net, q \in Known : q.idx - p.idx < Window

\* rtp_process is somewhere after the last packet, and no packet in flight is
\* far behind.
ExpectsSeq ==
  \E e \in last.idx + 1..out.seq : rtp.seq = e % SeqMod /\ \A p \in net : e - p.idx <= Window

Expects ==
  /\ rtp.init <=> last # NoPacket
  /\ last # NoPacket =>
       rtp.ssrc = 0 /\ rtp.timestamp = (last.stamp + last.len) % TimeMod /\ ExpectsSeq

\* The end of the audio that opus has had.
Horizon == IF last = NoPacket THEN 0 ELSE End(last)

Ascends(s) == \A i, j \in DOMAIN s : i < j => s[i] < s[j]

Samples ==
  /\ Ascends(coded.samples) /\ Ascends(buffer)
  /\ \A i \in DOMAIN coded.samples, j \in DOMAIN buffer : coded.samples[i] < buffer[j]
  /\ \A i \in DOMAIN coded.samples : coded.samples[i] < Horizon
  /\ \A i \in DOMAIN buffer : buffer[i] < Horizon

\* The marker waits as long as the first sample of the spurt, or for the frame
\* after one that was left out.
Spurt ==
  /\ spurt # Nothing => spurt < Horizon
  /\ silence <=> left \/ \E i \in DOMAIN buffer : buffer[i] = spurt

IInv == TypeOK /\ InOrder /\ Marked /\ SenderAhead /\ Delays /\ Expects
          /\ Samples /\ Spurt /\ SpurtIsMarked

-----------------------------------------------------------------------------
(* The constants *)

\* What the constants are.
LEMMA Constants ==
  /\ SeqMod \in Nat \ {0} /\ TimeMod \in Nat \ {0}
  /\ PacketMax \in Nat \ {0} /\ BlockLen \in Nat \ {0} /\ ResetFrames \in Nat \ {0}
  /\ Window \in Nat \ {0} /\ MaxGap \in Nat /\ MaxSilence \in Nat /\ MaxCopies \in Nat
  /\ MaxFailures \in Nat /\ FrameSize \in Nat \ {0}
  /\ MaxAudio \in Nat
  <1>1. MaxBlocks \in Nat /\ BlockLen \in Nat
    BY PcmAssumption
  <1>2. MaxAudio \in Nat
    BY <1>1 DEF MaxAudio
  <1> QED
    BY <1>2, PcmAssumption, RtpStateAssumption

\* How they are related.
LEMMA Widths == 2 * Window <= SeqMod /\ 2 * MaxSilence < TimeMod
  BY PcmAssumption

\* A packet's fields.
LEMMA PacketType ==
  ASSUME NEW p \in Packet
  PROVE  /\ p # NoPacket
         /\ p.idx \in Nat /\ p.stamp \in Nat /\ p.at \in Nat /\ p.at < MaxAudio
         /\ p.len \in Nat /\ 0 < p.len /\ p.len <= PacketMax
         /\ p.quiet \in Nat /\ p.quiet <= MaxSilence /\ p.marker \in BOOLEAN
         /\ p.idx <= MaxAudio /\ p.stamp <= MaxAudio
  <1>1. PacketMax \in Nat /\ MaxAudio \in Nat /\ MaxSilence \in Nat
    BY Constants
  <1>2. /\ p.idx \in 0..MaxAudio /\ p.stamp \in 0..MaxAudio /\ p.at \in 0..MaxAudio - 1
        /\ p.len \in 1..PacketMax /\ p.quiet \in 0..MaxSilence /\ p.marker \in BOOLEAN
    BY DEF Packet, Place
  <1>3. p # NoPacket
    BY <1>1, <1>2 DEF NoPacket, Nothing
  <1> QED
    BY <1>1, <1>2, <1>3

-----------------------------------------------------------------------------
(* rtp_process *)

\* Headers of a stream with SSRC c.
Headers(c) == [ssrc : {c}, seq : 0..SeqMod - 1, timestamp : 0..TimeMod - 1]

\* s may be the state of a session with that SSRC, and h a header of its stream.
Meant(s, h, c) ==
  c \in Nat /\ s \in RtpStates({c}) /\ (s.init => s.ssrc = c) /\ h \in Headers(c)

\* A packet's header is one.
LEMMA HeaderType ==
  ASSUME NEW p \in Packet
  PROVE  /\ Header(p) \in Headers(0)
         /\ Header(p).seq = p.idx % SeqMod
         /\ Header(p).timestamp = p.stamp % TimeMod
  <1>1. p.idx \in Int /\ p.stamp \in Int /\ SeqMod \in Nat \ {0} /\ TimeMod \in Nat \ {0}
    BY PacketType, Constants
  <1>2. p.idx % SeqMod \in 0..SeqMod - 1
    BY <1>1, ModRange
  <1>3. p.stamp % TimeMod \in 0..TimeMod - 1
    BY <1>1, ModRange
  <1> QED
    BY <1>2, <1>3 DEF Header, Headers

\* The difference of two wrapped numbers, cast to a signed integer.
LEMMA SignedStep ==
  ASSUME NEW m \in Nat \ {0}, NEW a \in Int, NEW b \in Int
  PROVE  /\ Signed((a % m) - (b % m), m) \in Int
         /\ Signed((a % m) - (b % m), m) = SignedOf((a - b) % m, m)
  <1>1. a % m \in Int /\ b % m \in Int /\ a - b \in Int
    BY ModRange
  <1> DEFINE x == (a % m) - (b % m)
  <1>2. x \in Int
    BY <1>1
  <1>3. x % m = (a - b) % m
    BY ModSubtract
  <1>4. x % m \in 0..m - 1
    BY <1>2, ModRange
  <1> HIDE DEF x
  <1>5. Signed(x, m) \in Int /\ Signed(x, m) = SignedOf(x % m, m)
    BY <1>4 DEF Signed, SignedOf
  <1> QED
    BY <1>3, <1>5 DEF x

\* A number's distance from itself.
LEMMA SignedSame ==
  ASSUME NEW m \in Nat \ {0}, NEW x \in Int
  PROVE  Signed(x - x, m) = 0
  <1>1. x - x = 0 /\ 0 % m = 0
    BY ModSmall
  <1> QED
    BY <1>1 DEF Signed

\* The state after the checks of SSRC and init.
LEMMA OpenedType ==
  ASSUME NEW s, NEW h, NEW c, Meant(s, h, c)
  PROVE  /\ Opened(s, h) \in RtpStates({c})
         /\ Opened(s, h).init = TRUE /\ Opened(s, h).ssrc = c
         /\ ~s.init => /\ Opened(s, h).seq = h.seq /\ Opened(s, h).timestamp = h.timestamp
                       /\ SeqStep(s, h) = 0 /\ TimeStep(s, h) = 0
         /\ s.init => Opened(s, h).seq = s.seq /\ Opened(s, h).timestamp = s.timestamp
         /\ SeqStep(s, h) \in Int /\ TimeStep(s, h) \in Int
  <1>1. SeqMod \in Nat \ {0} /\ TimeMod \in Nat \ {0} /\ h.ssrc = c
        /\ h.seq \in 0..SeqMod - 1 /\ h.timestamp \in 0..TimeMod - 1
        /\ s \in RtpStates({c}) /\ (s.init => s.ssrc = c)
    BY RtpStateAssumption DEF Headers, Meant
  <1>2. CASE ~s.init
    <2>1. Opened(s, h) = [ssrc |-> h.ssrc, init |-> TRUE, seq |-> h.seq,
                          timestamp |-> h.timestamp, packets |-> 1, drops |-> 0, dupes |-> 0]
      BY <1>2 DEF Opened, NewSession
    <2>2. Opened(s, h) \in RtpStates({c})
      BY <1>1, <2>1 DEF RtpStates
    <2>3. SeqStep(s, h) = Signed(h.seq - h.seq, SeqMod)
          /\ TimeStep(s, h) = Signed(h.timestamp - h.timestamp, TimeMod)
      BY <2>1 DEF SeqStep, TimeStep
    <2>4. SeqStep(s, h) = 0 /\ TimeStep(s, h) = 0
      BY <1>1, <2>3, SignedSame
    <2> QED
      BY <1>1, <1>2, <2>1, <2>2, <2>4
  <1>3. CASE s.init
    <2>1. Opened(s, h) = [s EXCEPT !.packets = @ + 1]
      BY <1>1, <1>3 DEF Opened, NewSession
    <2>2. Opened(s, h) \in RtpStates({c})
      BY <1>1, <2>1 DEF RtpStates
    <2>3. /\ Opened(s, h).seq = s.seq /\ Opened(s, h).timestamp = s.timestamp
          /\ Opened(s, h).init = s.init /\ Opened(s, h).ssrc = s.ssrc
      BY <1>1, <2>1 DEF RtpStates
    <2>4. s.seq \in 0..SeqMod - 1 /\ s.timestamp \in 0..TimeMod - 1
      BY <1>1 DEF RtpStates
    <2>5. SeqStep(s, h) = Signed(h.seq - s.seq, SeqMod)
          /\ TimeStep(s, h) = Signed(h.timestamp - s.timestamp, TimeMod)
      BY <2>3 DEF SeqStep, TimeStep
    <2>6. Signed(h.seq - s.seq, SeqMod) \in Int /\ Signed(h.timestamp - s.timestamp, TimeMod) \in Int
      <3>1. \A m \in Nat \ {0}, x \in Int : Signed(x, m) \in Int
        <4>1. \A m \in Nat \ {0}, x \in Int : x % m \in Int
          BY ModRange
        <4> QED
          BY <4>1 DEF Signed
      <3>2. h.seq - s.seq \in Int /\ h.timestamp - s.timestamp \in Int
        BY <1>1, <2>4
      <3> QED
        BY <1>1, <3>1, <3>2
    <2> QED
      BY <1>3, <2>2, <2>3, <2>5, <2>6, <1>1 DEF RtpStates
  <1> QED
    BY <1>2, <1>3

\* The state rtp_process leaves, for each of its verdicts.
LEMMA ProcessedType ==
  ASSUME NEW s, NEW h, NEW c, Meant(s, h, c), NEW n \in Nat
  PROVE  /\ Processed(s, h, n) \in RtpStates({c})
         /\ Processed(s, h, n).init = TRUE /\ Processed(s, h, n).ssrc = c
         /\ OldSequence(s, h) =>
              /\ Processed(s, h, n).seq = Opened(s, h).seq
              /\ Processed(s, h, n).timestamp = Opened(s, h).timestamp
         /\ OldTime(s, h) =>
              /\ Processed(s, h, n).seq = (h.seq + 1) % SeqMod
              /\ Processed(s, h, n).timestamp = Opened(s, h).timestamp
         /\ Good(s, h) =>
              /\ Processed(s, h, n).seq = (h.seq + 1) % SeqMod
              /\ Processed(s, h, n).timestamp = (h.timestamp + n) % TimeMod
  <1> DEFINE o == Opened(s, h)
             q == (h.seq + 1) % SeqMod
             t == (h.timestamp + n) % TimeMod
             k == o.drops + SeqStep(s, h)
             passed == [o EXCEPT !.seq = q, !.drops = k]
             timed == [passed EXCEPT !.timestamp = t]
  <1>1. /\ SeqMod \in Nat \ {0} /\ TimeMod \in Nat \ {0}
        /\ h.seq + 1 \in Int /\ h.timestamp + n \in Int
    BY RtpStateAssumption DEF Headers, Meant
  <1>2. /\ o \in RtpStates({c}) /\ o.init = TRUE /\ o.ssrc = c
        /\ SeqStep(s, h) \in Int /\ TimeStep(s, h) \in Int
    BY OpenedType
  <1>3. q \in 0..SeqMod - 1
    BY <1>1, ModRange
  <1>4. t \in 0..TimeMod - 1
    BY <1>1, ModRange
  <1>5. CASE OldSequence(s, h)
    <2>1. Processed(s, h, n) = [o EXCEPT !.dupes = o.dupes + 1]
      BY <1>5 DEF Processed, Duplicate
    <2> HIDE DEF o
    <2>2. /\ [o EXCEPT !.dupes = o.dupes + 1] \in RtpStates({c})
          /\ [o EXCEPT !.dupes = o.dupes + 1].init = o.init
          /\ [o EXCEPT !.dupes = o.dupes + 1].ssrc = o.ssrc
          /\ [o EXCEPT !.dupes = o.dupes + 1].seq = o.seq
          /\ [o EXCEPT !.dupes = o.dupes + 1].timestamp = o.timestamp
      BY <1>2 DEF RtpStates
    <2> QED
      BY <1>2, <1>5, <2>1, <2>2 DEF o, OldTime, Good
  <1>6. CASE ~OldSequence(s, h)
    <2>1. SeqStep(s, h) >= 0
      BY <1>2, <1>6 DEF OldSequence
    <2>2. Processed(s, h, n) = IF OldTime(s, h) THEN passed ELSE timed
      BY <1>6 DEF Processed, Passed, Timed
    <2> HIDE DEF o
    <2>3. k \in Nat
      BY <1>2, <2>1 DEF RtpStates
    <2> HIDE DEF q, t, k
    <2>4. /\ passed.init = TRUE /\ passed.ssrc = c
          /\ passed.seq = q /\ passed.timestamp = o.timestamp
      BY <1>2 DEF RtpStates
    <2>5. passed \in RtpStates({c})
      BY <1>2, <1>3, <2>3 DEF RtpStates
    <2> HIDE DEF passed
    <2>6. timed.init = TRUE /\ timed.ssrc = c /\ timed.seq = q /\ timed.timestamp = t
      BY <2>4, <2>5 DEF RtpStates
    <2>7. timed \in RtpStates({c})
      BY <1>4, <2>5 DEF RtpStates
    <2> HIDE DEF timed
    <2>8. Good(s, h) => ~OldTime(s, h)
      BY <1>2 DEF Good, OldTime
    <2> QED
      BY <1>6, <2>2, <2>4, <2>5, <2>6, <2>7, <2>8 DEF o, q, t
  <1> QED
    BY <1>5, <1>6

\* What rtp_process does not take for old is not: a packet that is behind is too
\* near for its number to have wrapped.
LEMMA NotFooled ==
  ASSUME NEW e \in Nat, NEW p \in Packet, e - p.idx <= Window,
         rtp \in RtpStates({0}), rtp.init, rtp.ssrc = 0, rtp.seq = e % SeqMod,
         ~OldSequence(rtp, Header(p))
  PROVE  p.idx >= e
  <1> DEFINE d == p.idx - e
  <1>1. /\ SeqMod \in Nat \ {0} /\ Window \in Nat /\ 2 * Window <= SeqMod
        /\ p.idx \in Nat /\ d \in Int
    BY Constants, Widths, PacketType
  <1>2. SeqStep(rtp, Header(p)) = Signed((p.idx % SeqMod) - (e % SeqMod), SeqMod)
    <2>1. Meant(rtp, Header(p), 0)
      BY HeaderType DEF Meant
    <2>2. Opened(rtp, Header(p)).seq = e % SeqMod /\ Header(p).seq = p.idx % SeqMod
      BY <2>1, HeaderType, OpenedType
    <2> QED
      BY <2>2 DEF SeqStep
  <1>3. Signed((p.idx % SeqMod) - (e % SeqMod), SeqMod) = SignedOf((p.idx - e) % SeqMod, SeqMod)
    <2>1. p.idx \in Int /\ e \in Int /\ SeqMod \in Nat \ {0}
      BY <1>1
    <2> QED
      BY <2>1, SignedStep
  <1>4. SeqStep(rtp, Header(p)) = SignedOf(d % SeqMod, SeqMod)
    BY <1>2, <1>3
  <1>5. -SeqMod <= 2 * d
    BY <1>1
  <1>6. CASE d < 0
    <2> HIDE DEF d
    <2>1. 2 * d < SeqMod
      BY <1>1, <1>6
    <2>2. SignedOf(d % SeqMod, SeqMod) = d
      BY <1>1, <1>5, <2>1, SignedExact
    <2> QED
      BY <1>4, <1>6, <2>2 DEF OldSequence
  <1> QED
    BY <1>1, <1>6

\* Silence that was left out is seen in the timestamp.
LEMMA SilenceSeen ==
  ASSUME NEW p \in Packet, NEW t \in Nat, p.stamp = t + p.quiet,
         rtp \in RtpStates({0}), rtp.init, rtp.ssrc = 0, rtp.timestamp = t % TimeMod
  PROVE  TimeStep(rtp, Header(p)) = p.quiet
  <1>1. /\ TimeMod \in Nat \ {0} /\ MaxSilence \in Nat /\ 2 * MaxSilence < TimeMod
        /\ p.quiet \in Nat /\ p.quiet <= MaxSilence /\ p.stamp \in Nat
    BY Constants, Widths, PacketType
  <1>2. TimeStep(rtp, Header(p)) = Signed((p.stamp % TimeMod) - (t % TimeMod), TimeMod)
    <2>1. Meant(rtp, Header(p), 0)
      BY HeaderType DEF Meant
    <2>2. Opened(rtp, Header(p)).timestamp = t % TimeMod /\ Header(p).timestamp = p.stamp % TimeMod
      BY <2>1, HeaderType, OpenedType
    <2> QED
      BY <2>2 DEF TimeStep
  <1>3. Signed((p.stamp % TimeMod) - (t % TimeMod), TimeMod)
          = SignedOf((p.stamp - t) % TimeMod, TimeMod)
    <2>1. p.stamp \in Int /\ t \in Int /\ TimeMod \in Nat \ {0}
      BY <1>1
    <2> QED
      BY <2>1, SignedStep
  <1>4. p.stamp - t = p.quiet
    BY <1>1
  <1>5. TimeStep(rtp, Header(p)) = SignedOf(p.quiet % TimeMod, TimeMod)
    BY <1>2, <1>3, <1>4
  <1>6. -TimeMod <= 2 * p.quiet /\ 2 * p.quiet < TimeMod /\ p.quiet \in Int
    BY <1>1
  <1> QED
    BY <1>1, <1>5, <1>6, SignedExact

-----------------------------------------------------------------------------
(* radio *)

\* A piece of the block.
LEMMA ChunkType ==
  ASSUME TypeOK, size > 0
  PROVE  /\ Chunk \in Nat /\ 0 < Chunk /\ Chunk <= PacketMax /\ Chunk <= size
         /\ size \in Nat /\ size <= BlockLen /\ produced \in Nat
  BY Constants DEF TypeOK, Chunk

\* What is known of packets in flight and the last.
LEMMA KnownType ==
  ASSUME TypeOK
  PROVE  /\ Known \subseteq Packet /\ net \subseteq Known
         /\ last # NoPacket => last \in Known /\ last \in Packet
  BY DEF TypeOK, Known

\* radio leaves opus's state alone.
LEMMA OpusUntouched ==
  ASSUME IInv, UNCHANGED opusVars
  PROVE  (Samples /\ Spurt /\ SpurtIsMarked)'
  BY DEF IInv, opusVars, Samples, Ascends, Spurt, SpurtIsMarked, Horizon

\* The demodulator's next block changes only the size of what is to be done.
LEMMA StartBlockKeeps ==
  ASSUME IInv, StartBlock
  PROVE  IInv'
  <1>1. /\ size = 0 /\ size' = BlockLen /\ produced + BlockLen <= MaxAudio
        /\ UNCHANGED <<produced, out, quiet, failures, net, lost, copies, rtp, buffer,
                       silence, last, spurt, left, coded>>
    BY DEF StartBlock, netVars, opusVars
  <1>2. BlockLen \in Nat /\ produced \in Nat
    BY Constants DEF IInv, TypeOK
  <1>20. CodedOK'
    BY <1>1 DEF IInv, TypeOK, CodedOK
  <1>3. TypeOK'
    BY <1>1, <1>2, <1>20 DEF IInv, TypeOK
  <1>4. InOrder' /\ Marked' /\ Delays' /\ Expects'
    BY <1>1 DEF IInv, InOrder, After, End, Known, Marked, Delays, Expects, ExpectsSeq
  <1>5. SenderAhead'
    BY <1>1 DEF IInv, SenderAhead, BehindSender, Known, End
  <1> QED
    BY <1>3, <1>4, <1>5, OpusUntouched DEF IInv, StartBlock

\* Silence is left out, and counted in the timestamp.
LEMMA SuppressKeeps ==
  ASSUME IInv, Suppress
  PROVE  IInv'
  <1> DEFINE c == Chunk
  <1>1. /\ size > 0 /\ quiet + c <= MaxSilence
        /\ out' = [out EXCEPT !.timestamp = @ + c, !.silent = TRUE]
        /\ quiet' = quiet + c /\ produced' = produced + c /\ size' = size - c
        /\ UNCHANGED <<failures, net, lost, copies, rtp, buffer, silence, last, spurt, left, coded>>
    BY DEF Suppress, netVars, opusVars
  <1>2. /\ c \in Nat /\ 0 < c /\ c <= size /\ size \in Nat /\ size <= BlockLen
        /\ produced \in Nat
    BY <1>1, ChunkType DEF IInv
  <1>3. /\ BlockLen \in Nat /\ MaxAudio \in Nat /\ MaxSilence \in Nat
        /\ quiet \in Nat /\ out.seq \in Nat /\ out.timestamp \in Nat
    BY Constants DEF IInv, TypeOK
  <1> HIDE DEF c
  <1>4. out'.timestamp = out.timestamp + c /\ out'.seq = out.seq /\ out'.silent = TRUE
    BY <1>1 DEF IInv, TypeOK
  <1>5. SenderAhead'
    <2>1. /\ out'.seq <= produced' /\ out'.timestamp <= produced' /\ produced' + size' <= MaxAudio
      BY <1>1, <1>2, <1>3, <1>4 DEF IInv, SenderAhead
    <2>2. ASSUME NEW p \in Known PROVE BehindSender(p)'
      <3>1. p.idx \in Nat /\ p.at \in Nat /\ p.len \in Nat /\ p.stamp \in Nat
        BY KnownType, PacketType DEF IInv
      <3>2. BehindSender(p)
        BY DEF IInv, SenderAhead
      <3> QED
        BY <1>1, <1>2, <1>3, <1>4, <3>1, <3>2 DEF BehindSender, End
    <2>3. Known' = Known
      BY <1>1 DEF Known
    <2> QED
      BY <2>1, <2>2, <2>3 DEF SenderAhead
  <1>6. TypeOK'
    <2>1. out' \in [timestamp: 0..MaxAudio, seq: 0..MaxAudio, silent: BOOLEAN]
      <3>1. out.timestamp + c \in 0..MaxAudio /\ produced + c \in Nat
        BY <1>1, <1>2, <1>3, <1>4, <1>5 DEF SenderAhead
      <3> QED
        BY <1>1, <3>1 DEF IInv, TypeOK
    <2>2. produced' \in 0..MaxAudio /\ size' \in 0..BlockLen /\ quiet' \in 0..MaxSilence
      BY <1>1, <1>2, <1>3, <1>5 DEF SenderAhead
    <2>3. CodedOK'
      BY <1>1 DEF IInv, TypeOK, CodedOK
    <2> QED
      BY <1>1, <2>1, <2>2, <2>3 DEF IInv, TypeOK
  <1>7. Marked'
    BY <1>1, <1>2, <1>3, <1>4 DEF IInv, Marked, Known
  <1>8. InOrder' /\ Delays' /\ Expects'
    BY <1>1, <1>4 DEF IInv, InOrder, After, End, Known, Delays, Expects, ExpectsSeq
  <1> QED
    BY <1>5, <1>6, <1>7, <1>8, OpusUntouched DEF IInv, Suppress

\* A number is used up: what was behind radio is further behind.
LEMMA Onwards ==
  ASSUME IInv, size > 0, out' = Sent, quiet' = 0,
         produced' \in Nat, size' \in Nat,
         produced + Chunk <= produced', produced' + size' = produced + size
  PROVE  /\ produced' \in 0..MaxAudio /\ size' \in 0..BlockLen /\ quiet' \in 0..MaxSilence
         /\ out' \in [timestamp: 0..MaxAudio, seq: 0..MaxAudio, silent: BOOLEAN]
         /\ out'.seq <= produced' /\ out'.timestamp <= produced' /\ produced' + size' <= MaxAudio
         /\ out'.seq = out.seq + 1 /\ out'.timestamp = out.timestamp + Chunk /\ out'.silent = FALSE
         /\ \A p \in Known : BehindSender(p)'
  <1> DEFINE c == Chunk
  <1>1. /\ c \in Nat /\ 0 < c /\ c <= size /\ size \in Nat /\ size <= BlockLen
        /\ produced \in Nat
    BY ChunkType DEF IInv
  <1>2. /\ BlockLen \in Nat /\ MaxAudio \in Nat /\ MaxSilence \in Nat
        /\ quiet \in Nat /\ out.seq \in Nat /\ out.timestamp \in Nat
    BY Constants DEF IInv, TypeOK
  <1>3. PICK made \in Nat, rest \in Nat : made = produced' /\ rest = size'
    OBVIOUS
  <1>4. produced + c <= made /\ made + rest = produced + size
    BY <1>3
  <1>5. out' = [timestamp |-> out.timestamp + c, seq |-> out.seq + 1, silent |-> FALSE]
    BY DEF Sent
  <1> HIDE DEF c
  <1>6. out'.seq = out.seq + 1 /\ out'.timestamp = out.timestamp + c /\ out'.silent = FALSE
    BY <1>5
  <1>7. /\ out.seq + 1 <= made /\ out.timestamp + c <= made
        /\ made + rest <= MaxAudio /\ rest <= BlockLen /\ made <= MaxAudio
    <2>1. out.seq <= produced /\ out.timestamp <= produced /\ produced + size <= MaxAudio
      BY DEF IInv, SenderAhead
    <2> QED
      BY <1>1, <1>2, <1>4, <2>1
  <1>8. out' \in [timestamp: 0..MaxAudio, seq: 0..MaxAudio, silent: BOOLEAN]
    <2>1. out.timestamp + c \in 0..MaxAudio /\ out.seq + 1 \in 0..MaxAudio
      BY <1>1, <1>2, <1>7
    <2> QED
      BY <1>5, <2>1
  <1>9. ASSUME NEW p \in Known PROVE BehindSender(p)'
    <2>1. p.idx \in Nat /\ p.at \in Nat /\ p.len \in Nat /\ p.stamp \in Nat
      BY KnownType, PacketType DEF IInv
    <2>2. BehindSender(p)
      BY DEF IInv, SenderAhead
    <2>3. /\ p.idx < out.seq + 1 /\ p.idx + 1 # out.seq + 1
          /\ p.at + p.len + 0 <= made /\ p.stamp + p.len + 0 <= out.timestamp + c
      BY <1>1, <1>2, <1>4, <2>1, <2>2 DEF BehindSender, End
    <2> QED
      BY <1>3, <1>6, <2>3 DEF BehindSender, End
  <1>10. made \in 0..MaxAudio /\ rest \in 0..BlockLen /\ quiet' \in 0..MaxSilence
    BY <1>2, <1>7
  <1> QED
    BY <1>3, <1>6, <1>7, <1>8, <1>9, <1>10 DEF c

\* A packet is made of the next piece of audio, and sent or lost.
LEMMA SendChunkKeeps ==
  ASSUME IInv, SendChunk
  PROVE  IInv'
  <1> DEFINE r == [idx |-> out.seq, stamp |-> out.timestamp, len |-> Chunk,
                   marker |-> out.silent, at |-> produced, quiet |-> quiet]
  <1>1. /\ size > 0 /\ \A p \in net : out.seq - p.idx < Window
        /\ \/ net' = net \cup {r} /\ lost' = 0
           \/ net' = net /\ lost < MaxGap /\ lost' = lost + 1
        /\ out' = Sent /\ produced' = produced + Chunk /\ size' = size - Chunk /\ quiet' = 0
        /\ UNCHANGED <<failures, copies, rtp, buffer, silence, last, spurt, left, coded>>
    BY DEF SendChunk, opusVars
  <1>2. /\ Chunk \in Nat /\ 0 < Chunk /\ Chunk <= PacketMax /\ Chunk <= size
        /\ size \in Nat /\ produced \in Nat
    BY <1>1, ChunkType DEF IInv
  <1>3. /\ MaxAudio \in Nat /\ MaxGap \in Nat /\ PacketMax \in Nat /\ Window \in Nat \ {0}
        /\ quiet \in 0..MaxSilence /\ out.seq \in 0..MaxAudio /\ out.timestamp \in 0..MaxAudio
        /\ out.silent \in BOOLEAN /\ lost \in 0..MaxGap
    BY Constants DEF IInv, TypeOK
  <1>4. /\ produced' \in 0..MaxAudio /\ size' \in 0..BlockLen /\ quiet' \in 0..MaxSilence
        /\ out' \in [timestamp: 0..MaxAudio, seq: 0..MaxAudio, silent: BOOLEAN]
        /\ out'.seq <= produced' /\ out'.timestamp <= produced' /\ produced' + size' <= MaxAudio
        /\ out'.seq = out.seq + 1 /\ out'.timestamp = out.timestamp + Chunk /\ out'.silent = FALSE
        /\ \A p \in Known : BehindSender(p)'
    <2>1. /\ produced' \in Nat /\ size' \in Nat
          /\ produced + Chunk <= produced' /\ produced' + size' = produced + size
      BY <1>1, <1>2
    <2> QED
      BY <1>1, <2>1, Onwards
  <1>5. PICK s \in Packet : s = r
    <2>1. produced \in Place /\ Chunk \in 1..PacketMax
      BY <1>2, <1>3 DEF IInv, SenderAhead, Place
    <2> QED
      BY <1>3, <2>1 DEF Packet
  <1>6. /\ s.idx = out.seq /\ s.stamp = out.timestamp /\ s.len = Chunk
        /\ s.marker = out.silent /\ s.at = produced /\ s.quiet = quiet
    BY <1>5
  <1>7. net' \subseteq net \cup {s} /\ lost' \in 0..MaxGap
    BY <1>1, <1>3, <1>5
  <1> HIDE DEF r
  <1>8. Known' \subseteq Known \cup {s} /\ net \subseteq Known /\ Known \subseteq Packet
    BY <1>1, <1>7, KnownType DEF Known, IInv
  <1>9. \A p \in Known : BehindSender(p) /\ p.idx \in Nat /\ p.at \in Nat /\ p.len \in Nat
                         /\ p.stamp \in Nat
    BY <1>8, PacketType DEF IInv, SenderAhead
  <1>20. CodedOK'
    BY <1>1 DEF IInv, TypeOK, CodedOK
  <1>10. TypeOK'
    BY <1>1, <1>4, <1>7, <1>20 DEF IInv, TypeOK
  <1>11. InOrder'
    <2>1. \A p \in Known : p.idx < s.idx /\ After(p, s)
      BY <1>2, <1>3, <1>6, <1>9 DEF BehindSender, After, End
    <2>2. \A p, q \in Known \cup {s} : /\ p.idx = q.idx => p = q
                                       /\ p.idx < q.idx => After(p, q)
      BY <1>3, <1>6, <1>9, <2>1 DEF IInv, InOrder
    <2> QED
      BY <1>8, <2>2 DEF InOrder, After, End
  <1>12. Marked'
    <2>1. \A p \in Known \cup {s} : p.marker <=> p.quiet > 0
      BY <1>6 DEF IInv, Marked
    <2>2. out'.silent <=> quiet' > 0
      BY <1>1, <1>4
    <2> QED
      BY <1>8, <2>1, <2>2 DEF Marked
  <1>13. SenderAhead'
    <2>1. BehindSender(s)'
      BY <1>1, <1>2, <1>3, <1>4, <1>6 DEF BehindSender, End
    <2> QED
      BY <1>4, <1>8, <2>1 DEF SenderAhead
  <1>14. Delays'
    <2>1. \A p \in net \cup {s}, q \in Known \cup {s} : q.idx - p.idx < Window
      BY <1>1, <1>3, <1>6, <1>8, <1>9 DEF IInv, Delays, BehindSender
    <2> QED
      BY <1>7, <1>8, <2>1 DEF Delays
  <1>15. Expects'
    <2>1. ASSUME last # NoPacket PROVE ExpectsSeq'
      <3>1. PICK e \in last.idx + 1..out.seq :
              rtp.seq = e % SeqMod /\ \A p \in net : e - p.idx <= Window
        BY <2>1 DEF IInv, Expects, ExpectsSeq
      <3>2. last \in Known /\ last.idx \in Nat
        BY <1>9, <2>1, KnownType DEF IInv
      <3>3. e \in last'.idx + 1..out'.seq
        BY <1>1, <1>3, <1>4, <3>1, <3>2
      <3>4. e - s.idx <= Window
        BY <1>3, <1>6, <3>1, <3>2
      <3> QED
        BY <1>1, <1>7, <3>1, <3>3, <3>4 DEF ExpectsSeq
    <2> QED
      BY <1>1, <2>1 DEF IInv, Expects
  <1> QED
    BY <1>10, <1>11, <1>12, <1>13, <1>14, <1>15, OpusUntouched DEF IInv, SendChunk

\* send() fails: a number without a packet.
LEMMA FailChunkKeeps ==
  ASSUME IInv, FailChunk
  PROVE  IInv'
  <1>1. /\ size > 0 /\ failures < MaxFailures /\ failures' = failures + 1
        /\ out' = Sent /\ produced' = produced + size /\ size' = 0 /\ quiet' = 0
        /\ UNCHANGED <<net, lost, copies, rtp, buffer, silence, last, spurt, left, coded>>
    BY DEF FailChunk, netVars, opusVars
  <1>2. Chunk \in Nat /\ Chunk <= size /\ size \in Nat /\ produced \in Nat
    BY <1>1, ChunkType DEF IInv
  <1>4. /\ produced' \in 0..MaxAudio /\ size' \in 0..BlockLen /\ quiet' \in 0..MaxSilence
        /\ out' \in [timestamp: 0..MaxAudio, seq: 0..MaxAudio, silent: BOOLEAN]
        /\ out'.seq <= produced' /\ out'.timestamp <= produced' /\ produced' + size' <= MaxAudio
        /\ out'.seq = out.seq + 1 /\ out'.silent = FALSE
        /\ \A p \in Known : BehindSender(p)'
    <2>1. /\ produced' \in Nat /\ size' \in Nat
          /\ produced + Chunk <= produced' /\ produced' + size' = produced + size
      BY <1>1, <1>2
    <2> QED
      BY <1>1, <2>1, Onwards
  <1>5. TypeOK'
    <2>1. failures' \in 0..MaxFailures
      BY <1>1, Constants DEF IInv, TypeOK
    <2>2. CodedOK'
      BY <1>1 DEF IInv, TypeOK, CodedOK
    <2> QED
      BY <1>1, <1>4, <2>1, <2>2 DEF IInv, TypeOK
  <1>6. Known' = Known
    BY <1>1 DEF Known
  <1>7. InOrder' /\ Delays' /\ Marked' /\ SenderAhead'
    BY <1>1, <1>4, <1>6 DEF IInv, InOrder, After, End, Delays, Marked, SenderAhead
  <1>8. Expects'
    <2>1. ASSUME last # NoPacket PROVE ExpectsSeq'
      <3>1. PICK e \in last.idx + 1..out.seq :
              rtp.seq = e % SeqMod /\ \A p \in net : e - p.idx <= Window
        BY <2>1 DEF IInv, Expects, ExpectsSeq
      <3>2. last.idx \in Nat /\ out.seq \in Nat
        BY <2>1, KnownType, PacketType, Constants DEF IInv, TypeOK
      <3>3. e \in last'.idx + 1..out'.seq
        BY <1>1, <1>4, <3>1, <3>2
      <3> QED
        BY <1>1, <3>1, <3>3 DEF ExpectsSeq
    <2> QED
      BY <1>1, <2>1 DEF IInv, Expects
  <1> QED
    BY <1>5, <1>7, <1>8, OpusUntouched DEF IInv, FailChunk

-----------------------------------------------------------------------------
(* opus: the numbers *)

\* A packet that is taken from the network, or accepted, was already known.
LEMMA NetKeeps ==
  ASSUME IInv, net' \subseteq net, UNCHANGED radioVars, last' = last \/ last' \in net
  PROVE  (InOrder /\ Marked /\ SenderAhead /\ Delays)'
  <1>1. UNCHANGED <<produced, size, out, quiet>>
    BY DEF radioVars
  <1>2. Known' \subseteq Known
    BY DEF Known
  <1>3. InOrder' /\ Marked'
    BY <1>1, <1>2 DEF IInv, InOrder, Marked, After, End
  <1>4. SenderAhead' /\ Delays'
    BY <1>1, <1>2 DEF IInv, SenderAhead, Delays, BehindSender, End
  <1> QED
    BY <1>3, <1>4

\* Where rtp_process is, if it has begun.
LEMMA InitIff ==
  ASSUME IInv
  PROVE  /\ rtp \in RtpStates({0}) /\ (rtp.init => rtp.ssrc = 0)
         /\ last = NoPacket => ~rtp.init
         /\ last # NoPacket => rtp.init /\ last \in Known /\ last \in Packet
  BY KnownType DEF IInv, TypeOK, Expects

\* What is not taken for old is ahead of the last packet.
LEMMA Ahead ==
  ASSUME IInv, NEW p \in net, ~OldSequence(rtp, Header(p)), last # NoPacket
  PROVE  last.idx < p.idx /\ After(last, p)
  <1>1. PICK e \in last.idx + 1..out.seq :
          rtp.seq = e % SeqMod /\ \A q \in net : e - q.idx <= Window
    BY DEF IInv, Expects, ExpectsSeq
  <1>2. p \in Packet /\ p \in Known /\ p.idx \in Nat /\ last.idx \in Nat /\ out.seq \in Nat
    BY KnownType, PacketType, InitIff, Constants DEF IInv, TypeOK
  <1>3. e \in Nat
    BY <1>1, <1>2
  <1>4. p.idx >= e
    BY <1>1, <1>2, <1>3, InitIff, NotFooled
  <1>5. last.idx < p.idx
    BY <1>1, <1>2, <1>4
  <1> QED
    BY <1>2, <1>5, InitIff DEF IInv, InOrder

\* A packet that is accepted begins where what opus has had ends, or later.
LEMMA AheadOfHorizon ==
  ASSUME IInv, NEW p \in net, ~OldSequence(rtp, Header(p))
  PROVE  /\ Horizon \in Nat /\ Horizon <= p.at /\ p.at \in Nat /\ p.len \in Nat
         /\ 0 < p.len /\ p.len <= PacketMax /\ p.at + p.len <= MaxAudio
  <1>1. /\ p \in Packet /\ p.at \in Nat /\ p.len \in Nat /\ 0 < p.len /\ p.len <= PacketMax
        /\ p.quiet \in Nat
    BY KnownType, PacketType DEF IInv
  <1>2. p.at + p.len <= MaxAudio
    <2>1. /\ p.at + p.len + quiet <= produced /\ produced + size <= MaxAudio
          /\ quiet \in Nat /\ size \in Nat /\ produced \in Nat /\ MaxAudio \in Nat
      BY KnownType, Constants DEF IInv, SenderAhead, BehindSender, End, TypeOK
    <2> QED
      BY <1>1, <2>1
  <1>3. CASE last = NoPacket
    BY <1>1, <1>2, <1>3 DEF Horizon
  <1>4. CASE last # NoPacket
    <2>1. End(last) + p.quiet <= p.at
      BY <1>4, Ahead DEF After
    <2>2. last.at \in Nat /\ last.len \in Nat
      BY <1>4, InitIff, PacketType
    <2> QED
      BY <1>1, <1>2, <1>4, <2>1, <2>2 DEF Horizon, End
  <1> QED
    BY <1>3, <1>4

\* rtp_process is still where it should be, whatever its verdict.
LEMMA RtpStep ==
  ASSUME IInv, NEW p \in net, net' \subseteq net, UNCHANGED radioVars,
         rtp' = Processed(rtp, Header(p), p.len),
         last' = IF Good(rtp, Header(p)) THEN p ELSE last
  PROVE  rtp' \in RtpStates({0}) /\ Expects'
  <1> DEFINE h == Header(p)
  <1>1. /\ p \in Packet /\ p.idx \in Nat /\ p.len \in Nat /\ p.stamp \in Nat
        /\ h \in Headers(0) /\ h.seq = p.idx % SeqMod /\ h.timestamp = p.stamp % TimeMod
        /\ SeqMod \in Nat \ {0} /\ TimeMod \in Nat \ {0} /\ out.seq \in Nat
        /\ p \in Known /\ p # NoPacket
    BY KnownType, PacketType, HeaderType, Constants DEF IInv, TypeOK
  <1> HIDE DEF h
  <1>2. /\ rtp' \in RtpStates({0}) /\ rtp'.init = TRUE /\ rtp'.ssrc = 0
        /\ OldSequence(rtp, h) =>
             rtp'.seq = Opened(rtp, h).seq /\ rtp'.timestamp = Opened(rtp, h).timestamp
        /\ OldTime(rtp, h) =>
             rtp'.seq = (h.seq + 1) % SeqMod /\ rtp'.timestamp = Opened(rtp, h).timestamp
        /\ Good(rtp, h) =>
             rtp'.seq = (h.seq + 1) % SeqMod /\ rtp'.timestamp = (h.timestamp + p.len) % TimeMod
    <2>1. rtp \in RtpStates({0}) /\ (rtp.init => rtp.ssrc = 0)
      BY InitIff
    <2>2. rtp' = Processed(rtp, h, p.len)
      BY DEF h
    <2> DEFINE s == Processed(rtp, h, p.len)
    <2>3. /\ s \in RtpStates({0}) /\ s.init = TRUE /\ s.ssrc = 0
          /\ OldSequence(rtp, h) =>
               s.seq = Opened(rtp, h).seq /\ s.timestamp = Opened(rtp, h).timestamp
          /\ OldTime(rtp, h) =>
               s.seq = (h.seq + 1) % SeqMod /\ s.timestamp = Opened(rtp, h).timestamp
          /\ Good(rtp, h) =>
               s.seq = (h.seq + 1) % SeqMod /\ s.timestamp = (h.timestamp + p.len) % TimeMod
      <3>1. Meant(rtp, h, 0)
        BY <1>1, <2>1 DEF Meant
      <3>2. p.len \in Nat
        BY <1>1
      <3> HIDE DEF h
      <3> QED
        BY <3>1, <3>2, ProcessedType, ZenonT(60)
    <2> HIDE DEF s
    <2> QED
      BY <2>2, <2>3 DEF s
  <1>3. /\ SeqStep(rtp, h) \in Int /\ TimeStep(rtp, h) \in Int
        /\ rtp.init => Opened(rtp, h).seq = rtp.seq /\ Opened(rtp, h).timestamp = rtp.timestamp
        /\ ~rtp.init => SeqStep(rtp, h) = 0 /\ TimeStep(rtp, h) = 0
    <2>1. rtp \in RtpStates({0}) /\ (rtp.init => rtp.ssrc = 0)
      BY InitIff
    <2>2. Meant(rtp, h, 0)
      BY <1>1, <2>1 DEF Meant
    <2> QED
      BY <2>2, OpenedType
  <1>4. (h.seq + 1) % SeqMod = (p.idx + 1) % SeqMod
    BY <1>1, ModAdd
  <1>5. (h.timestamp + p.len) % TimeMod = (p.stamp + p.len) % TimeMod
    <2>1. p.stamp \in Int /\ p.len \in Int /\ TimeMod \in Nat \ {0}
      BY <1>1
    <2>2. ((p.stamp % TimeMod) + p.len) % TimeMod = (p.stamp + p.len) % TimeMod
      BY <2>1, ModAdd
    <2> QED
      BY <1>1, <2>2
  <1>6. out'.seq = out.seq /\ p.idx < out.seq
    BY <1>1 DEF radioVars, IInv, SenderAhead, BehindSender
  <1>7. \A q \in net' : q.idx \in Nat /\ (p.idx + 1) - q.idx <= Window
    <2>1. \A q \in net' : q \in Packet /\ p.idx - q.idx < Window
      BY <1>1, KnownType DEF IInv, Delays
    <2>2. \A q \in net' : q.idx \in Nat
      BY <2>1, PacketType
    <2>3. Window \in Nat
      BY Constants
    <2> QED
      BY <1>1, <2>1, <2>2, <2>3
  <1>8. CASE OldSequence(rtp, h)
    <2>1. rtp.init /\ last # NoPacket /\ ~Good(rtp, h)
      BY <1>3, <1>8, InitIff DEF OldSequence, Good
    <2>2. last' = last /\ rtp'.seq = rtp.seq /\ rtp'.timestamp = rtp.timestamp
      BY <1>2, <1>3, <1>8, <2>1 DEF h
    <2>3. ExpectsSeq'
      BY <1>6, <2>1, <2>2 DEF IInv, Expects, ExpectsSeq
    <2> QED
      BY <1>2, <2>1, <2>2, <2>3 DEF IInv, Expects
  <1>9. CASE OldTime(rtp, h)
    <2>1. rtp.init /\ last # NoPacket /\ ~Good(rtp, h) /\ ~OldSequence(rtp, h)
      BY <1>3, <1>9, InitIff DEF OldTime, Good
    <2>2. last' = last /\ rtp'.seq = (p.idx + 1) % SeqMod /\ rtp'.timestamp = rtp.timestamp
      BY <1>2, <1>3, <1>4, <1>9, <2>1 DEF h
    <2>3. p.idx + 1 \in last.idx + 1..out.seq
      <3>1. last.idx < p.idx /\ last.idx \in Nat
        BY <2>1, Ahead, InitIff, PacketType DEF h
      <3> QED
        BY <1>1, <1>6, <3>1
    <2>4. ExpectsSeq'
      BY <1>6, <1>7, <2>2, <2>3 DEF ExpectsSeq
    <2> QED
      BY <1>2, <2>1, <2>2, <2>4 DEF IInv, Expects
  <1>10. CASE Good(rtp, h)
    <2>1. last' = p /\ rtp'.seq = (p.idx + 1) % SeqMod
          /\ rtp'.timestamp = (p.stamp + p.len) % TimeMod
      BY <1>2, <1>4, <1>5, <1>10 DEF h
    <2>2. p.idx + 1 \in p.idx + 1..out.seq
      BY <1>1, <1>6
    <2>3. ExpectsSeq'
      BY <1>6, <1>7, <2>1, <2>2 DEF ExpectsSeq
    <2> QED
      BY <1>1, <1>2, <2>1, <2>3 DEF Expects
  <1> QED
    BY <1>3, <1>8, <1>9, <1>10 DEF OldTime, Good

-----------------------------------------------------------------------------
(* opus: the samples *)

\* The network may keep a copy of what it delivers.
LEMMA Delivered ==
  ASSUME IInv, NEW p \in net, Deliver(p)
  PROVE  net' \subseteq net /\ lost' \in 0..MaxGap /\ copies' \in 0..MaxCopies
  BY Constants DEF IInv, TypeOK, Deliver

\* What is gathered with packet p: the buffer, and the packet after it.
LEMMA GatheredIs ==
  ASSUME IInv, NEW p \in net, ~OldSequence(rtp, Header(p))
  PROVE  /\ Gathered(p) \in Seq(Place) /\ Len(Gathered(p)) = Len(buffer) + p.len
         /\ Len(buffer) \in Nat /\ Len(buffer) < FrameSize
         /\ DOMAIN Gathered(p) = 1..Len(buffer) + p.len /\ DOMAIN buffer = 1..Len(buffer)
         /\ \A i \in 1..Len(buffer) : Gathered(p)[i] = buffer[i]
         /\ \A i \in 1..p.len : Gathered(p)[Len(buffer) + i] = p.at + i - 1
  <1> DEFINE new == [i \in 1..p.len |-> p.at + i - 1]
             b == Len(buffer)
  <1>1. /\ p.at \in Nat /\ p.len \in Nat /\ p.at + p.len <= MaxAudio /\ MaxAudio \in Nat
    BY AheadOfHorizon, Constants
  <1>2. buffer \in Seq(Place) /\ b \in Nat /\ b < FrameSize /\ DOMAIN buffer = 1..b
    BY DEF IInv, TypeOK
  <1>3. new \in Seq(Place) /\ Len(new) = p.len /\ \A i \in 1..p.len : new[i] = p.at + i - 1
    <2>1. \A i \in 1..p.len : p.at + i - 1 \in Place
      BY <1>1 DEF Place
    <2>2. new \in [1..p.len -> Place]
      BY <2>1
    <2> HIDE DEF new
    <2>3. new \in Seq(Place)
      BY <1>1, <2>2, SeqDef
    <2>4. DOMAIN new = 1..p.len /\ DOMAIN new = 1..Len(new) /\ Len(new) \in Nat
      BY <2>2, <2>3, LenProperties
    <2>5. p.len \in 1..p.len
      BY <1>1, AheadOfHorizon
    <2>6. p.len <= Len(new)
      BY <1>1, <2>4, <2>5
    <2>7. Len(new) \in 1..Len(new)
      BY <1>1, <2>4, <2>5
    <2>8. Len(new) <= p.len
      BY <1>1, <2>4, <2>7
    <2>9. Len(new) = p.len
      BY <1>1, <2>4, <2>6, <2>8
    <2> QED
      BY <2>3, <2>9 DEF new
  <1>4. Gathered(p) = buffer \o new
    BY DEF Gathered
  <1> HIDE DEF new
  <1>5. /\ buffer \o new \in Seq(Place) /\ Len(buffer \o new) = b + p.len
        /\ \A i \in 1..b + p.len : (buffer \o new)[i] = IF i <= b THEN buffer[i] ELSE new[i - b]
    <2>1. buffer \in Seq(Place) /\ new \in Seq(Place)
      BY <1>2, <1>3
    <2>2. Len(buffer) = b /\ Len(new) = p.len
      BY <1>3
    <2> HIDE DEF b
    <2>3. /\ buffer \o new \in Seq(Place)
          /\ Len(buffer \o new) = Len(buffer) + Len(new)
          /\ \A i \in 1..Len(buffer) + Len(new) :
               (buffer \o new)[i] = IF i <= Len(buffer) THEN buffer[i] ELSE new[i - Len(buffer)]
      BY <2>1, ConcatProperties, Zenon
    <2>4. Len(buffer \o new) = b + p.len
      BY <2>2, <2>3, Zenon
    <2>5. \A i \in 1..b + p.len : (buffer \o new)[i] = IF i <= b THEN buffer[i] ELSE new[i - b]
      BY <2>2, <2>3, Zenon
    <2> QED
      BY <2>3, <2>4, <2>5, Zenon
  <1> DEFINE g == buffer \o new
  <1>6. /\ g \in Seq(Place) /\ Len(g) = b + p.len
        /\ \A i \in 1..b + p.len : g[i] = IF i <= b THEN buffer[i] ELSE new[i - b]
    BY <1>5
  <1> HIDE DEF g, b
  <1>7. \A i \in 1..b : g[i] = buffer[i]
    BY <1>1, <1>2, <1>6
  <1>8. ASSUME NEW i \in 1..p.len PROVE g[b + i] = p.at + i - 1
    <2>1. b + i \in 1..b + p.len /\ ~(b + i <= b) /\ (b + i) - b = i
      BY <1>1, <1>2
    <2> QED
      BY <1>3, <1>6, <2>1
  <1>9. DOMAIN g = 1..b + p.len
    BY <1>6
  <1> QED
    BY <1>2, <1>4, <1>6, <1>7, <1>8, <1>9 DEF g, b

\* It ascends, and all of it is after what has been encoded.
LEMMA GatheredAscends ==
  ASSUME IInv, NEW p \in net, ~OldSequence(rtp, Header(p))
  PROVE  /\ Ascends(Gathered(p))
         /\ \A i \in DOMAIN coded.samples, j \in DOMAIN Gathered(p) :
              coded.samples[i] < Gathered(p)[j]
         /\ \A j \in DOMAIN Gathered(p) : Gathered(p)[j] < End(p)
  <1> DEFINE g == Gathered(p)
             b == Len(buffer)
  <1>1. /\ g \in Seq(Place) /\ b \in Nat /\ DOMAIN g = 1..b + p.len /\ DOMAIN buffer = 1..b
        /\ \A i \in 1..b : g[i] = buffer[i]
        /\ \A i \in 1..p.len : g[b + i] = p.at + i - 1
    BY GatheredIs
  <1>2. /\ Horizon \in Nat /\ Horizon <= p.at /\ p.at \in Nat /\ p.len \in Nat
    BY AheadOfHorizon
  <1>3. /\ Ascends(buffer) /\ \A i \in 1..b : buffer[i] < Horizon
        /\ \A i \in DOMAIN coded.samples, j \in 1..b : coded.samples[i] < buffer[j]
        /\ \A i \in DOMAIN coded.samples : coded.samples[i] < Horizon
    BY <1>1 DEF IInv, Samples
  <1>4. \A i \in 1..b : buffer[i] \in Int
    <2>1. buffer \in Seq(Place) /\ MaxAudio \in Nat
      BY Constants DEF IInv, TypeOK
    <2>2. \A i \in 1..b : buffer[i] \in Place
      BY <2>1, ElementOfSeq
    <2> QED
      BY <2>1, <2>2 DEF Place
  <1>5. \A i \in DOMAIN coded.samples : coded.samples[i] \in Int
    <2>1. coded.samples \in Seq(Place) /\ MaxAudio \in Nat
      BY Constants DEF IInv, TypeOK, CodedOK
    <2>2. \A i \in DOMAIN coded.samples : coded.samples[i] \in Place
      BY <2>1, LenProperties, ElementOfSeq
    <2> QED
      BY <2>1, <2>2 DEF Place
  <1> HIDE DEF g, b
  <1>6. ASSUME NEW j \in 1..b + p.len
        PROVE  \/ j \in 1..b /\ g[j] = buffer[j]
               \/ j - b \in 1..p.len /\ g[j] = p.at + (j - b) - 1
    <2>1. CASE j <= b
      BY <1>1, <2>1
    <2>2. CASE j > b
      <3>1. j - b \in 1..p.len /\ b + (j - b) = j
        BY <1>1, <1>2, <2>2
      <3> QED
        BY <1>1, <3>1
    <2> QED
      BY <1>1, <2>1, <2>2
  <1>7. Ascends(g)
    <2>1. ASSUME NEW i \in 1..b + p.len, NEW j \in 1..b + p.len, i < j PROVE g[i] < g[j]
      <3>1. CASE j \in 1..b
        BY <1>1, <1>3, <1>6, <2>1, <3>1 DEF Ascends
      <3>2. CASE i \in 1..b /\ j \notin 1..b
        <4>1. g[i] = buffer[i] /\ buffer[i] < Horizon /\ buffer[i] \in Int
          BY <1>1, <1>3, <1>4, <3>2
        <4>2. j - b \in 1..p.len /\ g[j] = p.at + (j - b) - 1
          BY <1>6, <3>2
        <4> QED
          BY <1>1, <1>2, <4>1, <4>2
      <3>3. CASE i \notin 1..b /\ j \notin 1..b
        <4>1. /\ j - b \in 1..p.len /\ g[j] = p.at + (j - b) - 1
              /\ i - b \in 1..p.len /\ g[i] = p.at + (i - b) - 1
          BY <1>6, <3>3
        <4> QED
          BY <1>1, <1>2, <2>1, <4>1
      <3> QED
        BY <1>1, <2>1, <3>1, <3>2, <3>3
    <2> QED
      BY <1>1, <2>1 DEF Ascends
  <1>8. ASSUME NEW i \in DOMAIN coded.samples, NEW j \in 1..b + p.len
        PROVE  coded.samples[i] < g[j]
    <2>1. CASE j \in 1..b
      BY <1>1, <1>3, <2>1
    <2>2. CASE j \notin 1..b
      <3>1. j - b \in 1..p.len /\ g[j] = p.at + (j - b) - 1
        BY <1>6, <2>2
      <3>2. coded.samples[i] < Horizon /\ coded.samples[i] \in Int
        BY <1>3, <1>5
      <3> QED
        BY <1>1, <1>2, <3>1, <3>2
    <2> QED
      BY <2>1, <2>2
  <1>9. ASSUME NEW j \in 1..b + p.len PROVE g[j] < p.at + p.len
    <2>1. CASE j \in 1..b
      <3>1. g[j] < Horizon /\ g[j] \in Int
        BY <1>1, <1>3, <1>4, <2>1
      <3> QED
        BY <1>2, <3>1
    <2>2. CASE j \notin 1..b
      <3>1. j - b \in 1..p.len /\ g[j] = p.at + (j - b) - 1
        BY <1>6, <2>2
      <3> QED
        BY <1>1, <1>2, <3>1
    <2> QED
      BY <2>1, <2>2
  <1> QED
    BY <1>1, <1>7, <1>8, <1>9 DEF g, End

\* What opus keeps of the audio.
BufferTypes ==
  /\ buffer \in Seq(Place) /\ Len(buffer) < FrameSize
  /\ silence \in BOOLEAN
  /\ spurt \in Place \cup {Nothing}
  /\ left \in BOOLEAN
  /\ CodedOK

\* Whatever opus does with a packet, the numbers stay right.
LEMMA InputStep ==
  ASSUME IInv, NEW p \in net, Deliver(p), UNCHANGED radioVars,
         rtp' = Processed(rtp, Header(p), p.len),
         last' = IF Good(rtp, Header(p)) THEN p ELSE last
  PROVE  /\ BufferTypes' => TypeOK'
         /\ (InOrder /\ Marked /\ SenderAhead /\ Delays /\ Expects)'
  <1>1. net' \subseteq net /\ lost' \in 0..MaxGap /\ copies' \in 0..MaxCopies
    BY Delivered
  <1>2. rtp' \in RtpStates({0}) /\ Expects'
    BY <1>1, RtpStep
  <1>3. last' = last \/ last' \in net
    OBVIOUS
  <1>4. (InOrder /\ Marked /\ SenderAhead /\ Delays)'
    BY <1>1, <1>3, NetKeeps
  <1>5. net' \subseteq Packet /\ last' \in Packet \cup {NoPacket}
    BY <1>1, <1>3 DEF IInv, TypeOK
  <1>6. BufferTypes' => TypeOK'
    BY <1>1, <1>2, <1>5 DEF IInv, TypeOK, BufferTypes, radioVars
  <1> QED
    BY <1>2, <1>4, <1>6

\* A packet is dropped.
LEMMA RejectKeeps ==
  ASSUME IInv, NEW p \in net, Reject(p), Deliver(p), UNCHANGED radioVars
  PROVE  IInv'
  <1>1. /\ ~Good(rtp, Header(p)) /\ rtp' = Processed(rtp, Header(p), p.len)
        /\ UNCHANGED <<buffer, silence, last, spurt, left, coded>>
    BY DEF Reject
  <1>2. BufferTypes'
    <2>1. BufferTypes
      BY DEF IInv, TypeOK, BufferTypes
    <2> QED
      BY <1>1, <2>1 DEF BufferTypes, CodedOK
  <1>3. TypeOK' /\ (InOrder /\ Marked /\ SenderAhead /\ Delays /\ Expects)'
    BY <1>1, <1>2, InputStep
  <1>4. (Samples /\ Spurt /\ SpurtIsMarked)'
    BY <1>1 DEF IInv, Samples, Ascends, Spurt, SpurtIsMarked, Horizon
  <1> QED
    BY <1>3, <1>4 DEF IInv

\* What is good is not old.
LEMMA GoodAhead ==
  ASSUME IInv, NEW p \in net, Good(rtp, Header(p))
  PROVE  /\ ~OldSequence(rtp, Header(p))
         /\ spurt # Nothing => spurt \in Nat /\ spurt < p.at
         /\ p.at \in Place /\ p # NoPacket /\ p.at < End(p)
         /\ \A j \in DOMAIN Gathered(p) : j > Len(buffer) => Gathered(p)[j] >= p.at
  <1>1. ~OldSequence(rtp, Header(p))
    BY DEF Good
  <1>2. /\ Horizon \in Nat /\ Horizon <= p.at /\ p.at \in Nat /\ p.len \in Nat /\ 0 < p.len
    BY <1>1, AheadOfHorizon
  <1>3. p \in Packet /\ MaxAudio \in Nat /\ p # NoPacket
    BY PacketType, Constants DEF IInv, TypeOK
  <1>4. spurt # Nothing => spurt \in Nat /\ spurt < Horizon
    BY <1>3 DEF IInv, TypeOK, Spurt, Place
  <1>5. ASSUME NEW j \in DOMAIN Gathered(p), j > Len(buffer) PROVE Gathered(p)[j] >= p.at
    <2> DEFINE g == Gathered(p)
               b == Len(buffer)
    <2>1. /\ b \in Nat /\ DOMAIN g = 1..b + p.len
          /\ \A i \in 1..p.len : g[b + i] = p.at + i - 1
      BY <1>1, GatheredIs
    <2> HIDE DEF g, b
    <2>2. j - b \in 1..p.len /\ b + (j - b) = j
      BY <1>2, <1>5, <2>1 DEF g, b
    <2>3. g[j] = p.at + (j - b) - 1
      BY <2>1, <2>2
    <2> QED
      BY <1>2, <2>2, <2>3 DEF g
  <1> QED
    BY <1>1, <1>2, <1>3, <1>4, <1>5 DEF Packet, End

\* The frames that a packet completes, and what is not enough for another.
LEMMA FramesAre ==
  ASSUME IInv, NEW p \in net, ~OldSequence(rtp, Header(p))
  PROVE  /\ Frames(p) \in Nat /\ Frames(p) * FrameSize \in Nat
         /\ Frames(p) * FrameSize <= Len(Gathered(p))
         /\ Len(Gathered(p)) - Frames(p) * FrameSize < FrameSize
         /\ Frames(p) > 0 => FrameSize <= Frames(p) * FrameSize
         /\ Frames(p) = 0 => Len(Gathered(p)) < FrameSize
  <1>1. PICK n \in Nat : n = Len(Gathered(p))
    BY GatheredIs, AheadOfHorizon
  <1>2. FrameSize \in Nat \ {0} /\ n \in Int
    BY <1>1, Constants
  <1>3. PICK q \in Int : q = n \div FrameSize
    BY <1>2, DivMod
  <1>4. PICK x \in Int : x = n % FrameSize
    BY <1>2, DivMod
  <1>5. q \in Nat /\ x \in 0..FrameSize - 1 /\ n = FrameSize * q + x
    BY <1>2, <1>3, <1>4, DivMod, DivNat
  <1>6. Frames(p) = q
    BY <1>1, <1>3 DEF Frames
  <1>7. q * FrameSize = n - x
    BY <1>2, <1>5
  <1>8. q > 0 => FrameSize <= q * FrameSize
    <2>1. ASSUME q > 0 PROVE FrameSize <= q * FrameSize
      <3>1. PICK j \in Nat : q = j + 1
        <4>1. q - 1 \in Nat /\ q = (q - 1) + 1
          BY <1>5, <2>1
        <4> QED
          BY <4>1
      <3>2. j * FrameSize \in Nat
        BY <1>2
      <3>3. q * FrameSize = j * FrameSize + FrameSize
        BY <1>2, <3>1
      <3> QED
        BY <1>2, <3>2, <3>3
    <2> QED
      BY <2>1
  <1>9. q = 0 => q * FrameSize = 0
    BY <1>2
  <1>10. q * FrameSize \in Nat
    BY <1>2, <1>5
  <1> QED
    BY <1>1, <1>2, <1>5, <1>6, <1>7, <1>8, <1>9, <1>10

\* A packet is added to the buffer.
LEMMA GatherKeeps ==
  ASSUME IInv, NEW p \in net, Gather(p), Deliver(p), UNCHANGED radioVars
  PROVE  IInv'
  <1>1. /\ Good(rtp, Header(p)) /\ Frames(p) = 0
        /\ rtp' = Processed(rtp, Header(p), p.len) /\ buffer' = Gathered(p)
        /\ silence' = (silence \/ Resets(p)) /\ spurt' = IF Resets(p) THEN p.at ELSE spurt
        /\ last' = p /\ coded' = coded /\ left' = left
    BY DEF Gather, SpurtWith
  <1>2. /\ ~OldSequence(rtp, Header(p)) /\ p.at \in Place /\ p # NoPacket /\ p.at < End(p)
        /\ spurt # Nothing => spurt \in Nat /\ spurt < p.at
        /\ \A j \in DOMAIN Gathered(p) : j > Len(buffer) => Gathered(p)[j] >= p.at
    BY <1>1, GoodAhead
  <1>20. Len(Gathered(p)) < FrameSize
    BY <1>1, <1>2, FramesAre
  <1>21. spurt \in Int /\ spurt < p.at
    BY <1>2, Constants DEF Nothing, Place
  <1>3. /\ Gathered(p) \in Seq(Place) /\ Len(buffer) \in Nat /\ p.len \in Nat /\ 0 < p.len
        /\ DOMAIN Gathered(p) = 1..Len(buffer) + p.len /\ DOMAIN buffer = 1..Len(buffer)
        /\ \A i \in 1..Len(buffer) : Gathered(p)[i] = buffer[i]
        /\ \A i \in 1..p.len : Gathered(p)[Len(buffer) + i] = p.at + i - 1
    BY <1>2, GatheredIs, AheadOfHorizon
  <1>4. BufferTypes'
    <2>1. silence' \in BOOLEAN
      BY <1>1 DEF IInv, TypeOK
    <2>2. spurt' \in Place \cup {Nothing}
      BY <1>1, <1>2 DEF IInv, TypeOK
    <2>3. CodedOK' /\ left' \in BOOLEAN
      BY <1>1 DEF IInv, TypeOK, CodedOK
    <2> QED
      BY <1>1, <1>3, <1>20, <2>1, <2>2, <2>3 DEF BufferTypes
  <1>5. TypeOK' /\ (InOrder /\ Marked /\ SenderAhead /\ Delays /\ Expects)'
    BY <1>1, <1>4, InputStep
  <1>6. Horizon' = End(p)
    BY <1>1, <1>2 DEF Horizon, End
  <1>7. Samples'
    <2>1. /\ Ascends(Gathered(p))
          /\ \A i \in DOMAIN coded.samples, j \in DOMAIN Gathered(p) :
               coded.samples[i] < Gathered(p)[j]
          /\ \A j \in DOMAIN Gathered(p) : Gathered(p)[j] < End(p)
      BY <1>2, GatheredAscends
    <2>2. \A i \in DOMAIN coded.samples : coded.samples[i] < End(p)
      <3>1. \A i \in DOMAIN coded.samples : coded.samples[i] < Horizon /\ coded.samples[i] \in Int
        <4>1. coded.samples \in Seq(Place) /\ MaxAudio \in Nat
          BY Constants DEF IInv, TypeOK, CodedOK
        <4>2. \A i \in DOMAIN coded.samples : coded.samples[i] \in Place
          BY <4>1, LenProperties, ElementOfSeq
        <4> QED
          BY <4>1, <4>2 DEF Place, IInv, Samples
      <3>2. Horizon \in Nat /\ Horizon <= p.at /\ p.at \in Nat
        BY <1>2, AheadOfHorizon
      <3> QED
        BY <1>2, <1>3, <3>1, <3>2 DEF End
    <2> QED
      BY <1>1, <1>6, <2>1, <2>2 DEF Samples, Ascends, IInv
  <1>8. Spurt'
    <2>1. CASE Resets(p)
      <3>1. Len(buffer) + 1 \in DOMAIN Gathered(p) /\ Gathered(p)[Len(buffer) + 1] = p.at
        BY <1>2, <1>3 DEF Place
      <3> QED
        BY <1>1, <1>2, <1>6, <2>1, <3>1 DEF Spurt
    <2>2. CASE ~Resets(p)
      <3>1. (\E i \in DOMAIN Gathered(p) : Gathered(p)[i] = spurt)
              <=> \E i \in DOMAIN buffer : buffer[i] = spurt
        <4>1. \A i \in DOMAIN buffer : i \in DOMAIN Gathered(p) /\ Gathered(p)[i] = buffer[i]
          BY <1>3
        <4>2. ASSUME NEW i \in DOMAIN Gathered(p), Gathered(p)[i] = spurt
              PROVE  i \in DOMAIN buffer
          <5>1. CASE i > Len(buffer)
            BY <1>2, <1>21, <4>2, <5>1 DEF Place
          <5>2. CASE ~(i > Len(buffer))
            BY <1>3, <5>2
          <5> QED
            BY <5>1, <5>2
        <4> QED
          BY <1>3, <4>1, <4>2
      <3>2. spurt # Nothing => spurt < End(p)
        BY <1>2, <1>3 DEF End, Place
      <3> QED
        BY <1>1, <1>6, <2>2, <3>1, <3>2 DEF Spurt, IInv
    <2> QED
      BY <2>1, <2>2
  <1>9. SpurtIsMarked'
    BY <1>1 DEF IInv, SpurtIsMarked
  <1> QED
    BY <1>5, <1>7, <1>8, <1>9 DEF IInv

\* The frames cut off what is gathered, and the rest that is not a frame.
LEMMA Cut ==
  ASSUME IInv, NEW p \in net, ~OldSequence(rtp, Header(p)), Frames(p) > 0,
         NEW c \in Nat, c = Frames(p) * FrameSize,
         NEW s, s = SubSeq(Gathered(p), 1, c),
         NEW r, r = SubSeq(Gathered(p), c + 1, Len(Gathered(p)))
  PROVE  /\ s \in Seq(Place) /\ r \in Seq(Place) /\ Len(r) < FrameSize
         /\ DOMAIN s = 1..c /\ DOMAIN r = 1..Len(Gathered(p)) - c
         /\ FrameSize \in Nat /\ FrameSize <= c /\ Len(Gathered(p)) \in Nat
         /\ DOMAIN Gathered(p) = 1..Len(Gathered(p))
         /\ \A i \in DOMAIN s : i \in DOMAIN Gathered(p) /\ s[i] = Gathered(p)[i]
         /\ \A i \in DOMAIN r : c + i \in DOMAIN Gathered(p)
                                /\ r[i] = Gathered(p)[c + i]
  <1> DEFINE g == Gathered(p)
             n == Len(g)
  <1>1. g \in Seq(Place) /\ n = Len(buffer) + p.len /\ Len(buffer) \in Nat
    BY GatheredIs
  <1>2. FrameSize \in Nat \ {0} /\ FrameSize <= c /\ c <= n /\ n - c < FrameSize
    BY FramesAre, Constants
  <1>3. n \in Nat /\ DOMAIN g = 1..n
    BY <1>1
  <1>4. \A i \in 1..n : g[i] \in Place
    BY <1>1, ElementOfSeq
  <1> HIDE DEF g, n
  <1>5. /\ SubSeq(g, 1, c) \in Seq(Place)
        /\ Len(SubSeq(g, 1, c)) = IF 1 <= c THEN c - 1 + 1 ELSE 0
        /\ \A i \in 1..c - 1 + 1 : SubSeq(g, 1, c)[i] = g[1 + i - 1]
    <2>1. 1 \in Int /\ c \in Int /\ \A i \in 1..c : g[i] \in Place
      BY <1>2, <1>3, <1>4
    <2> QED
      BY <2>1, SubSeqProperties
  <1>6. /\ SubSeq(g, c + 1, n) \in Seq(Place)
        /\ Len(SubSeq(g, c + 1, n)) = IF c + 1 <= n THEN n - (c + 1) + 1 ELSE 0
        /\ \A i \in 1..n - (c + 1) + 1 : SubSeq(g, c + 1, n)[i] = g[c + 1 + i - 1]
    <2>1. c + 1 \in Int /\ n \in Int /\ \A i \in c + 1..n : g[i] \in Place
      BY <1>2, <1>3, <1>4
    <2> QED
      BY <2>1, SubSeqProperties
  <1>7. s = SubSeq(g, 1, c) /\ r = SubSeq(g, c + 1, n)
    BY DEF g, n
  <1>8. s \in Seq(Place) /\ DOMAIN s = 1..c
    <2>1. s \in Seq(Place) /\ Len(s) = c
      BY <1>2, <1>5, <1>7
    <2> QED
      BY <2>1
  <1>9. r \in Seq(Place) /\ DOMAIN r = 1..n - c /\ Len(r) < FrameSize
    <2>0. n - (c + 1) + 1 = n - c /\ (~(c + 1 <= n) => n - c = 0)
      BY <1>2, <1>3
    <2>1. r \in Seq(Place) /\ Len(r) = n - c
      BY <1>6, <1>7, <2>0, ZenonT(60)
    <2> QED
      BY <1>2, <2>1
  <1>10. ASSUME NEW i \in 1..c PROVE i \in 1..n /\ s[i] = g[i]
    <2>1. i \in 1..n /\ i \in 1..c - 1 + 1 /\ 1 + i - 1 = i
      BY <1>2, <1>3
    <2> QED
      BY <1>5, <1>7, <2>1
  <1>11. ASSUME NEW i \in 1..n - c
         PROVE  c + i \in 1..n /\ r[i] = g[c + i]
    <2>1. c + i \in 1..n /\ i \in 1..n - (c + 1) + 1 /\ c + 1 + i - 1 = c + i
      BY <1>2, <1>3
    <2> QED
      BY <1>6, <1>7, <2>1
  <1> QED
    BY <1>2, <1>3, <1>8, <1>9, <1>10, <1>11 DEF g, n

\* Where a frame lies among what is gathered.
LEMMA FramePlaces ==
  ASSUME NEW k \in Nat \ {0}
  PROVE  /\ k = 1 => (k - 1) * FrameSize = 0 /\ k * FrameSize = FrameSize
         /\ k # 1 => (k - 1) * FrameSize >= FrameSize
         /\ (k - 1) * FrameSize \in Int /\ k * FrameSize \in Int
  <1>1. FrameSize \in Nat
    BY Constants
  <1>2. CASE k = 1
    BY <1>1, <1>2
  <1>3. CASE k # 1
    <2>1. PICK j \in Nat : k = j + 2
      <3>1. k - 2 \in Nat /\ k = (k - 2) + 2
        BY <1>3
      <3> QED
        BY <3>1
    <2>2. j * FrameSize \in Nat
      BY <1>1
    <2>3. (k - 1) * FrameSize = j * FrameSize + FrameSize
      BY <1>1, <2>1
    <2> QED
      BY <1>1, <1>3, <2>2, <2>3
  <1> QED
    BY <1>2, <1>3

\* Frames are encoded, and the rest of the packet stays.
LEMMA EncodeKeeps ==
  ASSUME IInv, NEW p \in net, Encode(p), Deliver(p), UNCHANGED radioVars
  PROVE  IInv'
  <1> DEFINE g == Gathered(p)
             n == Frames(p)
             m == silence \/ Resets(p)
             t == SpurtWith(p)
  <1>1. /\ Good(rtp, Header(p)) /\ n > 0 /\ last' = p
        /\ rtp' = Processed(rtp, Header(p), p.len) /\ spurt' = t
        /\ buffer' = SubSeq(g, n * FrameSize + 1, Len(g))
    BY DEF Encode
  <1>2. PICK d \in Choices(p) :
          coded' = FramesOf(p, d) /\ silence' = d[n] /\ left' = d[n]
    BY DEF Encode
  <1>3. /\ ~OldSequence(rtp, Header(p)) /\ p.at \in Place /\ p # NoPacket /\ p.at < End(p)
        /\ spurt # Nothing => spurt \in Nat /\ spurt < p.at
        /\ \A j \in DOMAIN g : j > Len(buffer) => g[j] >= p.at
    BY <1>1, GoodAhead
  <1>4. /\ g \in Seq(Place) /\ Len(buffer) \in Nat /\ p.len \in Nat /\ 0 < p.len
        /\ Len(buffer) < FrameSize
        /\ DOMAIN g = 1..Len(buffer) + p.len /\ DOMAIN buffer = 1..Len(buffer)
        /\ \A i \in 1..Len(buffer) : g[i] = buffer[i]
        /\ \A i \in 1..p.len : g[Len(buffer) + i] = p.at + i - 1
    BY <1>3, GatheredIs, AheadOfHorizon
  <1>5. n \in Nat /\ n * FrameSize \in Nat
    BY <1>3, FramesAre
  <1>6. PICK c \in Nat : c = n * FrameSize
    BY <1>5
  <1>7. PICK s : s = SubSeq(g, 1, c)
    OBVIOUS
  <1>8. PICK r : r = SubSeq(g, c + 1, Len(g))
    OBVIOUS
  <1>9. /\ s \in Seq(Place) /\ r \in Seq(Place) /\ Len(r) < FrameSize
        /\ DOMAIN s = 1..c /\ DOMAIN r = 1..Len(g) - c
        /\ FrameSize \in Nat /\ FrameSize <= c /\ Len(g) \in Nat /\ DOMAIN g = 1..Len(g)
        /\ \A i \in DOMAIN s : i \in DOMAIN g /\ s[i] = g[i]
        /\ \A i \in DOMAIN r : c + i \in DOMAIN g /\ r[i] = g[c + i]
    <2>1. s = SubSeq(Gathered(p), 1, c) /\ r = SubSeq(Gathered(p), c + 1, Len(Gathered(p)))
      BY <1>7, <1>8
    <2>2. /\ s \in Seq(Place) /\ r \in Seq(Place) /\ Len(r) < FrameSize
          /\ DOMAIN s = 1..c /\ DOMAIN r = 1..Len(Gathered(p)) - c
          /\ FrameSize \in Nat /\ FrameSize <= c /\ Len(Gathered(p)) \in Nat
          /\ DOMAIN Gathered(p) = 1..Len(Gathered(p))
          /\ \A i \in DOMAIN s : i \in DOMAIN Gathered(p) /\ s[i] = Gathered(p)[i]
          /\ \A i \in DOMAIN r : c + i \in DOMAIN Gathered(p)
                                 /\ r[i] = Gathered(p)[c + i]
      <3>1. Frames(p) > 0 /\ c = Frames(p) * FrameSize /\ ~OldSequence(rtp, Header(p))
        BY <1>1, <1>3, <1>6
      <3> HIDE DEF g, n, m, t
      <3>2. s \in Seq(Place) /\ r \in Seq(Place) /\ Len(r) < FrameSize
        BY <1>6, <2>1, <3>1, Cut
      <3>3. DOMAIN s = 1..c /\ DOMAIN r = 1..Len(Gathered(p)) - c
        BY <1>6, <2>1, <3>1, Cut
      <3>4. /\ FrameSize \in Nat /\ FrameSize <= c /\ Len(Gathered(p)) \in Nat
            /\ DOMAIN Gathered(p) = 1..Len(Gathered(p))
        BY <1>6, <2>1, <3>1, Cut
      <3>5. \A i \in DOMAIN s : i \in DOMAIN Gathered(p) /\ s[i] = Gathered(p)[i]
        <4>1. s = SubSeq(Gathered(p), 1, c)
          BY <2>1
        <4>2. r = SubSeq(Gathered(p), c + 1, Len(Gathered(p)))
          BY <2>1
        <4> QED
          BY <1>6, <3>1, <4>1, <4>2, Cut, ZenonT(60)
      <3>6. ASSUME NEW i \in DOMAIN r
            PROVE  c + i \in DOMAIN Gathered(p) /\ r[i] = Gathered(p)[c + i]
        BY <1>6, <2>1, <3>1, Cut
      <3> QED
        BY <3>2, <3>3, <3>4, <3>5, <3>6, ZenonT(60)
    <2> QED
      BY <2>2
  <1>10. /\ Ascends(g) /\ \A j \in DOMAIN g : g[j] < End(p)
    BY <1>3, GatheredAscends
  <1>11. /\ m \in BOOLEAN /\ t \in Place \cup {Nothing} /\ p.at \in Nat /\ left \in BOOLEAN
         /\ spurt \in Int /\ spurt < p.at /\ t \in Int /\ t < End(p)
    <2>1. MaxAudio \in Nat /\ spurt \in Place \cup {Nothing} /\ left \in BOOLEAN
          /\ silence \in BOOLEAN /\ End(p) \in Int
      BY <1>3, <1>4, Constants DEF IInv, TypeOK, Place, End
    <2>2. p.at \in Nat /\ spurt \in Int /\ spurt < p.at
      BY <1>3, <2>1 DEF Place, Nothing
    <2> QED
      BY <1>3, <2>1, <2>2 DEF SpurtWith, Place, Nothing
  <1>12. /\ d \in [1..n -> BOOLEAN] /\ n \in 1..n
         /\ \A k \in 1..n : k # 1 => k - 1 \in 1..n
    <2>1. d \in [1..n -> BOOLEAN]
      BY DEF Choices
    <2> HIDE DEF n
    <2>2. n \in 1..n /\ \A k \in 1..n : k # 1 => k - 1 \in 1..n
      BY <1>1, <1>5
    <2> QED
      BY <2>1, <2>2
  <1>13. /\ coded'.samples = s /\ coded'.spurt = t
         /\ coded'.marker = [k \in 1..n |-> IF k = 1 THEN m ELSE d[k - 1]]
         /\ coded'.left = [k \in 1..n |-> IF k = 1 THEN left ELSE d[k - 1]]
         /\ coded' = [samples |-> s, marker |-> coded'.marker, spurt |-> t,
                      left |-> coded'.left]
    BY <1>2, <1>6, <1>7 DEF FramesOf
  <1> HIDE DEF g, n, m
  <1>14. BufferTypes'
    <2>1. /\ coded'.marker \in [1..n -> BOOLEAN] /\ coded'.left \in [1..n -> BOOLEAN]
      BY <1>11, <1>12, <1>13
    <2>2. coded'.marker \in Seq(BOOLEAN) /\ coded'.left \in Seq(BOOLEAN)
      BY <1>5, <2>1, SeqDef
    <2>3. coded' \in [samples: Seq(Place), marker: Seq(BOOLEAN), spurt: Place \cup {Nothing},
                      left: Seq(BOOLEAN)]
      BY <1>9, <1>11, <1>13, <2>2
    <2>4. silence' \in BOOLEAN /\ left' \in BOOLEAN
      BY <1>2, <1>12
    <2>5. spurt' \in Place \cup {Nothing} /\ buffer' = r
      BY <1>1, <1>6, <1>8, <1>11
    <2> QED
      BY <1>9, <2>3, <2>4, <2>5 DEF BufferTypes, CodedOK
  <1>15. TypeOK' /\ (InOrder /\ Marked /\ SenderAhead /\ Delays /\ Expects)'
    BY <1>1, <1>14, InputStep
  <1>16. Horizon' = End(p)
    BY <1>1, <1>3 DEF Horizon, End
  <1>17. buffer' = r
    BY <1>1, <1>6, <1>8
  <1>18. Samples'
    <2>1. Ascends(s)
      BY <1>9, <1>10 DEF Ascends
    <2>2. \A i \in DOMAIN s, j \in DOMAIN r : s[i] < r[j]
      <3>1. ASSUME NEW i \in DOMAIN s, NEW j \in DOMAIN r PROVE i < c + j
        BY <1>9
      <3> QED
        BY <1>9, <1>10, <3>1 DEF Ascends
    <2>3. Ascends(r)
      <3>1. ASSUME NEW i \in DOMAIN r, NEW j \in DOMAIN r, i < j
            PROVE  c + i < c + j
        BY <1>9, <3>1
      <3> QED
        BY <1>9, <1>10, <3>1 DEF Ascends
    <2>4. /\ \A i \in DOMAIN s : s[i] < End(p)
          /\ \A i \in DOMAIN r : r[i] < End(p)
      BY <1>9, <1>10
    <2> QED
      BY <1>13, <1>16, <1>17, <2>1, <2>2, <2>3, <2>4 DEF Samples, Ascends
  <1>19. ASSUME NEW i \in DOMAIN g, i > FrameSize PROVE g[i] # t
    <2>1. i > Len(buffer) /\ g[i] \in Int /\ g[i] >= p.at
      <3>1. i > Len(buffer)
        BY <1>4, <1>9, <1>19
      <3>2. g[i] \in Place
        BY <1>4, <1>9, ElementOfSeq
      <3> QED
        BY <1>3, <3>1, <3>2, Constants DEF Place
    <2>2. CASE Resets(p)
      <3>1. Len(buffer) + 1 \in DOMAIN g /\ g[Len(buffer) + 1] = p.at + 1 - 1
        BY <1>4
      <3>2. Len(buffer) + 1 < i
        BY <1>4, <1>9, <1>19
      <3>3. g[Len(buffer) + 1] < g[i]
        BY <1>10, <3>1, <3>2 DEF Ascends
      <3> QED
        BY <1>11, <2>1, <2>2, <3>1, <3>3 DEF SpurtWith
    <2>3. CASE ~Resets(p)
      BY <1>11, <2>1, <2>3 DEF SpurtWith
    <2> QED
      BY <2>2, <2>3
  <1>20. ASSUME Resets(p) PROVE \E i \in DOMAIN s : i <= FrameSize /\ s[i] = t
    <2>1. Len(buffer) + 1 \in DOMAIN s /\ g[Len(buffer) + 1] = p.at + 1 - 1
          /\ Len(buffer) + 1 <= FrameSize
      BY <1>4, <1>9
    <2>2. s[Len(buffer) + 1] = t
      BY <1>9, <1>11, <1>20, <2>1 DEF SpurtWith
    <2> QED
      BY <2>1, <2>2
  <1>21. ASSUME ~Resets(p)
         PROVE  (\E i \in DOMAIN s : i <= FrameSize /\ s[i] = t)
                  <=> \E i \in DOMAIN buffer : buffer[i] = spurt
    <2>0. t = spurt
      BY <1>21 DEF SpurtWith
    <2>1. ASSUME NEW i \in DOMAIN buffer
          PROVE  i \in DOMAIN s /\ i <= FrameSize /\ s[i] = buffer[i]
      <3>1. i \in 1..c /\ i <= FrameSize
        BY <1>4, <1>9
      <3> QED
        BY <1>4, <1>9, <3>1
    <2>2. ASSUME NEW i \in DOMAIN s, s[i] = t PROVE i \in DOMAIN buffer
      <3>1. CASE i > Len(buffer)
        <4>1. s[i] >= p.at
          BY <1>3, <1>9, <3>1
        <4> QED
          BY <1>11, <2>0, <2>2, <4>1
      <3>2. CASE ~(i > Len(buffer))
        BY <1>4, <1>9, <3>2
      <3> QED
        BY <3>1, <3>2
    <2> QED
      BY <1>4, <1>9, <2>0, <2>1, <2>2
  <1>22. m <=> left \/ \E i \in DOMAIN s : i <= FrameSize /\ s[i] = t
    <2>1. CASE Resets(p)
      BY <1>20, <2>1 DEF m
    <2>2. CASE ~Resets(p)
      <3>1. silence <=> left \/ \E i \in DOMAIN buffer : buffer[i] = spurt
        BY DEF IInv, Spurt
      <3> QED
        BY <1>21, <2>2, <3>1 DEF m
    <2> QED
      BY <2>1, <2>2
  <1> HIDE DEF t
  <1>23. SpurtIsMarked'
    <2>1. SUFFICES ASSUME NEW k \in 1..n
                   PROVE  coded'.marker[k] <=>
                            \/ coded'.left[k]
                            \/ \E i \in DOMAIN s : (k - 1) * FrameSize < i
                                 /\ i <= k * FrameSize /\ s[i] = t
      BY <1>13 DEF SpurtIsMarked
    <2>2. k \in Nat \ {0}
      BY <1>5
    <2>3. CASE k = 1
      <3>1. (k - 1) * FrameSize = 0 /\ k * FrameSize = FrameSize
        BY <2>2, <2>3, FramePlaces
      <3>2. coded'.marker[k] = m /\ coded'.left[k] = left
        BY <1>13, <2>3
      <3>3. \A i \in DOMAIN s : 0 < i
        BY <1>9
      <3> QED
        BY <1>22, <3>1, <3>2, <3>3
    <2>4. CASE k # 1
      <3>1. (k - 1) * FrameSize >= FrameSize /\ (k - 1) * FrameSize \in Int
        BY <2>2, <2>4, FramePlaces
      <3>2. coded'.marker[k] = d[k - 1] /\ coded'.left[k] = d[k - 1]
        BY <1>13, <2>4
      <3>3. ASSUME NEW i \in DOMAIN s, (k - 1) * FrameSize < i PROVE s[i] # t
        <4>1. i \in DOMAIN g /\ s[i] = g[i] /\ i > FrameSize
          BY <1>9, <3>1, <3>3
        <4> QED
          BY <1>19, <4>1
      <3> QED
        BY <3>2, <3>3
    <2> QED
      BY <2>3, <2>4
  <1>24. Spurt'
    <2>1. ASSUME NEW j \in DOMAIN r PROVE r[j] # t
      <3>1. c + j \in DOMAIN g /\ r[j] = g[c + j] /\ c + j > FrameSize
        BY <1>9
      <3> QED
        BY <1>19, <3>1
    <2>2. spurt' = t /\ silence' = left' /\ t < Horizon'
      BY <1>1, <1>2, <1>11, <1>16
    <2> QED
      BY <1>17, <2>1, <2>2 DEF Spurt
  <1> QED
    BY <1>15, <1>18, <1>23, <1>24 DEF IInv

-----------------------------------------------------------------------------
(* What is proved *)

\* It is so at first.
LEMMA InitIInv == Init => IInv
  <1> SUFFICES ASSUME Init PROVE IInv
    OBVIOUS
  <1>1. <<>> \in Seq(Place) /\ Len(<<>>) = 0
    BY EmptySeq
  <1>2. /\ MaxAudio \in Nat /\ BlockLen \in Nat /\ MaxSilence \in Nat /\ MaxFailures \in Nat
        /\ MaxGap \in Nat /\ MaxCopies \in Nat /\ PacketMax \in Nat /\ FrameSize \in Nat
        /\ FrameSize # 0 /\ PacketMax \in Nat \ {0}
        /\ SeqMod \in Nat \ {0} /\ TimeMod \in Nat \ {0}
    BY Constants
  <1>3. TypeOK
    <2>1. rtp \in RtpStates({0})
      BY <1>2 DEF Init, Unopened, RtpStates
    <2>2. coded \in [samples: Seq(Place), marker: Seq(BOOLEAN), spurt: Place \cup {Nothing},
                    left: Seq(BOOLEAN)]
      <3>1. <<>> \in Seq(BOOLEAN)
        BY EmptySeq
      <3> QED
        BY <1>1, <3>1 DEF Init, NoFrame
    <2>3. buffer \in Seq(Place) /\ Len(buffer) < FrameSize
      BY <1>1, <1>2 DEF Init
    <2>4. /\ produced \in 0..MaxAudio /\ size \in 0..BlockLen /\ quiet \in 0..MaxSilence
          /\ failures \in 0..MaxFailures /\ lost \in 0..MaxGap /\ copies \in 0..MaxCopies
          /\ net \subseteq Packet /\ last \in Packet \cup {NoPacket}
      BY <1>2 DEF Init
    <2>5. out \in [timestamp: 0..MaxAudio, seq: 0..MaxAudio, silent: BOOLEAN]
      BY <1>2 DEF Init
    <2>6. silence \in BOOLEAN /\ spurt \in Place \cup {Nothing} /\ left \in BOOLEAN
      BY DEF Init
    <2>7. CodedOK
      BY <2>2 DEF CodedOK
    <2> QED
      BY <2>1, <2>3, <2>4, <2>5, <2>6, <2>7 DEF TypeOK
  <1>4. Known = {} /\ net = {}
    BY DEF Init, Known
  <1>5. InOrder /\ Marked /\ Delays
    BY <1>4 DEF Init, InOrder, Marked, Delays
  <1>6. SenderAhead
    <2>1. out.seq = 0 /\ out.timestamp = 0 /\ produced = 0 /\ size = 0
      BY DEF Init
    <2> QED
      BY <1>2, <1>4, <2>1 DEF SenderAhead
  <1>7. Expects
    BY DEF Init, Expects, Unopened
  <1>8. Samples /\ Spurt /\ SpurtIsMarked
    BY <1>1 DEF Init, Samples, Ascends, Spurt, SpurtIsMarked, NoFrame
  <1> QED
    BY <1>3, <1>5, <1>6, <1>7, <1>8 DEF IInv

\* And stays so.
THEOREM Inductive == IInv /\ [Next]_vars => IInv'
  <1> SUFFICES ASSUME IInv, [Next]_vars PROVE IInv'
    OBVIOUS
  <1>1. CASE SendOutput
    BY <1>1, StartBlockKeeps, SuppressKeeps, SendChunkKeeps, FailChunkKeeps DEF SendOutput
  <1>2. ASSUME NEW p \in net, Input(p) PROVE IInv'
    BY <1>2, RejectKeeps, GatherKeeps, EncodeKeeps DEF Input
  <1>3. CASE UNCHANGED vars
    <2>1. UNCHANGED <<produced, size, out, quiet, failures, net, lost, copies, rtp, last>>
      BY <1>3 DEF vars, radioVars, netVars, opusVars
    <2>2. (Samples /\ Spurt /\ SpurtIsMarked)'
      BY <1>3, OpusUntouched DEF vars
    <2>3. TypeOK'
      BY <1>3, <2>1 DEF IInv, TypeOK, CodedOK, vars, opusVars
    <2>4. (InOrder /\ Marked /\ SenderAhead /\ Delays /\ Expects)'
      BY <2>1 DEF IInv, InOrder, After, End, Known, Marked, SenderAhead, BehindSender,
         Delays, Expects, ExpectsSeq
    <2> QED
      BY <2>2, <2>3, <2>4 DEF IInv
  <1> QED
    BY <1>1, <1>2, <1>3 DEF Next

\* The variables keep their types: radio's counts are within the audio there is,
\* and opus's buffer never reaches a frame.
THEOREM TypeCorrect == Spec => []TypeOK
  <1>1. IInv => TypeOK
    BY DEF IInv
  <1> QED
    BY InitIInv, Inductive, <1>1, PTL DEF Spec

\* Whatever the network loses, repeats and reorders, opus encodes the audio in its
\* order, none of it twice, and marks the frames with which talk spurts begin.
THEOREM FramesSoundThm == Spec => []FramesSound
  <1>1. IInv => FramesSound
    <2> SUFFICES ASSUME IInv PROVE SamplesInOrder
      BY DEF IInv, FramesSound
    <2> DEFINE s == coded.samples
               all == s \o buffer
               n == Len(s)
    <2>1. s \in Seq(Place) /\ buffer \in Seq(Place)
      BY DEF IInv, TypeOK, CodedOK
    <2>2. /\ all \in Seq(Place) /\ Len(all) = n + Len(buffer)
          /\ \A i \in 1..n + Len(buffer) : all[i] = IF i <= n THEN s[i] ELSE buffer[i - n]
      BY <2>1, ConcatProperties
    <2>3. n \in Nat /\ Len(buffer) \in Nat /\ DOMAIN s = 1..n /\ DOMAIN buffer = 1..Len(buffer)
          /\ DOMAIN all = 1..n + Len(buffer)
      BY <2>1, <2>2, LenProperties
    <2>4. /\ Ascends(s) /\ Ascends(buffer)
          /\ \A i \in DOMAIN s, j \in DOMAIN buffer : s[i] < buffer[j]
      BY DEF IInv, Samples
    <2> HIDE DEF s, all, n
    <2>5. ASSUME NEW i \in DOMAIN all, NEW j \in DOMAIN all, i < j PROVE all[i] < all[j]
      <3>1. CASE j <= n
        <4>1. i \in DOMAIN s /\ j \in DOMAIN s /\ all[i] = s[i] /\ all[j] = s[j]
          BY <2>2, <2>3, <2>5, <3>1
        <4> QED
          BY <2>4, <2>5, <4>1 DEF Ascends
      <3>2. CASE i <= n /\ ~(j <= n)
        <4>1. i \in DOMAIN s /\ all[i] = s[i]
          BY <2>2, <2>3, <3>2
        <4>2. j - n \in DOMAIN buffer /\ all[j] = buffer[j - n]
          BY <2>2, <2>3, <3>2
        <4> QED
          BY <2>4, <4>1, <4>2
      <3>3. CASE ~(i <= n)
        <4>1. /\ i - n \in DOMAIN buffer /\ all[i] = buffer[i - n]
              /\ j - n \in DOMAIN buffer /\ all[j] = buffer[j - n] /\ i - n < j - n
          BY <2>2, <2>3, <2>5, <3>3
        <4> QED
          BY <2>4, <4>1 DEF Ascends
      <3> QED
        BY <3>1, <3>2, <3>3
    <2> QED
      BY <2>5 DEF SamplesInOrder, all, s
  <1> QED
    BY InitIInv, Inductive, <1>1, PTL DEF Spec

\* A step of the timestamp between packets with consecutive numbers is the silence
\* left out, and marked: a lost or failed packet never passes for silence.
THEOREM GapIsSilenceHolds == Spec => GapIsSilence
  <1> DEFINE Step == last # NoPacket /\ last' # last /\ last'.idx = last.idx + 1 =>
                       /\ TimeStep(rtp, Header(last')) = last'.quiet
                       /\ last'.at - End(last) = last'.quiet
                       /\ last'.marker <=> last'.quiet > 0
  <1>1. IInv /\ [Next]_vars => [Step]_vars
    <2> SUFFICES ASSUME IInv, [Next]_vars, last # NoPacket, last' # last,
                        last'.idx = last.idx + 1
                 PROVE  /\ TimeStep(rtp, Header(last')) = last'.quiet
                        /\ last'.at - End(last) = last'.quiet
                        /\ last'.marker <=> last'.quiet > 0
      OBVIOUS
    <2>1. PICK p \in net : last' = p /\ Good(rtp, Header(p))
      <3>1. ~SendOutput
        BY DEF SendOutput, StartBlock, Suppress, SendChunk, FailChunk, opusVars
      <3>2. ~UNCHANGED vars
        BY DEF vars, opusVars
      <3>3. PICK p \in net : Input(p)
        BY <3>1, <3>2 DEF Next
      <3> QED
        BY <3>3 DEF Input, Reject, Gather, Encode
    <2>2. After(last, p) /\ p.idx = last.idx + 1
      BY <2>1, Ahead DEF Good
    <2>3. p.at = End(last) + p.quiet /\ p.stamp = last.stamp + last.len + p.quiet
      BY <2>2 DEF After
    <2>4. /\ p \in Packet /\ p.quiet \in Nat /\ p.at \in Nat /\ p \in Known
          /\ last.at \in Nat /\ last.len \in Nat /\ last.stamp \in Nat
      BY KnownType, PacketType, InitIff DEF IInv
    <2>5. last.stamp + last.len \in Nat
      BY <2>4
    <2>6. /\ rtp \in RtpStates({0}) /\ rtp.init /\ rtp.ssrc = 0
          /\ rtp.timestamp = (last.stamp + last.len) % TimeMod
      BY InitIff DEF IInv, Expects
    <2>7. TimeStep(rtp, Header(p)) = p.quiet
      BY <2>3, <2>4, <2>5, <2>6, SilenceSeen
    <2>8. p.at - End(last) = p.quiet
      BY <2>3, <2>4 DEF End
    <2>9. p.marker <=> p.quiet > 0
      BY <2>4 DEF IInv, Marked
    <2> QED
      BY <2>1, <2>7, <2>8, <2>9
  <1> QED
    BY InitIInv, Inductive, <1>1, PTL DEF Spec, GapIsSilence
-----------------------------------------------------------------------------
(* Lists made of pointers: the sessions of the receivers *)

\* The places q[1..n] are those in use, in the order of the list: the head, and
\* from each to the next.  A prev that is set is the place before.
Lined(used, head, next, prev, n, q) ==
  /\ \A j, k \in 1..n : q[j] = q[k] => j = k
  /\ \A i \in Ids : i \in used <=> \E k \in 1..n : q[k] = i
  /\ head = IF n = 0 THEN NULL ELSE q[1]
  /\ \A k \in 1..n : next[q[k]] = IF k < n THEN q[k + 1] ELSE NULL
  /\ \A k \in 1..n : prev[q[k]] = NULL \/ (k > 1 /\ prev[q[k]] = q[k - 1])

\* Every prev is set.
BothWays(prev, n, q) == \A k \in 2..n : prev[q[k]] = q[k - 1]

-----------------------------------------------------------------------------
(* The sessions of monitor *)

Nexts == [i \in Live |-> sess[i].next]
Prevs == [i \in Live |-> sess[i].prev]

SessionsLined ==
  \E n \in Nat : \E q \in [1..n -> Ids] :
    Lined(Live, Session, Nexts, Prevs, n, q) /\ BothWays(Prevs, n, q)

\* The display's cursor is on a session, and the one it waits for is to end.
CursorOn ==
  /\ Current \in Live \cup {NULL}
  /\ display # "keys" => Current \in Live /\ sess[Current].terminate

\* A session without a decoder has one receive thread to start it.
Starting ==
  /\ \A r \in Receivers : receiver[r].at = "start" =>
       receiver[r].sp \in Live /\ sess[receiver[r].sp].decoder = "none"
  /\ \A r, other \in Receivers :
       /\ receiver[r].at = "start" /\ receiver[other].at = "start"
       /\ receiver[r].sp = receiver[other].sp
       => r = other

Holds(r) == receiver[r].at \in {"start", "insert", "stuck"}

\* Until the display deletes it, a session that a thread holds is of its stream.
HeldSound ==
  /\ \A r \in Receivers : receiver[r].at # "recv" => receiver[r].packet \in Streams
  /\ ~clashed => \A r \in Receivers : Holds(r) =>
       /\ receiver[r].sp \in Live /\ ~sess[receiver[r].sp].terminate
       /\ sess[receiver[r].sp].stream = receiver[r].packet

MonitorInv ==
  SessionTypes /\ SessionsLined /\ CursorOn /\ Starting /\ HeldSound /\ OwnPackets

-----------------------------------------------------------------------------
(* The sessions of opus and pcmcat *)

ChainNexts == [i \in Kept |-> node[i].next]
ChainPrevs == [i \in Kept |-> node[i].prev]

ChainLined ==
  \E n \in Nat : \E q \in [1..n -> Ids] : Lined(Kept, Audio, ChainNexts, ChainPrevs, n, q)

OneEach == \A i, j \in Kept : node[i].stream = node[j].stream => i = j

ChainInv ==
  /\ Audio \in Pointer /\ node \in [Ids -> {NULL} \cup Nodes]
  /\ ChainLined /\ OneEach

ProgramInv ==
  /\ program \in {"monitor", "opus", "pcmcat"}
  /\ closing \in BOOLEAN /\ (closing => program = "opus")
  /\ arrivals \in 0..MaxArrivals

\* What pcmcat has written, and the packet it would take for the next: at first
\* none.
CatFollows(s, n) ==
  /\ Ssrc = 0 \/ s.ssrc = Ssrc
  /\ n \in 1..top[s]
  /\ catRtp \in RtpStates({s.ssrc}) /\ catRtp.init /\ catRtp.ssrc = s.ssrc
  /\ catRtp.seq = (SeqMod - 1 + n) % SeqMod /\ catRtp.timestamp = n % TimeMod
  /\ \A j \in DOMAIN written : written[j].stream = s /\ written[j].n <= n

TopBounded == \A s \in Streams : top[s] <= arrivals * (MaxLost + 1)

CatInv ==
  /\ Ssrc \in Nat /\ top \in [Streams -> Nat] /\ TopBounded
  /\ written \in Seq([stream : Streams, n : Nat])
  /\ \A i, j \in DOMAIN written : i < j => written[i].n < written[j].n
  /\ program # "pcmcat" => written = <<>>
  /\ program = "pcmcat" =>
       \/ Kept = {} /\ catRtp = Unopened /\ written = <<>>
       \/ \E i \in Ids, n \in Nat : Kept = {i} /\ CatFollows(node[i].stream, n)

ReceiversInv == MonitorInv /\ ChainInv /\ ProgramInv /\ CatInv
-----------------------------------------------------------------------------
(* Facts about such lists *)

\* NULL is none of the places, and there are finitely many of these.
LEMMA Places == NULL \notin Ids /\ IsFiniteSet(Ids) /\ Cardinality(Ids) \in Nat
  BY SessionAssumption, FS_CardinalityType

\* A list is no longer than there are places.
LEMMA LinedLength ==
  ASSUME NEW used, NEW head, NEW next, NEW prev, NEW n \in Nat, NEW q \in [1..n -> Ids],
         Lined(used, head, next, prev, n, q)
  PROVE  n <= Cardinality(Ids)
  <1>1. q \in Injection(1..n, Ids)
    BY DEF Lined, Injection, IsInjective
  <1>2. Cardinality(1..n) <= Cardinality(Ids)
    BY <1>1, Places, FS_Injection
  <1>3. Cardinality(1..n) = n
    BY FS_Interval
  <1> QED
    BY <1>2, <1>3

\* f goes from the head, and from each place to the next.
Walks(f, c, head, next) ==
  \A m \in 0..c : f[m] = IF m = 0 THEN head
                         ELSE IF f[m - 1] = NULL THEN NULL ELSE next[f[m - 1]]

\* The places of a list, and then NULL.
Along(q, n, c) == [m \in 0..c |-> IF m < n THEN q[m + 1] ELSE NULL]

\* That is a walk.
LEMMA AlongWalks ==
  ASSUME NEW used, NEW head, NEW next, NEW prev, NEW n \in Nat, NEW q \in [1..n -> Ids],
         Lined(used, head, next, prev, n, q), NEW c \in Nat, n <= c
  PROVE  Walks(Along(q, n, c), c, head, next)
  <1> SUFFICES ASSUME NEW m \in 0..c
               PROVE  Along(q, n, c)[m] = IF m = 0 THEN head
                                          ELSE IF Along(q, n, c)[m - 1] = NULL THEN NULL
                                          ELSE next[Along(q, n, c)[m - 1]]
    BY DEF Walks
  <1>1. CASE m = 0
    BY <1>1 DEF Along, Lined
  <1>2. CASE m > 0 /\ m - 1 < n
    <2>1. m \in 1..n /\ m - 1 \in 0..c /\ q[m] \in Ids
      BY <1>2
    <2>2. Along(q, n, c)[m - 1] = q[m] /\ q[m] # NULL
      BY <2>1, Places DEF Along
    <2>3. Along(q, n, c)[m] = IF m < n THEN q[m + 1] ELSE NULL
      BY DEF Along
    <2>4. next[q[m]] = IF m < n THEN q[m + 1] ELSE NULL
      BY <2>1 DEF Lined
    <2> QED
      BY <1>2, <2>2, <2>3, <2>4
  <1>3. CASE m > 0 /\ ~(m - 1 < n)
    <2>1. m - 1 \in 0..c /\ ~(m < n)
      BY <1>3
    <2> QED
      BY <1>3, <2>1 DEF Along
  <1> QED
    BY <1>1, <1>2, <1>3

\* f meets what is in use, and ends.
Meets(f, c, used) ==
  /\ \A i \in used : \E m \in 0..c : f[m] = i
  /\ f[c] = NULL
  /\ \A m \in 0..c : f[m] \in used \cup {NULL}

\* So does that walk.
LEMMA AlongMeets ==
  ASSUME NEW used \in SUBSET Ids, NEW head, NEW next, NEW prev, NEW n \in Nat,
         NEW q \in [1..n -> Ids], Lined(used, head, next, prev, n, q), NEW c \in Nat, n <= c
  PROVE  Meets(Along(q, n, c), c, used)
  <1>1. Along(q, n, c)[c] = NULL
    BY DEF Along
  <1>2. ASSUME NEW m \in 0..c
        PROVE  Along(q, n, c)[m] \in used \cup {NULL}
    <2>1. m < n => m + 1 \in 1..n
      OBVIOUS
    <2>2. m < n => q[m + 1] \in used
      BY <2>1 DEF Lined
    <2> QED
      BY <2>2 DEF Along
  <1>3. ASSUME NEW i \in used
        PROVE  \E m \in 0..c : Along(q, n, c)[m] = i
    <2>1. PICK k \in 1..n : q[k] = i
      BY DEF Lined
    <2>2. k - 1 \in 0..c /\ k - 1 < n /\ (k - 1) + 1 = k
      BY <2>1
    <2>3. Along(q, n, c)[k - 1] = i
      BY <2>1, <2>2 DEF Along
    <2> QED
      BY <2>2, <2>3
  <1> QED
    BY <1>1, <1>2, <1>3 DEF Meets

\* f agrees with w at the start, and goes on to agree.
GoesOn(f, w, c) ==
  /\ f[0] = w[0]
  /\ \A m \in 1..c : f[m - 1] = w[m - 1] => f[m] = w[m]

\* Then it agrees all the way.
LEMMA Agree ==
  ASSUME NEW c \in Nat, NEW f, NEW w, GoesOn(f, w, c)
  PROVE  \A m \in 0..c : f[m] = w[m]
  <1> DEFINE wrong == {m \in 0..c : f[m] # w[m]}
  <1> SUFFICES ASSUME wrong # {} PROVE FALSE
    OBVIOUS
  <1>1. wrong \in SUBSET Nat
    OBVIOUS
  <1>2. PICK k \in wrong : \A j \in wrong : k <= j
    BY <1>1, LeastNatural
  <1>3. k \in 0..c /\ f[k] # w[k]
    BY <1>2
  <1>4. k \in 1..c
    BY <1>3 DEF GoesOn
  <1>5. k - 1 \in 0..c /\ k - 1 \notin wrong
    BY <1>2, <1>4
  <1>6. f[k - 1] = w[k - 1]
    BY <1>5
  <1> HIDE DEF wrong
  <1> QED
    BY <1>3, <1>4, <1>6 DEF GoesOn
\* A place in use is somewhere on the list.
LEMMA LinedAt ==
  ASSUME NEW used \in SUBSET Ids, NEW head, NEW next, NEW prev, NEW n \in Nat,
         NEW q \in [1..n -> Ids], Lined(used, head, next, prev, n, q), NEW i \in used
  PROVE  \E p \in 1..n : q[p] = i
  BY DEF Lined

\* The pointers once i has been put at the end.
PutLast(used, head, next, prev, n, q, i, head2, next2, prev2) ==
  /\ i \in Ids \ used /\ next2[i] = NULL
  /\ n = 0 => head2 = i /\ prev2[i] = NULL
  /\ n # 0 => head2 = head /\ prev2[i] = q[n]
  /\ \A j \in used : /\ prev2[j] = prev[j]
                     /\ next2[j] = IF j = q[n] THEN i ELSE next[j]

\* Such a list is one place longer.
LEMMA LinedEnd ==
  ASSUME NEW used \in SUBSET Ids, NEW head, NEW next, NEW prev, NEW n \in Nat,
         NEW q \in [1..n -> Ids], Lined(used, head, next, prev, n, q), BothWays(prev, n, q),
         NEW i, NEW head2, NEW next2, NEW prev2,
         PutLast(used, head, next, prev, n, q, i, head2, next2, prev2)
  PROVE  \E q2 \in [1..n + 1 -> Ids] :
           /\ Lined(used \cup {i}, head2, next2, prev2, n + 1, q2)
           /\ BothWays(prev2, n + 1, q2)
  <1> DEFINE q2 == [k \in 1..n + 1 |-> IF k <= n THEN q[k] ELSE i]
  <1>0. /\ i \in Ids \ used /\ next2[i] = NULL
        /\ n = 0 => head2 = i /\ prev2[i] = NULL
        /\ n # 0 => head2 = head /\ prev2[i] = q[n]
        /\ \A j \in used : /\ prev2[j] = prev[j]
                           /\ next2[j] = IF j = q[n] THEN i ELSE next[j]
    BY DEF PutLast
  <1>1. \A k \in 1..n : k \in 1..n + 1 /\ q[k] \in used /\ q[k] # i /\ q2[k] = q[k]
    BY <1>0 DEF Lined
  <1>2. q2[n + 1] = i /\ n + 1 \in 1..n + 1
    OBVIOUS
  <1>3. \A k \in 1..n + 1 : k \in 1..n \/ k = n + 1
    OBVIOUS
  <1>4. q2 \in [1..n + 1 -> Ids]
    BY <1>0
  <1> HIDE DEF q2
  <1>5. ASSUME NEW j \in 1..n + 1, NEW k \in 1..n + 1, q2[j] = q2[k]
        PROVE  j = k
    <2>1. CASE j = n + 1 \/ k = n + 1
      BY <1>0, <1>1, <1>2, <1>3, <1>5, <2>1
    <2>2. CASE j \in 1..n /\ k \in 1..n
      BY <1>0, <1>1, <1>5, <2>2 DEF Lined
    <2> QED
      BY <1>0, <1>3, <2>1, <2>2
  <1>6. \A j \in Ids : j \in used \cup {i} <=> \E k \in 1..n + 1 : q2[k] = j
    <2> SUFFICES ASSUME NEW j \in Ids
                 PROVE  j \in used \cup {i} <=> \E k \in 1..n + 1 : q2[k] = j
      OBVIOUS
    <2>1. j \in used => \E k \in 1..n + 1 : q2[k] = j
      <3>1. j \in used => \E k \in 1..n : q[k] = j
        BY DEF Lined
      <3> QED
        BY <1>1, <3>1
    <2>2. ASSUME NEW k \in 1..n + 1, q2[k] = j
          PROVE  j \in used \cup {i}
      BY <1>1, <1>2, <1>3, <2>2
    <2> QED
      BY <1>2, <2>1, <2>2
  <1>7. head2 = IF n + 1 = 0 THEN NULL ELSE q2[1]
    <2>1. CASE n = 0
      BY <1>0, <1>2, <2>1
    <2>2. CASE n # 0
      <3>1. 1 \in 1..n /\ q2[1] = q[1]
        BY <1>0, <1>1, <2>2
      <3> QED
        BY <1>0, <2>2, <3>1 DEF Lined
    <2> QED
      BY <1>0, <2>1, <2>2
  <1>8. ASSUME NEW k \in 1..n + 1
        PROVE  next2[q2[k]] = IF k < n + 1 THEN q2[k + 1] ELSE NULL
    <2>1. CASE k = n + 1
      BY <1>0, <1>2, <2>1
    <2>2. CASE k = n
      <3>1. k \in 1..n /\ k < n + 1
        BY <1>0, <2>2
      <3>2. next2[q[k]] = i
        BY <1>0, <1>1, <2>2, <3>1
      <3> QED
        BY <1>0, <1>1, <1>2, <2>2, <3>1, <3>2
    <2>3. CASE k < n
      <3>1. k \in 1..n /\ k + 1 \in 1..n /\ n \in 1..n /\ k # n
        BY <1>0, <2>3
      <3>2. q[k] # q[n]
        BY <1>0, <3>1 DEF Lined
      <3>3. next2[q[k]] = next[q[k]] /\ next[q[k]] = q[k + 1]
        BY <1>0, <1>1, <2>3, <3>1, <3>2 DEF Lined
      <3> QED
        BY <1>0, <1>1, <2>3, <3>1, <3>3
    <2> QED
      BY <1>0, <2>1, <2>2, <2>3
  <1>9. ASSUME NEW k \in 1..n + 1
        PROVE  (k = 1 /\ prev2[q2[k]] = NULL) \/ (k > 1 /\ prev2[q2[k]] = q2[k - 1])
    <2>1. CASE k = n + 1 /\ n = 0
      BY <1>0, <1>2, <2>1
    <2>2. CASE k = n + 1 /\ n # 0
      <3>1. n \in 1..n /\ k - 1 = n /\ k > 1
        BY <1>0, <2>2
      <3> QED
        BY <1>0, <1>1, <1>2, <2>2, <3>1
    <2>3. CASE k \in 1..n /\ k = 1
      <3>1. prev[q[1]] = NULL
        BY <1>0, <2>3 DEF Lined
      <3> QED
        BY <1>0, <1>1, <2>3, <3>1
    <2>4. CASE k \in 1..n /\ k > 1
      <3>1. k - 1 \in 1..n /\ k \in 2..n
        BY <1>0, <2>4
      <3>2. prev[q[k]] = q[k - 1]
        BY <1>0, <3>1 DEF BothWays
      <3> QED
        BY <1>0, <1>1, <2>4, <3>1, <3>2
    <2> QED
      BY <1>0, <1>3, <2>1, <2>2, <2>3, <2>4
  <1>10. BothWays(prev2, n + 1, q2)
    BY <1>0, <1>9 DEF BothWays
  <1>11. Lined(used \cup {i}, head2, next2, prev2, n + 1, q2)
    BY <1>0, <1>5, <1>6, <1>7, <1>8, <1>9 DEF Lined
  <1> QED
    BY <1>0, <1>4, <1>10, <1>11

\* The pointers once i has been put at the front; the old head may be told of it.
PutFirst(used, head, next, prev, i, next2, prev2) ==
  /\ i \in Ids \ used /\ next2[i] = head /\ prev2[i] = NULL
  /\ \A j \in used : /\ next2[j] = next[j]
                     /\ prev2[j] = prev[j] \/ (j = head /\ prev2[j] = i)

\* Such a list is one place longer.
LEMMA LinedFront ==
  ASSUME NEW used \in SUBSET Ids, NEW head, NEW next, NEW prev, NEW n \in Nat,
         NEW q \in [1..n -> Ids], Lined(used, head, next, prev, n, q),
         NEW i, NEW next2, NEW prev2, PutFirst(used, head, next, prev, i, next2, prev2)
  PROVE  \E q2 \in [1..n + 1 -> Ids] : Lined(used \cup {i}, i, next2, prev2, n + 1, q2)
  <1> DEFINE q2 == [k \in 1..n + 1 |-> IF k = 1 THEN i ELSE q[k - 1]]
  <1>0. /\ i \in Ids \ used /\ next2[i] = head /\ prev2[i] = NULL
        /\ \A j \in used : /\ next2[j] = next[j]
                           /\ prev2[j] = prev[j] \/ (j = head /\ prev2[j] = i)
    BY DEF PutFirst
  <1>1. q2 \in [1..n + 1 -> Ids]
    BY <1>0
  <1>2. \A k \in 1..n : k + 1 \in 1..n + 1 /\ q[k] \in used /\ q[k] # i /\ q2[k + 1] = q[k]
    BY <1>0 DEF Lined
  <1>3. q2[1] = i /\ 1 \in 1..n + 1
    OBVIOUS
  <1>4. \A k \in 1..n + 1 : k = 1 \/ (k - 1 \in 1..n /\ k = (k - 1) + 1 /\ q2[k] = q[k - 1])
    BY <1>0, <1>2
  <1> HIDE DEF q2
  <1>5. \A j, k \in 1..n + 1 : q2[j] = q2[k] => j = k
    <2> SUFFICES ASSUME NEW j \in 1..n + 1, NEW k \in 1..n + 1, q2[j] = q2[k]
                 PROVE  j = k
      OBVIOUS
    <2>1. CASE j = 1 \/ k = 1
      BY <1>0, <1>2, <1>3, <1>4, <2>1
    <2>2. CASE j # 1 /\ k # 1
      <3>1. j - 1 \in 1..n /\ k - 1 \in 1..n /\ q[j - 1] = q[k - 1]
        BY <1>0, <1>4, <2>2
      <3>2. j - 1 = k - 1
        BY <1>0, <3>1 DEF Lined
      <3> QED
        BY <1>0, <3>2
    <2> QED
      BY <1>0, <2>1, <2>2
  <1>6. \A j \in Ids : j \in used \cup {i} <=> \E k \in 1..n + 1 : q2[k] = j
    <2> SUFFICES ASSUME NEW j \in Ids
                 PROVE  j \in used \cup {i} <=> \E k \in 1..n + 1 : q2[k] = j
      OBVIOUS
    <2>1. j \in used => \E k \in 1..n + 1 : q2[k] = j
      <3>1. j \in used => \E k \in 1..n : q[k] = j
        BY DEF Lined
      <3> QED
        BY <1>2, <3>1
    <2>2. ASSUME NEW k \in 1..n + 1, q2[k] = j
          PROVE  j \in used \cup {i}
      BY <1>2, <1>3, <1>4, <2>2
    <2> QED
      BY <1>3, <2>1, <2>2
  <1>7. ASSUME NEW k \in 1..n + 1
        PROVE  next2[q2[k]] = IF k < n + 1 THEN q2[k + 1] ELSE NULL
    <2>1. CASE k = 1 /\ n = 0
      BY <1>0, <1>3, <2>1 DEF Lined
    <2>2. CASE k = 1 /\ n # 0
      <3>1. 1 \in 1..n /\ q2[1 + 1] = q[1]
        BY <1>0, <1>2, <2>2
      <3> QED
        BY <1>0, <1>3, <2>2, <3>1 DEF Lined
    <2>3. CASE k # 1
      <3> DEFINE j == k - 1
      <3>1. j \in 1..n /\ k = j + 1 /\ q2[k] = q[j]
        BY <1>0, <1>4, <2>3
      <3> HIDE DEF j
      <3>2. next2[q[j]] = next[q[j]] /\ next[q[j]] = IF j < n THEN q[j + 1] ELSE NULL
        BY <1>0, <1>2, <3>1 DEF Lined
      <3>3. j < n => j + 1 \in 1..n /\ q2[(j + 1) + 1] = q[j + 1]
        BY <1>0, <1>2, <3>1
      <3>4. j < n <=> k < n + 1
        BY <1>0, <3>1
      <3> QED
        BY <1>0, <3>1, <3>2, <3>3, <3>4
    <2> QED
      BY <1>0, <2>1, <2>2, <2>3
  <1>8. ASSUME NEW k \in 1..n + 1
        PROVE  prev2[q2[k]] = NULL \/ (k > 1 /\ prev2[q2[k]] = q2[k - 1])
    <2>1. CASE k = 1
      BY <1>0, <1>3, <2>1
    <2>2. CASE k # 1
      <3> DEFINE j == k - 1
      <3>1. j \in 1..n /\ k = j + 1 /\ q2[k] = q[j] /\ k > 1 /\ j = k - 1
        BY <1>0, <1>4, <2>2
      <3> HIDE DEF j
      <3>2. CASE q[j] = head /\ prev2[q[j]] = i
        <4>1. n # 0 /\ head = q[1] /\ 1 \in 1..n
          BY <1>0, <3>1 DEF Lined
        <4>2. j = 1
          BY <1>0, <3>1, <3>2, <4>1 DEF Lined
        <4> QED
          BY <1>0, <1>3, <3>1, <3>2, <4>2
      <3>3. CASE prev2[q[j]] = prev[q[j]]
        <4>1. prev[q[j]] = NULL \/ (j > 1 /\ prev[q[j]] = q[j - 1])
          BY <1>0, <3>1 DEF Lined
        <4>2. j > 1 => j - 1 \in 1..n /\ q2[(j - 1) + 1] = q[j - 1] /\ (j - 1) + 1 = k - 1
          BY <1>0, <1>2, <3>1
        <4> QED
          BY <1>0, <3>1, <3>3, <4>1, <4>2
      <3> QED
        BY <1>0, <1>2, <3>1, <3>2, <3>3
    <2> QED
      BY <1>0, <2>1, <2>2
  <1>9. i = IF n + 1 = 0 THEN NULL ELSE q2[1]
    BY <1>0, <1>3
  <1>10. Lined(used \cup {i}, i, next2, prev2, n + 1, q2)
    BY <1>0, <1>5, <1>6, <1>7, <1>8, <1>9 DEF Lined
  <1> QED
    BY <1>0, <1>1, <1>10
\* The pointers once the place at p has been taken out, as close_session does, or
\* as lookup_session before it moves the place to the front.  It knows the place
\* before it, unless it is the head.
TakenOut(used, next, prev, n, q, p, next2, prev2) ==
  /\ p \in 1..n /\ (p = 1 \/ prev[q[p]] = q[p - 1])
  /\ \A j \in used \ {q[p]} :
       /\ next2[j] = IF j = prev[q[p]] THEN next[q[p]] ELSE next[j]
       /\ prev2[j] = IF j = next[q[p]] THEN prev[q[p]] ELSE prev[j]

\* Such a list is one place shorter.
LEMMA LinedWithout ==
  ASSUME NEW used \in SUBSET Ids, NEW head, NEW next, NEW prev, NEW n \in Nat,
         NEW q \in [1..n -> Ids], Lined(used, head, next, prev, n, q),
         NEW p, NEW next2, NEW prev2, TakenOut(used, next, prev, n, q, p, next2, prev2),
         NEW first, first = IF prev[q[p]] = NULL THEN next[q[p]] ELSE head
  PROVE  \E q2 \in [1..n - 1 -> Ids] :
           /\ Lined(used \ {q[p]}, first, next2, prev2, n - 1, q2)
           /\ BothWays(prev, n, q) => BothWays(prev2, n - 1, q2)
  <1> DEFINE q2 == [k \in 1..n - 1 |-> IF k < p THEN q[k] ELSE q[k + 1]]
             x == q[p]
             At(k) == IF k < p THEN k ELSE k + 1
  <1>0. /\ p \in 1..n /\ (p = 1 \/ prev[q[p]] = q[p - 1])
        /\ \A j \in used \ {q[p]} :
             /\ next2[j] = IF j = prev[q[p]] THEN next[q[p]] ELSE next[j]
             /\ prev2[j] = IF j = next[q[p]] THEN prev[q[p]] ELSE prev[j]
    BY DEF TakenOut
  <1>1. n - 1 \in Nat /\ p \in Nat /\ x \in Ids /\ x # NULL
    BY <1>0, Places
  <1>2. \A k \in 1..n - 1 : At(k) \in 1..n /\ At(k) # p /\ q2[k] = q[At(k)]
    OBVIOUS
  <1>3. q2 \in [1..n - 1 -> Ids]
    OBVIOUS
  <1>4. \A j \in 1..n : j # p => \E k \in 1..n - 1 : At(k) = j
    <2> SUFFICES ASSUME NEW j \in 1..n, j # p PROVE \E k \in 1..n - 1 : At(k) = j
      OBVIOUS
    <2>1. CASE j < p
      BY <1>0, <2>1
    <2>2. CASE j > p
      <3>1. j - 1 \in 1..n - 1 /\ At(j - 1) = j
        BY <1>0, <2>2
      <3> QED
        BY <1>0, <3>1
    <2> QED
      BY <1>0, <2>1, <2>2
  <1>5. \A j, k \in 1..n - 1 : At(j) = At(k) => j = k
    BY <1>0
  <1>6. \A k \in 1..n : q[k] \in used /\ (k # p => q[k] # x)
    BY <1>0 DEF Lined
  <1>7. prev[x] = NULL => p = 1
    <2> SUFFICES ASSUME p # 1, prev[x] = NULL PROVE FALSE
      OBVIOUS
    <2>1. p - 1 \in 1..n /\ q[p - 1] \in Ids
      BY <1>0
    <2> QED
      BY <1>0, <2>1, Places
  <1>8. p = 1 => prev[x] = NULL
    BY <1>0 DEF Lined
  <1>9. next[x] = IF p < n THEN q[p + 1] ELSE NULL
    BY <1>0 DEF Lined
  <1> HIDE DEF q2, x
  <1>10. \A j, k \in 1..n - 1 : q2[j] = q2[k] => j = k
    <2> SUFFICES ASSUME NEW j \in 1..n - 1, NEW k \in 1..n - 1, q2[j] = q2[k]
                 PROVE  j = k
      OBVIOUS
    <2>1. At(j) \in 1..n /\ At(k) \in 1..n /\ q[At(j)] = q[At(k)]
      BY <1>0, <1>2
    <2>2. At(j) = At(k)
      BY <1>0, <2>1 DEF Lined
    <2> QED
      BY <1>0, <1>5, <2>2
  <1>11. \A i \in Ids : i \in used \ {x} <=> \E k \in 1..n - 1 : q2[k] = i
    <2> SUFFICES ASSUME NEW i \in Ids PROVE i \in used \ {x} <=> \E k \in 1..n - 1 : q2[k] = i
      OBVIOUS
    <2>1. ASSUME NEW k \in 1..n - 1, q2[k] = i PROVE i \in used \ {x}
      <3>1. At(k) \in 1..n /\ At(k) # p /\ i = q[At(k)]
        BY <1>0, <1>2, <2>1
      <3> HIDE DEF At
      <3> QED
        BY <1>0, <1>6, <3>1
    <2>2. ASSUME i \in used \ {x} PROVE \E k \in 1..n - 1 : q2[k] = i
      <3>1. PICK j \in 1..n : q[j] = i
        BY <1>0, <2>2 DEF Lined
      <3>2. j # p
        BY <1>0, <2>2, <3>1 DEF x
      <3>3. PICK k \in 1..n - 1 : At(k) = j
        BY <1>0, <1>4, <3>2
      <3> HIDE DEF At
      <3> QED
        BY <1>0, <1>2, <3>1, <3>3
    <2> QED
      BY <1>0, <2>1, <2>2
  <1>12. first = IF n - 1 = 0 THEN NULL ELSE q2[1]
    <2>1. first = IF prev[x] = NULL THEN next[x] ELSE head
      BY DEF x
    <2>2. CASE p = 1
      <3>1. n - 1 # 0 => 1 \in 1..n - 1 /\ q2[1] = q[1 + 1] /\ p < n
        BY <1>0, <2>2 DEF q2
      <3>2. n - 1 = 0 => ~(p < n)
        BY <2>2
      <3> QED
        BY <1>8, <1>9, <2>1, <2>2, <3>1, <3>2
    <2>3. CASE p # 1
      <3>1. n - 1 # 0 /\ 1 \in 1..n - 1 /\ q2[1] = q[1]
        BY <1>0, <2>3 DEF q2
      <3>2. head = q[1]
        BY <3>1 DEF Lined
      <3> QED
        BY <1>7, <2>1, <2>3, <3>1, <3>2
    <2> QED
      BY <2>2, <2>3
  <1>13. ASSUME NEW k \in 1..n - 1
         PROVE  next2[q2[k]] = IF k < n - 1 THEN q2[k + 1] ELSE NULL
    <2> DEFINE j == At(k)
    <2>1. j \in 1..n /\ j # p /\ q2[k] = q[j] /\ q[j] \in used \ {x}
      <3>1. j \in 1..n /\ j # p /\ q2[k] = q[j]
        BY <1>0, <1>2
      <3> HIDE DEF j
      <3> QED
        BY <1>0, <1>6, <3>1
    <2>2. next2[q[j]] = IF q[j] = prev[x] THEN next[x] ELSE next[q[j]]
      BY <1>0, <2>1 DEF x
    <2>3. next[q[j]] = IF j < n THEN q[j + 1] ELSE NULL
      <3> HIDE DEF j
      <3> QED
        BY <1>0, <2>1 DEF Lined
    <2>4. CASE k + 1 = p
      <3>1. j = p - 1 /\ p # 1 /\ prev[x] = q[p - 1]
        BY <1>0, <2>4 DEF x
      <3>2. k < n - 1 <=> p < n
        BY <1>0, <2>4
      <3>3. k < n - 1 => k + 1 \in 1..n - 1 /\ q2[k + 1] = q[p + 1]
        BY <1>0, <2>4 DEF q2
      <3> QED
        BY <1>0, <1>9, <2>1, <2>2, <3>1, <3>2, <3>3
    <2>5. CASE k + 1 # p
      <3>1. q[j] # prev[x]
        <4>1. CASE p = 1
          BY <1>0, <1>1, <1>6, <1>8, <2>1, <4>1, Places
        <4>2. CASE p # 1
          <5>1. prev[x] = q[p - 1] /\ p - 1 \in 1..n
            BY <1>0, <4>2 DEF x
          <5>2. j # p - 1
            BY <1>0, <2>5
          <5> HIDE DEF j
          <5> QED
            BY <1>0, <2>1, <5>1, <5>2 DEF Lined
        <4> QED
          BY <1>0, <4>1, <4>2
      <3>2. j < n <=> k < n - 1
        BY <1>0, <2>1, <2>5
      <3>3. k < n - 1 => k + 1 \in 1..n - 1 /\ q2[k + 1] = q[j + 1]
        BY <1>0, <2>5 DEF q2
      <3> HIDE DEF j
      <3> QED
        BY <1>0, <2>1, <2>2, <2>3, <3>1, <3>2, <3>3
    <2> QED
      BY <1>0, <2>4, <2>5
  <1>14. ASSUME NEW k \in 1..n - 1
         PROVE  /\ prev2[q2[k]] = NULL \/ (k > 1 /\ prev2[q2[k]] = q2[k - 1])
                /\ BothWays(prev, n, q) /\ k > 1 => prev2[q2[k]] = q2[k - 1]
    <2> DEFINE j == At(k)
    <2>1. j \in 1..n /\ j # p /\ q2[k] = q[j] /\ q[j] \in used \ {x}
      <3>1. j \in 1..n /\ j # p /\ q2[k] = q[j]
        BY <1>0, <1>2
      <3> HIDE DEF j
      <3> QED
        BY <1>0, <1>6, <3>1
    <2>2. prev2[q[j]] = IF q[j] = next[x] THEN prev[x] ELSE prev[q[j]]
      BY <1>0, <2>1 DEF x
    <2>3. /\ prev[q[j]] = NULL \/ (j > 1 /\ prev[q[j]] = q[j - 1])
          /\ BothWays(prev, n, q) /\ j > 1 => prev[q[j]] = q[j - 1]
      <3>1. j > 1 => j \in 2..n
        BY <1>0, <2>1
      <3> HIDE DEF j
      <3> QED
        BY <1>0, <2>1, <3>1 DEF Lined, BothWays
    <2>4. CASE k = p
      <3>1. j = p + 1 /\ p < n
        BY <1>0, <2>4
      <3>2. q[j] = next[x]
        BY <1>0, <1>9, <3>1
      <3>3. CASE p = 1
        BY <1>0, <1>8, <2>1, <2>2, <2>4, <3>2, <3>3
      <3>4. CASE p # 1
        <4>1. k > 1 /\ k - 1 \in 1..n - 1 /\ q2[k - 1] = q[p - 1] /\ prev[x] = q[p - 1]
          BY <1>0, <2>4, <3>4 DEF q2, x
        <4> QED
          BY <1>0, <2>1, <2>2, <3>2, <4>1
      <3> QED
        BY <1>0, <3>3, <3>4
    <2>5. CASE k # p
      <3>1. q[j] # next[x]
        <4>1. CASE p = n
          BY <1>0, <1>9, <2>1, <4>1, Places
        <4>2. CASE p # n
          <5>1. next[x] = q[p + 1] /\ p + 1 \in 1..n
            BY <1>0, <1>9, <4>2
          <5>2. j # p + 1
            BY <1>0, <2>1, <2>5
          <5> HIDE DEF j
          <5> QED
            BY <1>0, <2>1, <5>1, <5>2 DEF Lined
        <4> QED
          BY <1>0, <4>1, <4>2
      <3>2. k > 1 => j > 1 /\ k - 1 \in 1..n - 1 /\ q2[k - 1] = q[j - 1]
        BY <1>0, <2>5 DEF q2
      <3>3. j > 1 => k > 1 \/ (k = 1 /\ p = 1)
        BY <1>0, <2>5
      <3>4. ~(k = 1 /\ p = 1)
        BY <1>0, <2>5
      <3> HIDE DEF j
      <3> QED
        BY <1>0, <2>1, <2>2, <2>3, <3>1, <3>2, <3>3, <3>4
    <2> QED
      BY <1>0, <2>4, <2>5
  <1>15. Lined(used \ {x}, first, next2, prev2, n - 1, q2)
    BY <1>10, <1>11, <1>12, <1>13, <1>14 DEF Lined
  <1>16. BothWays(prev, n, q) => BothWays(prev2, n - 1, q2)
    <2> SUFFICES ASSUME BothWays(prev, n, q), NEW k \in 2..n - 1
                 PROVE  prev2[q2[k]] = q2[k - 1]
      BY DEF BothWays
    <2>1. k \in 1..n - 1 /\ k > 1
      OBVIOUS
    <2> QED
      BY <1>0, <1>14, <2>1
  <1> QED
    BY <1>0, <1>3, <1>15, <1>16 DEF x
-----------------------------------------------------------------------------
(* The sessions of monitor stay on their list *)

\* A session's fields.
LEMMA SessionFields ==
  ASSUME SessionTypes, NEW i \in Live
  PROVE  /\ i \in Ids /\ i # NULL /\ sess[i] \in Sessions /\ sess[i] # NULL
         /\ sess[i].stream \in Streams /\ sess[i].prev \in Pointer /\ sess[i].next \in Pointer
         /\ sess[i].terminate \in BOOLEAN /\ sess[i].decoder \in Decoder
         /\ sess[i].queue \in Seq(Streams)
  <1>1. i \in Ids /\ i # NULL /\ sess[i] \in Sessions /\ sess[i] # NULL
    BY Places DEF Live, SessionTypes
  <1> QED
    BY <1>1 DEF Sessions

\* A thread's fields.
LEMMA ThreadFields ==
  ASSUME SessionTypes, NEW r \in Receivers
  PROVE  /\ receiver[r] \in [at: {"recv", "create", "start", "insert", "stuck"},
                             packet: Streams \cup {NULL}, sp: Pointer]
         /\ receiver[r].at \in {"recv", "create", "start", "insert", "stuck"}
         /\ receiver[r].packet \in Streams \cup {NULL} /\ receiver[r].sp \in Pointer
         /\ Holds(r) => receiver[r].sp \in Ids
  BY DEF SessionTypes, Holds

\* The list is as it was if no pointer of it changes.
LEMMA LinksKept ==
  ASSUME SessionsLined, Session' = Session, Live' = Live,
         \A i \in Live : sess'[i].next = sess[i].next /\ sess'[i].prev = sess[i].prev
  PROVE  SessionsLined'
  <1>1. Nexts' = Nexts /\ Prevs' = Prevs
    BY DEF Nexts, Prevs
  <1>2. PICK n \in Nat : \E q \in [1..n -> Ids] :
          Lined(Live, Session, Nexts, Prevs, n, q) /\ BothWays(Prevs, n, q)
    BY DEF SessionsLined
  <1>3. PICK q \in [1..n -> Ids] :
          Lined(Live, Session, Nexts, Prevs, n, q) /\ BothWays(Prevs, n, q)
    BY <1>2
  <1>4. Lined(Live', Session', Nexts', Prevs', n, q) /\ BothWays(Prevs', n, q)
    BY <1>1, <1>3
  <1>5. (Lined(Live, Session, Nexts, Prevs, n, q) /\ BothWays(Prevs, n, q))'
    BY <1>4 DEF Lined, BothWays
  <1> QED
    BY <1>5 DEF SessionsLined

\* A step that changes one session and none of its pointers.
LEMMA OneUpdated ==
  ASSUME SessionTypes, SessionsLined, Session' = Session, NEW i \in Live, NEW s \in Sessions,
         s.next = sess[i].next, s.prev = sess[i].prev, sess' = [sess EXCEPT ![i] = s]
  PROVE  /\ SessionsLined' /\ Live' = Live
         /\ sess' \in [Ids -> {NULL} \cup Sessions]
         /\ sess'[i] = s /\ \A j \in Ids : j # i => sess'[j] = sess[j]
  <1>1. i \in Ids /\ sess \in [Ids -> {NULL} \cup Sessions] /\ NULL \notin Sessions
    BY SessionAssumption DEF Live, SessionTypes
  <1>2. sess' \in [Ids -> {NULL} \cup Sessions]
        /\ sess'[i] = s /\ \A j \in Ids : j # i => sess'[j] = sess[j]
    BY <1>1
  <1>3. Live' = Live
    BY <1>1, <1>2 DEF Live
  <1>4. \A j \in Live : sess'[j].next = sess[j].next /\ sess'[j].prev = sess[j].prev
    BY <1>2 DEF Live
  <1> QED
    BY <1>2, <1>3, <1>4, LinksKept

\* A packet arrives.
LEMMA ReceiveKeeps ==
  ASSUME MonitorInv, NEW r \in Receivers, NEW s \in Heard[r], Receive(r, s)
  PROVE  MonitorInv'
  <1>1. s \in Streams /\ MaxPackets \in Nat
    BY SessionAssumption
  <1>2. Live' = Live /\ UNCHANGED <<memory, screen, deletes>>
    BY DEF Receive, memory, Live
  <1>3. SessionsLined' /\ CursorOn' /\ SessionTypes
    BY <1>2, LinksKept DEF memory, screen, CursorOn, MonitorInv
  <1>4. /\ receiver[r].at = "recv" /\ packets < MaxPackets /\ packets' = packets + 1
        /\ \A t \in Receivers : t # r => receiver'[t] = receiver[t]
    BY <1>3 DEF Receive, SessionTypes
  <1>5. CASE Found(s) = {}
    <2>1. /\ receiver' = [receiver EXCEPT ![r] = [at |-> "create", packet |-> s, sp |-> NULL]]
          /\ clashed' = clashed
      BY <1>5 DEF Receive
    <2>2. receiver'[r] = [at |-> "create", packet |-> s, sp |-> NULL]
      BY <1>3, <2>1 DEF SessionTypes
    <2>3. SessionTypes'
      BY <1>1, <1>2, <1>3, <1>4, <2>1, <2>2
      DEF SessionTypes, memory, screen, Pointer
    <2>4. Starting'
      BY <1>2, <1>4, <2>2 DEF MonitorInv, Starting, memory
    <2>5. HeldSound'
      BY <1>1, <1>2, <1>4, <2>1, <2>2 DEF MonitorInv, HeldSound, Holds, memory
    <2>6. OwnPackets'
      BY <1>2, <2>1 DEF MonitorInv, OwnPackets, memory
    <2> QED
      BY <1>3, <2>3, <2>4, <2>5, <2>6 DEF MonitorInv
  <1>6. ASSUME NEW i \in Found(s),
               receiver' = [receiver EXCEPT ![r] = [at |-> "insert", packet |-> s, sp |-> i]],
               clashed' = (clashed \/ sess[i].terminate)
        PROVE  MonitorInv'
    <2>1. i \in Live /\ i \in Ids /\ sess[i].stream = s /\ sess[i].terminate \in BOOLEAN
      <3>1. i \in Live /\ sess[i].stream.ssrc = s.ssrc /\ sess[i].stream.sender = s.sender
        BY DEF Found, SameStream
      <3>2. sess[i].stream \in Streams /\ sess[i].terminate \in BOOLEAN /\ i \in Ids
        BY <1>3, <3>1, SessionFields
      <3>3. sess[i].stream \in [sender: STRING, ssrc: Nat] /\ s \in [sender: STRING, ssrc: Nat]
        BY <1>1, <3>2, SessionAssumption
      <3> QED
        BY <3>1, <3>2, <3>3
    <2>2. receiver'[r] = [at |-> "insert", packet |-> s, sp |-> i]
      BY <1>3, <1>6 DEF SessionTypes
    <2>3. SessionTypes'
      BY <1>1, <1>2, <1>3, <1>4, <1>6, <2>1, <2>2
      DEF SessionTypes, memory, screen, Pointer
    <2>4. Starting'
      BY <1>2, <1>4, <2>2 DEF MonitorInv, Starting, memory
    <2>5. HeldSound'
      <3>1. \A t \in Receivers : receiver'[t].at # "recv" => receiver'[t].packet \in Streams
        BY <1>1, <1>4, <2>2 DEF MonitorInv, HeldSound
      <3>2. ASSUME ~clashed', NEW t \in Receivers, Holds(t)'
            PROVE  /\ receiver'[t].sp \in Live /\ ~sess[receiver'[t].sp].terminate
                   /\ sess[receiver'[t].sp].stream = receiver'[t].packet
        <4>1. CASE t = r
          BY <1>6, <2>1, <2>2, <3>2, <4>1
        <4>2. CASE t # r
          BY <1>4, <1>6, <3>2, <4>2 DEF MonitorInv, HeldSound, Holds
        <4> QED
          BY <4>1, <4>2
      <3> QED
        BY <1>2, <3>1, <3>2 DEF HeldSound, memory
    <2>6. OwnPackets'
      BY <1>2, <1>3, <1>6, <2>1 DEF MonitorInv, OwnPackets, memory, SessionTypes
    <2> QED
      BY <1>3, <2>3, <2>4, <2>5, <2>6 DEF MonitorInv
  <1> QED
    BY <1>5, <1>6 DEF Receive

\* The decoder of a new session is started.
LEMMA StartKeeps ==
  ASSUME MonitorInv, NEW r \in Receivers, Start(r)
  PROVE  MonitorInv'
  <1> DEFINE i == receiver[r].sp
             s == [sess[i] EXCEPT !.decoder = "work"]
  <1>1. /\ SessionTypes /\ SessionsLined /\ CursorOn /\ Starting /\ HeldSound /\ OwnPackets
        /\ Session' = Session /\ UNCHANGED <<screen, bounds, clashed>> /\ receiver[r].at = "start"
    BY DEF MonitorInv, Start
  <1>2. i \in Live /\ sess[i] \in Sessions /\ sess[i].terminate \in BOOLEAN
    BY <1>1, SessionFields DEF Starting
  <1>3. /\ s \in Sessions /\ s.next = sess[i].next /\ s.prev = sess[i].prev
        /\ s.terminate = sess[i].terminate /\ s.queue = sess[i].queue
        /\ s.stream = sess[i].stream /\ s.decoder = "work"
    BY <1>2 DEF Sessions, Decoder
  <1>4. sess' = [sess EXCEPT ![i] = s]
    BY DEF Start
  <1>5. /\ receiver' = [receiver EXCEPT ![r].at = "insert"]
        /\ \A t \in Receivers : t # r => receiver'[t] = receiver[t]
        /\ receiver'[r] = [receiver[r] EXCEPT !.at = "insert"]
        /\ receiver'[r].at = "insert" /\ receiver'[r].sp = i
        /\ receiver'[r].packet = receiver[r].packet
    BY <1>1 DEF Start, SessionTypes
  <1> HIDE DEF s, i
  <1>6. /\ SessionsLined' /\ Live' = Live /\ sess' \in [Ids -> {NULL} \cup Sessions]
        /\ sess'[i] = s /\ \A j \in Ids : j # i => sess'[j] = sess[j]
    BY <1>1, <1>2, <1>3, <1>4, OneUpdated
  <1>7. SessionTypes'
    BY <1>1, <1>2, <1>5, <1>6 DEF SessionTypes, screen, bounds, Pointer, Live
  <1>8. CursorOn'
    BY <1>1, <1>3, <1>6 DEF CursorOn, screen, Live
  <1>9. Starting'
    <2>1. ASSUME NEW t \in Receivers, receiver'[t].at = "start"
          PROVE  t # r /\ receiver'[t] = receiver[t] /\ receiver[t].sp # i
                 /\ receiver[t].sp \in Live
      BY <1>1, <1>5, <2>1 DEF Starting, i
    <2> QED
      BY <1>1, <1>6, <2>1 DEF Starting, Live
  <1>10. HeldSound'
    <2>1. \A t \in Receivers : Holds(t)' => Holds(t) /\ receiver'[t].sp = receiver[t].sp
                                            /\ receiver'[t].packet = receiver[t].packet
      BY <1>1, <1>5 DEF Holds, i
    <2>2. \A t \in Receivers : receiver'[t].at # "recv" =>
            receiver[t].at # "recv" /\ receiver'[t].packet = receiver[t].packet
      BY <1>1, <1>5
    <2>3. \A j \in Live : sess'[j].terminate = sess[j].terminate
                          /\ sess'[j].stream = sess[j].stream
      BY <1>3, <1>6 DEF Live
    <2> QED
      BY <1>1, <1>6, <2>1, <2>2, <2>3 DEF HeldSound
  <1>11. OwnPackets'
    BY <1>1, <1>3, <1>6 DEF OwnPackets, Live
  <1> QED
    BY <1>6, <1>7, <1>8, <1>9, <1>10, <1>11 DEF MonitorInv

\* The packet goes on the queue.
LEMMA InsertKeeps ==
  ASSUME MonitorInv, NEW r \in Receivers, Insert(r)
  PROVE  MonitorInv'
  <1> DEFINE i == receiver[r].sp
  <1>1. /\ SessionTypes /\ SessionsLined /\ CursorOn /\ Starting /\ HeldSound /\ OwnPackets
        /\ Session' = Session /\ UNCHANGED <<screen, bounds, clashed>> /\ receiver[r].at = "insert"
    BY DEF MonitorInv, Insert
  <1>2. i \in Ids /\ receiver[r].packet \in Streams /\ Holds(r)
    BY <1>1, ThreadFields DEF Holds, HeldSound
  <1>3. CASE sess' = sess
    <2>1. \/ NextPacket(r)
          \/ receiver' = [receiver EXCEPT ![r].at = "stuck"]
      BY DEF Insert
    <2>2. /\ receiver' \in [Receivers ->
               [at: {"recv", "create", "start", "insert", "stuck"},
                packet: Streams \cup {NULL}, sp: Pointer]]
          /\ \A t \in Receivers : t # r => receiver'[t] = receiver[t]
          /\ \/ receiver'[r] = [at |-> "recv", packet |-> NULL, sp |-> NULL]
             \/ receiver'[r] = [receiver[r] EXCEPT !.at = "stuck"]
      BY <1>1, <2>1 DEF SessionTypes, NextPacket, Pointer
    <2>3. \/ receiver'[r].at = "recv"
          \/ /\ receiver'[r].at = "stuck" /\ receiver'[r].sp = i
             /\ receiver'[r].packet = receiver[r].packet
      BY <1>1, <2>2 DEF SessionTypes
    <2>4. Live' = Live /\ UNCHANGED <<memory, screen, bounds, clashed>>
      BY <1>1, <1>3 DEF memory, Live
    <2>5. SessionsLined' /\ CursorOn' /\ OwnPackets'
      BY <1>1, <2>4, LinksKept DEF memory, screen, CursorOn, OwnPackets
    <2>6. SessionTypes'
      BY <1>1, <1>2, <2>2, <2>3, <2>4 DEF SessionTypes, memory, screen, bounds
    <2>7. Starting'
      BY <1>1, <2>2, <2>3, <2>4 DEF Starting, memory
    <2>8. HeldSound'
      <3>1. \A t \in Receivers : receiver'[t].at # "recv" =>
              receiver[t].at # "recv" /\ receiver'[t].packet = receiver[t].packet
        BY <1>1, <2>2, <2>3
      <3>2. \A t \in Receivers : Holds(t)' => Holds(t) /\ receiver'[t].sp = receiver[t].sp
                                              /\ receiver'[t].packet = receiver[t].packet
        BY <1>2, <2>2, <2>3 DEF Holds
      <3> QED
        BY <1>1, <2>4, <3>1, <3>2 DEF HeldSound, memory
    <2> QED
      BY <2>5, <2>6, <2>7, <2>8 DEF MonitorInv
  <1>4. CASE /\ sess[i] # NULL /\ NextPacket(r)
             /\ sess' = [sess EXCEPT ![i] = Signalled(Queued(sess[i], receiver[r].packet))]
    <2> DEFINE queued == Queued(sess[i], receiver[r].packet)
               s == Signalled(queued)
    <2>1. i \in Live /\ sess[i] \in Sessions /\ sess[i].queue \in Seq(Streams)
      BY <1>1, <1>2, <1>4, SessionFields DEF Live
    <2>2. Append(sess[i].queue, receiver[r].packet) \in Seq(Streams)
      BY <1>2, <2>1
    <2>3. /\ queued \in Sessions /\ queued.next = sess[i].next /\ queued.prev = sess[i].prev
          /\ queued.terminate = sess[i].terminate /\ queued.stream = sess[i].stream
          /\ queued.decoder = sess[i].decoder
          /\ queued.queue = Append(sess[i].queue, receiver[r].packet)
      BY <2>1, <2>2 DEF Sessions, Queued
    <2> HIDE DEF queued
    <2>4. /\ s \in Sessions /\ s.next = sess[i].next /\ s.prev = sess[i].prev
          /\ s.terminate = sess[i].terminate /\ s.stream = sess[i].stream
          /\ s.queue = Append(sess[i].queue, receiver[r].packet)
          /\ sess[i].decoder = "none" => s.decoder = "none"
      BY <2>3 DEF Signalled, Sessions, Decoder
    <2>5. sess' = [sess EXCEPT ![i] = s]
      BY <1>4 DEF queued
    <2>6. /\ receiver' = [receiver EXCEPT ![r] = [at |-> "recv", packet |-> NULL, sp |-> NULL]]
          /\ receiver'[r].at = "recv" /\ \A t \in Receivers : t # r => receiver'[t] = receiver[t]
      BY <1>1, <1>4 DEF NextPacket, SessionTypes
    <2> HIDE DEF s, i
    <2>7. /\ SessionsLined' /\ Live' = Live /\ sess' \in [Ids -> {NULL} \cup Sessions]
          /\ sess'[i] = s /\ \A j \in Ids : j # i => sess'[j] = sess[j]
      BY <1>1, <2>1, <2>4, <2>5, OneUpdated
    <2>8. SessionTypes'
      BY <1>1, <2>6, <2>7 DEF SessionTypes, screen, bounds, Pointer
    <2>9. CursorOn'
      BY <1>1, <2>4, <2>7 DEF CursorOn, screen, Live
    <2>10. Starting'
      <3>1. \A j \in Live : sess[j].decoder = "none" => sess'[j].decoder = "none"
        BY <2>4, <2>7 DEF Live
      <3> QED
        BY <1>1, <2>6, <2>7, <3>1 DEF Starting
    <2>11. HeldSound'
      <3>1. \A j \in Live : sess'[j].terminate = sess[j].terminate
                            /\ sess'[j].stream = sess[j].stream
        BY <2>4, <2>7 DEF Live
      <3>2. \A t \in Receivers : receiver'[t].at # "recv" => receiver'[t] = receiver[t]
        BY <2>6
      <3>3. \A t \in Receivers : Holds(t)' => Holds(t) /\ receiver'[t] = receiver[t]
        BY <2>6 DEF Holds
      <3> QED
        BY <1>1, <2>7, <3>1, <3>2, <3>3 DEF HeldSound
    <2>12. OwnPackets'
      <3> SUFFICES ASSUME ~clashed, NEW j \in Live, NEW n \in DOMAIN sess'[j].queue
                   PROVE  sess'[j].queue[n] = sess'[j].stream
        BY <1>1, <2>7 DEF OwnPackets
      <3>1. CASE j = i
        <4>1. receiver[r].packet = sess[i].stream
          BY <1>1, <1>2 DEF HeldSound, i
        <4>2. \A m \in DOMAIN sess[i].queue : sess[i].queue[m] = sess[i].stream
          BY <1>1, <2>1 DEF OwnPackets
        <4>3. n \in 1..Len(sess[i].queue) + 1
              /\ s.queue[n] = IF n <= Len(sess[i].queue) THEN sess[i].queue[n]
                              ELSE receiver[r].packet
          BY <1>2, <2>1, <2>4, <2>7, <3>1
        <4>4. n <= Len(sess[i].queue) => n \in DOMAIN sess[i].queue
          BY <2>1, <4>3
        <4> QED
          BY <2>4, <2>7, <3>1, <4>1, <4>2, <4>3, <4>4
      <3>2. CASE j # i
        BY <1>1, <2>7, <3>2 DEF OwnPackets, Live
      <3> QED
        BY <3>1, <3>2
    <2> QED
      BY <2>7, <2>8, <2>9, <2>10, <2>11, <2>12 DEF MonitorInv
  <1>5. \/ sess' = sess
        \/ /\ sess[i] # NULL /\ NextPacket(r)
           /\ sess' = [sess EXCEPT ![i] = Signalled(Queued(sess[i], receiver[r].packet))]
    BY DEF Insert
  <1> QED
    BY <1>3, <1>4, <1>5

\* A decoder's step leaves the packets it has not taken, or none.
LEMMA DecodeKeeps ==
  ASSUME MonitorInv, NEW i \in Ids, Decode(i)
  PROVE  MonitorInv'
  <1>1. /\ SessionTypes /\ SessionsLined /\ CursorOn /\ Starting /\ HeldSound /\ OwnPackets
    BY DEF MonitorInv
  <1> DEFINE w == sess[i]
  <1>2. PICK s : /\ sess' = [sess EXCEPT ![i] = s] /\ w # NULL /\ w.decoder # "none"
                 /\ UNCHANGED <<Session, receiver, screen, bounds, clashed>>
                 /\ \/ s = [w EXCEPT !.decoder = "gone", !.queue = <<>>]
                    \/ s = [w EXCEPT !.decoder = "goneLocked", !.queue = <<>>]
                    \/ s = [w EXCEPT !.decoder = "look"]
                    \/ s = [w EXCEPT !.decoder = "asleep"]
                    \/ w.queue # <<>> /\ s = [w EXCEPT !.decoder = "work", !.queue = Tail(@)]
    BY DEF Decode, Test, Look, SpuriousWakeup, Cancelled, DecoderStep, Cleaned
  <1>3. i \in Live /\ w \in Sessions /\ w.queue \in Seq(Streams)
    BY <1>1, <1>2, SessionFields DEF Live
  <1> HIDE DEF w
  <1>4. /\ s \in Sessions /\ s.next = w.next /\ s.prev = w.prev
        /\ s.terminate = w.terminate /\ s.stream = w.stream
        /\ s.queue = <<>> \/ s.queue = w.queue \/ (w.queue # <<>> /\ s.queue = Tail(w.queue))
    <2>1. w.queue # <<>> => Tail(w.queue) \in Seq(Streams)
      BY <1>3
    <2>2. <<>> \in Seq(Streams)
      OBVIOUS
    <2> QED
      BY <1>2, <1>3, <2>1, <2>2 DEF Sessions, Decoder
  <1>5. \A n \in DOMAIN s.queue : \E m \in DOMAIN w.queue : s.queue[n] = w.queue[m]
    <2>1. CASE s.queue = <<>>
      BY <2>1
    <2>2. CASE s.queue = w.queue
      BY <2>2
    <2>3. CASE w.queue # <<>> /\ s.queue = Tail(w.queue)
      <3> SUFFICES ASSUME NEW n \in DOMAIN s.queue
                   PROVE  \E m \in DOMAIN w.queue : s.queue[n] = w.queue[m]
        OBVIOUS
      <3>1. n \in 1..Len(w.queue) - 1 /\ s.queue[n] = w.queue[n + 1]
        BY <1>3, <2>3
      <3>2. n + 1 \in DOMAIN w.queue
        BY <1>3, <3>1
      <3> QED
        BY <3>1, <3>2
    <2> QED
      BY <1>4, <2>1, <2>2, <2>3
  <1>6. /\ SessionsLined' /\ Live' = Live /\ sess' \in [Ids -> {NULL} \cup Sessions]
        /\ sess'[i] = s /\ \A j \in Ids : j # i => sess'[j] = sess[j]
    BY <1>1, <1>2, <1>3, <1>4, OneUpdated DEF w
  <1>7. \A j \in Live : sess'[j].terminate = sess[j].terminate /\ sess'[j].stream = sess[j].stream
    BY <1>4, <1>6 DEF Live, w
  <1>8. SessionTypes'
    BY <1>1, <1>2, <1>6 DEF SessionTypes, screen, bounds
  <1>9. CursorOn'
    BY <1>1, <1>2, <1>6, <1>7 DEF CursorOn, screen
  <1>10. Starting'
    <2>1. \A j \in Live : sess[j].decoder = "none" => sess'[j].decoder = "none"
      BY <1>2, <1>6 DEF Live, w
    <2> QED
      BY <1>1, <1>2, <1>6, <2>1 DEF Starting
  <1>11. HeldSound'
    BY <1>1, <1>2, <1>6, <1>7 DEF HeldSound, Holds
  <1>12. OwnPackets'
    <2> SUFFICES ASSUME ~clashed, NEW j \in Live, NEW n \in DOMAIN sess'[j].queue
                 PROVE  sess'[j].queue[n] = sess'[j].stream
      BY <1>2, <1>6 DEF OwnPackets
    <2>1. \A m \in DOMAIN sess[j].queue : sess[j].queue[m] = sess[j].stream
      BY <1>1 DEF OwnPackets
    <2>2. CASE j = i
      BY <1>4, <1>5, <1>6, <2>1, <2>2 DEF w
    <2>3. CASE j # i
      BY <1>6, <2>1, <2>3 DEF Live
    <2> QED
      BY <2>2, <2>3
  <1> QED
    BY <1>6, <1>8, <1>9, <1>10, <1>11, <1>12 DEF MonitorInv

\* A new session, at the end of the list.
LEMMA CreateKeeps ==
  ASSUME MonitorInv, NEW r \in Receivers, Create(r)
  PROVE  MonitorInv'
  <1>1. /\ SessionTypes /\ SessionsLined /\ CursorOn /\ Starting /\ HeldSound /\ OwnPackets
        /\ UNCHANGED <<screen, bounds, clashed>> /\ receiver[r].at = "create"
    BY DEF MonitorInv, Create
  <1> DEFINE new(prev) == [stream |-> receiver[r].packet, prev |-> prev, next |-> NULL,
                           terminate |-> FALSE, decoder |-> "none", queue |-> <<>>]
  <1>2. PICK i \in Free :
          /\ \/ Session = NULL /\ Session' = i /\ sess' = [sess EXCEPT ![i] = new(NULL)]
             \/ /\ Session # NULL /\ Session' = Session
                /\ \E end \in Last : sess' = [sess EXCEPT ![i] = new(end), ![end].next = i]
          /\ receiver' = [receiver EXCEPT ![r].at = "start", ![r].sp = i]
    BY DEF Create
  <1>3. i \in Ids \ Live
    <2> DEFINE held == {receiver[t].sp : t \in Receivers}
    <2>1. held \subseteq Pointer
      BY <1>1, ThreadFields
    <2> HIDE DEF held
    <2>2. i \in (held \ (Live \cup {NULL})) \cup (Ids \ (Live \cup held))
      BY <1>2 DEF Free, held
    <2> QED
      BY <2>1, <2>2 DEF Pointer
  <1>4. receiver[r].packet \in Streams
    BY <1>1 DEF HeldSound
  <1>5. PICK n \in Nat : \E q \in [1..n -> Ids] :
          Lined(Live, Session, Nexts, Prevs, n, q) /\ BothWays(Prevs, n, q)
    BY <1>1 DEF SessionsLined
  <1>6. PICK q \in [1..n -> Ids] :
          Lined(Live, Session, Nexts, Prevs, n, q) /\ BothWays(Prevs, n, q)
    BY <1>5
  <1>7. Live \in SUBSET Ids
    BY DEF Live
  <1>8. n = 0 <=> Session = NULL
    <2>1. n # 0 => q[1] \in Ids
      OBVIOUS
    <2> QED
      BY <1>6, <2>1, Places DEF Lined
  <1> DEFINE before == IF n = 0 THEN NULL ELSE q[n]
  <1>9. before \in Pointer
    BY DEF Pointer
  <1>10. ASSUME n # 0
         PROVE  Last = {q[n]} /\ q[n] \in Live
    <2>1. n \in 1..n /\ q[n] \in Live /\ Nexts[q[n]] = NULL
      BY <1>6, <1>10 DEF Lined
    <2>2. ASSUME NEW j \in Live, sess[j].next = NULL
          PROVE  j = q[n]
      <3>1. PICK k \in 1..n : q[k] = j
        BY <1>6, <1>7, LinedAt
      <3>2. Nexts[j] = NULL
        BY <2>2 DEF Nexts
      <3>3. ~(k < n)
        <4>1. k < n => q[k + 1] \in Ids /\ Nexts[q[k]] = q[k + 1]
          BY <1>6 DEF Lined
        <4> QED
          BY <3>1, <3>2, <4>1, Places
      <3> QED
        BY <3>1, <3>3
    <2> QED
      BY <2>1, <2>2 DEF Last, Nexts
  <1>11. /\ sess' \in [Ids -> {NULL} \cup Sessions] /\ sess'[i] = new(before)
         /\ new(before) \in Sessions
         /\ \A j \in Live : /\ sess'[j] \in Sessions
                            /\ sess'[j].prev = sess[j].prev
                            /\ sess'[j].next = IF j = q[n] THEN i ELSE sess[j].next
                            /\ sess'[j].terminate = sess[j].terminate
                            /\ sess'[j].decoder = sess[j].decoder
                            /\ sess'[j].stream = sess[j].stream
                            /\ sess'[j].queue = sess[j].queue
         /\ \A j \in Ids : j \notin Live /\ j # i => sess'[j] = NULL
    <2>1. ASSUME NEW p \in Pointer
          PROVE  new(p) \in Sessions
      <3>1. <<>> \in Seq(Streams)
        OBVIOUS
      <3> QED
        BY <1>4, <3>1 DEF Sessions, Pointer, Decoder
    <2>2. sess \in [Ids -> {NULL} \cup Sessions] /\ \A j \in Live : sess[j] \in Sessions
      BY <1>1 DEF SessionTypes, Live
    <2>3. CASE n = 0
      <3>1. sess' = [sess EXCEPT ![i] = new(NULL)] /\ Live = {}
        BY <1>2, <1>6, <1>7, <1>8, <2>3 DEF Lined
      <3>2. before = NULL /\ NULL \in Pointer
        BY <2>3 DEF Pointer
      <3> HIDE DEF new, before
      <3> QED
        BY <1>3, <2>1, <2>2, <3>1, <3>2 DEF Live
    <2>4. CASE n # 0
      <3>1. sess' = [sess EXCEPT ![i] = new(q[n]), ![q[n]].next = i] /\ q[n] \in Live
        BY <1>2, <1>8, <1>10, <2>4
      <3>2. before = q[n] /\ q[n] \in Pointer /\ i \in Pointer /\ q[n] # i
        BY <1>3, <1>9, <2>4, <3>1 DEF Pointer
      <3>3. /\ sess'[i] = new(q[n]) /\ sess'[q[n]] = [sess[q[n]] EXCEPT !.next = i]
            /\ \A j \in Ids : j # i /\ j # q[n] => sess'[j] = sess[j]
            /\ DOMAIN sess' = Ids
        <4> DEFINE f == [sess EXCEPT ![i] = new(q[n])]
        <4>1. sess' = [f EXCEPT ![q[n]].next = i]
          BY <3>1
        <4> HIDE DEF new
        <4>2. /\ f[i] = new(q[n]) /\ DOMAIN f = Ids
              /\ \A j \in Ids : j # i => f[j] = sess[j]
          BY <1>3, <2>2
        <4> HIDE DEF f
        <4>3. q[n] \in Ids /\ f[q[n]] = sess[q[n]]
          BY <1>7, <3>1, <3>2, <4>2
        <4> QED
          BY <1>3, <3>2, <4>1, <4>2, <4>3
      <3>4. [sess[q[n]] EXCEPT !.next = i] \in Sessions
        BY <2>2, <3>1, <3>2 DEF Sessions
      <3>5. \A j \in Live :
              /\ sess'[j] \in Sessions
              /\ sess'[j].prev = sess[j].prev
              /\ sess'[j].next = IF j = q[n] THEN i ELSE sess[j].next
              /\ sess'[j].terminate = sess[j].terminate
              /\ sess'[j].decoder = sess[j].decoder
              /\ sess'[j].stream = sess[j].stream
              /\ sess'[j].queue = sess[j].queue
        <4> SUFFICES ASSUME NEW j \in Live
                     PROVE  /\ sess'[j] \in Sessions
                            /\ sess'[j].prev = sess[j].prev
                            /\ sess'[j].next = IF j = q[n] THEN i ELSE sess[j].next
                            /\ sess'[j].terminate = sess[j].terminate
                            /\ sess'[j].decoder = sess[j].decoder
                            /\ sess'[j].stream = sess[j].stream
                            /\ sess'[j].queue = sess[j].queue
          OBVIOUS
        <4>1. CASE j = q[n]
          BY <2>2, <3>3, <3>4, <4>1 DEF Sessions
        <4>2. CASE j # q[n]
          BY <1>3, <1>7, <2>2, <3>3, <4>2
        <4> QED
          BY <4>1, <4>2
      <3>6. \A j \in Ids : j \notin Live /\ j # i => sess'[j] = NULL
        BY <3>1, <3>3 DEF Live
      <3>7. new(q[n]) \in Sessions
        BY <2>1, <3>2
      <3> HIDE DEF new
      <3>8. sess' \in [Ids -> {NULL} \cup Sessions]
        <4>1. sess' = [j \in Ids |-> sess'[j]]
          BY <3>1, <2>2
        <4>2. \A j \in Ids : sess'[j] \in {NULL} \cup Sessions
          BY <3>3, <3>5, <3>6, <3>7
        <4> QED
          BY <4>1, <4>2
      <3> QED
        BY <3>2, <3>3, <3>5, <3>6, <3>7, <3>8
    <2> QED
      BY <2>3, <2>4
  <1>12. /\ sess'[i].next = NULL /\ sess'[i].prev = before /\ ~sess'[i].terminate
         /\ sess'[i].decoder = "none" /\ sess'[i].stream = receiver[r].packet
         /\ sess'[i].queue = <<>>
    BY <1>11
  <1>13. Live' = Live \cup {i}
    <2>1. \A j \in Live \cup {i} : j \in Ids /\ sess'[j] \in Sessions
      <3>1. i \in Ids /\ sess'[i] \in Sessions
        BY <1>3, <1>7, <1>11
      <3>2. \A j \in Live : j \in Ids /\ sess'[j] \in Sessions
        <4> HIDE DEF new, before
        <4> QED
          BY <1>3, <1>7, <1>11
      <3> QED
        BY <3>1, <3>2
    <2>2. \A j \in Live \cup {i} : sess'[j] # NULL
      BY <2>1, SessionAssumption
    <2> HIDE DEF new, before
    <2> QED
      BY <1>11, <2>1, <2>2 DEF Live
  <1>14. Session' = IF n = 0 THEN i ELSE Session
    BY <1>2, <1>8
  <1> HIDE DEF new, before
  <1>15. SessionsLined'
    <2>1. /\ Nexts'[i] = NULL
          /\ n = 0 => Session' = i /\ Prevs'[i] = NULL
          /\ n # 0 => Session' = Session /\ Prevs'[i] = q[n]
      BY <1>12, <1>13, <1>14 DEF Nexts, Prevs, before
    <2>2. \A j \in Live : /\ Prevs'[j] = Prevs[j]
                          /\ Nexts'[j] = IF j = q[n] THEN i ELSE Nexts[j]
      BY <1>11, <1>13 DEF Nexts, Prevs
    <2>3. \E q2 \in [1..n + 1 -> Ids] :
            Lined(Live \cup {i}, Session', Nexts', Prevs', n + 1, q2) /\ BothWays(Prevs', n + 1, q2)
      <3>1. PutLast(Live, Session, Nexts, Prevs, n, q, i, Session', Nexts', Prevs')
        BY <1>3, <2>1, <2>2 DEF PutLast
      <3> QED
        BY <1>6, <1>7, <3>1, LinedEnd
    <2>4. PICK q2 \in [1..n + 1 -> Ids] :
            Lined(Live', Session', Nexts', Prevs', n + 1, q2) /\ BothWays(Prevs', n + 1, q2)
      BY <1>13, <2>3
    <2>5. (Lined(Live, Session, Nexts, Prevs, n + 1, q2) /\ BothWays(Prevs, n + 1, q2))'
      BY <2>4 DEF Lined, BothWays
    <2>6. n + 1 \in Nat
      OBVIOUS
    <2> QED
      BY <2>5, <2>6 DEF SessionsLined
  <1>16. /\ \A t \in Receivers : t # r => receiver'[t] = receiver[t]
         /\ receiver'[r].at = "start" /\ receiver'[r].sp = i
         /\ receiver'[r].packet = receiver[r].packet
         /\ receiver' \in [Receivers ->
               [at: {"recv", "create", "start", "insert", "stuck"},
                packet: Streams \cup {NULL}, sp: Pointer]]
    <2> DEFINE thread == [receiver[r] EXCEPT !.at = "start", !.sp = i]
    <2>1. receiver' = [receiver EXCEPT ![r] = thread]
      BY <1>2
    <2>2. /\ thread.at = "start" /\ thread.sp = i /\ thread.packet = receiver[r].packet
          /\ thread \in [at: {"recv", "create", "start", "insert", "stuck"},
                         packet: Streams \cup {NULL}, sp: Pointer]
      BY <1>1, <1>3, ThreadFields DEF Pointer
    <2> HIDE DEF thread
    <2> QED
      BY <1>1, <2>1, <2>2 DEF SessionTypes
  <1>17. SessionTypes'
    <2>1. Session' \in Pointer
      BY <1>1, <1>2, <1>3 DEF SessionTypes, Pointer
    <2> QED
      BY <1>1, <1>3, <1>11, <1>16, <2>1 DEF SessionTypes, screen, bounds
  <1>18. CursorOn'
    BY <1>1, <1>11, <1>13 DEF CursorOn, screen
  <1>19. Starting'
    <2>1. \A t \in Receivers : receiver'[t].at = "start" =>
            t = r \/ (receiver[t].at = "start" /\ receiver'[t].sp = receiver[t].sp
                      /\ receiver[t].sp \in Live /\ receiver[t].sp # i)
      BY <1>1, <1>3, <1>16 DEF Starting
    <2> QED
      BY <1>1, <1>11, <1>12, <1>13, <1>16, <2>1 DEF Starting
  <1>20. HeldSound'
    <2>1. \A t \in Receivers : receiver'[t].at # "recv" => receiver'[t].packet \in Streams
      BY <1>1, <1>4, <1>16 DEF HeldSound
    <2>2. ASSUME ~clashed, NEW t \in Receivers, Holds(t)'
          PROVE  /\ receiver'[t].sp \in Live' /\ ~sess'[receiver'[t].sp].terminate
                 /\ sess'[receiver'[t].sp].stream = receiver'[t].packet
      <3>1. CASE t = r
        BY <1>12, <1>13, <1>16, <3>1
      <3>2. CASE t # r
        BY <1>1, <1>11, <1>13, <1>16, <2>2, <3>2 DEF HeldSound, Holds
      <3> QED
        BY <3>1, <3>2
    <2> QED
      BY <1>1, <2>1, <2>2 DEF HeldSound
  <1>21. OwnPackets'
    BY <1>1, <1>11, <1>12, <1>13 DEF OwnPackets
  <1> QED
    BY <1>15, <1>17, <1>18, <1>19, <1>20, <1>21 DEF MonitorInv

\* The cursor moves along the list.
LEMMA MoveCursorKeeps ==
  ASSUME MonitorInv, MoveCursor
  PROVE  MonitorInv'
  <1>1. /\ SessionTypes /\ SessionsLined /\ CursorOn /\ Starting /\ HeldSound /\ OwnPackets
        /\ UNCHANGED <<memory, receiver, display, bounds, clashed>> /\ display = "keys"
    BY DEF MonitorInv, MoveCursor
  <1>2. PICK n \in Nat : \E q \in [1..n -> Ids] :
          Lined(Live, Session, Nexts, Prevs, n, q) /\ BothWays(Prevs, n, q)
    BY <1>1 DEF SessionsLined
  <1>3. PICK q \in [1..n -> Ids] :
          Lined(Live, Session, Nexts, Prevs, n, q) /\ BothWays(Prevs, n, q)
    BY <1>2
  <1>4. \A k \in 1..n : q[k] \in Live
    BY <1>3 DEF Lined
  <1>5. Session \in Live \cup {NULL}
    <2>1. n # 0 => 1 \in 1..n
      OBVIOUS
    <2> QED
      BY <1>3, <1>4, <2>1 DEF Lined
  <1>6. \A i \in Live : sess[i].next \in Live \cup {NULL} /\ sess[i].prev \in Live \cup {NULL}
    <2> SUFFICES ASSUME NEW i \in Live
                 PROVE  sess[i].next \in Live \cup {NULL} /\ sess[i].prev \in Live \cup {NULL}
      OBVIOUS
    <2>1. PICK k \in 1..n : q[k] = i
      BY <1>3, LinedAt DEF Live
    <2>2. sess[i].next = Nexts[i] /\ sess[i].prev = Prevs[i]
      BY DEF Nexts, Prevs
    <2>3. /\ Nexts[i] = IF k < n THEN q[k + 1] ELSE NULL
          /\ Prevs[i] = NULL \/ (k > 1 /\ Prevs[i] = q[k - 1])
      BY <1>3, <2>1 DEF Lined
    <2>4. (k < n => k + 1 \in 1..n) /\ (k > 1 => k - 1 \in 1..n)
      OBVIOUS
    <2> QED
      BY <1>4, <2>2, <2>3, <2>4
  <1>7. Current' \in Live \cup {NULL}
    BY <1>1, <1>5, <1>6 DEF MoveCursor, CursorOn
  <1>8. Live' = Live /\ sess' = sess
    BY <1>1 DEF memory, Live
  <1>9. SessionsLined'
    BY <1>1, <1>8, LinksKept DEF memory
  <1>10. SessionTypes'
    BY <1>1, <1>7 DEF SessionTypes, memory, bounds, Live, Pointer
  <1>11. CursorOn' /\ Starting' /\ HeldSound' /\ OwnPackets'
    BY <1>1, <1>7, <1>8 DEF CursorOn, Starting, HeldSound, Holds, OwnPackets
  <1> QED
    BY <1>9, <1>10, <1>11 DEF MonitorInv

\* A session is told to end.
LEMMA DeleteKeeps ==
  ASSUME MonitorInv, Delete
  PROVE  MonitorInv'
  <1> DEFINE s == [sess[Current] EXCEPT !.terminate = TRUE]
  <1>1. /\ SessionTypes /\ SessionsLined /\ CursorOn /\ Starting /\ HeldSound /\ OwnPackets
        /\ UNCHANGED <<Session, receiver, Current, packets>> /\ Current # NULL
        /\ deletes < MaxDeletes /\ deletes' = deletes + 1 /\ display' \in {"crashed", "join"}
        /\ clashed' = (clashed \/ \E r \in Receivers : receiver[r].sp = Current)
    BY DEF MonitorInv, Delete
  <1>2. Current \in Live /\ sess[Current] \in Sessions
    BY <1>1, SessionFields DEF CursorOn
  <1>3. /\ s \in Sessions /\ s.next = sess[Current].next /\ s.prev = sess[Current].prev
        /\ s.terminate = TRUE /\ s.queue = sess[Current].queue
        /\ s.stream = sess[Current].stream /\ s.decoder = sess[Current].decoder
    BY <1>2 DEF Sessions
  <1>4. sess' = [sess EXCEPT ![Current] = s]
    BY DEF Delete
  <1> HIDE DEF s
  <1>5. /\ SessionsLined' /\ Live' = Live /\ sess' \in [Ids -> {NULL} \cup Sessions]
        /\ sess'[Current] = s /\ \A j \in Ids : j # Current => sess'[j] = sess[j]
    BY <1>1, <1>2, <1>3, <1>4, OneUpdated
  <1>6. \A j \in Live : /\ sess'[j].stream = sess[j].stream /\ sess'[j].queue = sess[j].queue
                        /\ sess'[j].decoder = sess[j].decoder
                        /\ j # Current => sess'[j].terminate = sess[j].terminate
    BY <1>3, <1>5 DEF Live
  <1>7. SessionTypes'
    <2>1. MaxDeletes \in Nat /\ clashed' \in BOOLEAN
      BY <1>1, SessionAssumption DEF SessionTypes
    <2> QED
      BY <1>1, <1>5, <2>1 DEF SessionTypes
  <1>8. CursorOn'
    BY <1>1, <1>2, <1>3, <1>5 DEF CursorOn
  <1>9. Starting'
    BY <1>1, <1>5, <1>6 DEF Starting
  <1>10. HeldSound'
    <2>1. ~clashed' => ~clashed /\ \A r \in Receivers : receiver[r].sp # Current
      BY <1>1
    <2> QED
      BY <1>1, <1>5, <1>6, <2>1 DEF HeldSound, Holds
  <1>11. OwnPackets'
    BY <1>1, <1>5, <1>6 DEF OwnPackets, SessionTypes
  <1> QED
    BY <1>5, <1>7, <1>8, <1>9, <1>10, <1>11 DEF MonitorInv

\* And is taken off the list when its decoder has ended.
LEMMA CloseKeeps ==
  ASSUME MonitorInv, Close
  PROVE  MonitorInv'
  <1> DEFINE x == Current
  <1>1. /\ SessionTypes /\ SessionsLined /\ CursorOn /\ Starting /\ HeldSound /\ OwnPackets
        /\ UNCHANGED <<receiver, bounds, clashed>> /\ display = "join" /\ display' = "keys"
        /\ Joined /\ sess' = Unlinked(x) /\ Current' = Session'
        /\ Session' = IF sess[x].prev = NULL THEN sess[x].next ELSE Session
    BY DEF MonitorInv, Close
  <1>2. x \in Live /\ sess[x].terminate /\ sess[x] \in Sessions
        /\ sess[x].prev \in Pointer /\ sess[x].next \in Pointer
    BY <1>1, SessionFields DEF CursorOn
  <1>3. PICK n \in Nat : \E q \in [1..n -> Ids] :
          Lined(Live, Session, Nexts, Prevs, n, q) /\ BothWays(Prevs, n, q)
    BY <1>1 DEF SessionsLined
  <1>4. PICK q \in [1..n -> Ids] :
          Lined(Live, Session, Nexts, Prevs, n, q) /\ BothWays(Prevs, n, q)
    BY <1>3
  <1>5. Live \in SUBSET Ids
    BY DEF Live
  <1>6. PICK p \in 1..n : q[p] = x
    BY <1>2, <1>4, <1>5, LinedAt
  <1>7. sess[x].next = Nexts[x] /\ sess[x].prev = Prevs[x]
    BY <1>2 DEF Nexts, Prevs
  <1>8. /\ Nexts[x] = IF p < n THEN q[p + 1] ELSE NULL
        /\ Prevs[x] = IF p > 1 THEN q[p - 1] ELSE NULL
    <2>1. p > 1 => p \in 2..n
      OBVIOUS
    <2> QED
      BY <1>4, <1>6, <2>1 DEF Lined, BothWays
  <1>9. Nexts[x] = Prevs[x] => Nexts[x] = NULL
    <2>1. p < n /\ p > 1 => p + 1 \in 1..n /\ p - 1 \in 1..n /\ p + 1 # p - 1
      OBVIOUS
    <2>2. p < n /\ p > 1 => q[p + 1] # q[p - 1]
      BY <1>4, <2>1 DEF Lined
    <2> QED
      BY <1>8, <2>2
  <1> HIDE DEF x
  <1>10. /\ DOMAIN sess' = Ids /\ sess'[x] = NULL
         /\ \A j \in Live \ {x} :
              /\ j \in Ids /\ sess[j] \in Sessions /\ sess'[j] \in Sessions
              /\ sess'[j].next = IF j = sess[x].prev THEN sess[x].next ELSE sess[j].next
              /\ sess'[j].prev = IF j = sess[x].next THEN sess[x].prev ELSE sess[j].prev
              /\ sess'[j].terminate = sess[j].terminate /\ sess'[j].decoder = sess[j].decoder
              /\ sess'[j].stream = sess[j].stream /\ sess'[j].queue = sess[j].queue
         /\ \A j \in Ids : j \notin Live => sess'[j] = NULL
    <2>1. sess' = [j \in Ids |-> IF j = x THEN NULL
                     ELSE IF j = sess[x].prev THEN [sess[j] EXCEPT !.next = sess[x].next]
                     ELSE IF j = sess[x].next THEN [sess[j] EXCEPT !.prev = sess[x].prev]
                     ELSE sess[j]]
      BY <1>1 DEF Unlinked
    <2>2. DOMAIN sess' = Ids /\ sess'[x] = NULL
      BY <1>2, <1>5, <2>1
    <2>3. ASSUME NEW j \in Live \ {x}
          PROVE  /\ j \in Ids /\ sess[j] \in Sessions /\ sess'[j] \in Sessions
                 /\ sess'[j].next = IF j = sess[x].prev THEN sess[x].next ELSE sess[j].next
                 /\ sess'[j].prev = IF j = sess[x].next THEN sess[x].prev ELSE sess[j].prev
                 /\ sess'[j].terminate = sess[j].terminate /\ sess'[j].decoder = sess[j].decoder
                 /\ sess'[j].stream = sess[j].stream /\ sess'[j].queue = sess[j].queue
      <3>1. j \in Ids /\ j # x /\ sess[j] \in Sessions /\ j # NULL
        BY <1>1, SessionFields
      <3>2. CASE j = sess[x].prev
        <4>1. sess'[j] = [sess[j] EXCEPT !.next = sess[x].next] /\ j # sess[x].next
          BY <1>7, <1>9, <2>1, <3>1, <3>2
        <4> QED
          BY <1>2, <3>1, <3>2, <4>1 DEF Sessions
      <3>3. CASE j # sess[x].prev /\ j = sess[x].next
        <4>1. sess'[j] = [sess[j] EXCEPT !.prev = sess[x].prev]
          BY <2>1, <3>1, <3>3
        <4> QED
          BY <1>2, <3>1, <3>3, <4>1 DEF Sessions
      <3>4. CASE j # sess[x].prev /\ j # sess[x].next
        <4>1. sess'[j] = sess[j]
          BY <2>1, <3>1, <3>4
        <4> QED
          BY <3>1, <3>4, <4>1
      <3> QED
        BY <3>2, <3>3, <3>4
    <2>4. ASSUME NEW j \in Ids, j \notin Live
          PROVE  sess'[j] = NULL
      <3>1. \A k \in 1..n : q[k] \in Live
        BY <1>4 DEF Lined
      <3>2. (p < n => p + 1 \in 1..n) /\ (p > 1 => p - 1 \in 1..n)
        OBVIOUS
      <3>3. j # sess[x].next /\ j # sess[x].prev /\ j # x
        BY <1>2, <1>7, <1>8, <2>4, <3>1, <3>2, Places
      <3>4. sess[j] = NULL
        BY <2>4 DEF Live
      <3> QED
        BY <2>1, <3>3, <3>4
    <2> QED
      BY <2>2, <2>3, <2>4
  <1>11. Live' = Live \ {x}
    <2>1. \A j \in Live \ {x} : sess'[j] # NULL /\ j \in Ids
      BY <1>10, SessionAssumption
    <2> QED
      BY <1>10, <2>1 DEF Live
  <1>12. sess' \in [Ids -> {NULL} \cup Sessions]
    <2>1. sess' = [j \in Ids |-> sess'[j]]
      BY <1>1, <1>10 DEF Unlinked
    <2>2. \A j \in Ids : sess'[j] \in {NULL} \cup Sessions
      BY <1>10
    <2> QED
      BY <2>1, <2>2
  <1>13. PICK q2 \in [1..n - 1 -> Ids] :
           /\ Lined(Live', Session', Nexts', Prevs', n - 1, q2)
           /\ BothWays(Prevs', n - 1, q2)
    <2>1. \A j \in Live \ {x} :
            /\ Nexts'[j] = IF j = Prevs[x] THEN Nexts[x] ELSE Nexts[j]
            /\ Prevs'[j] = IF j = Nexts[x] THEN Prevs[x] ELSE Prevs[j]
      BY <1>7, <1>10, <1>11 DEF Nexts, Prevs
    <2>2. p = 1 \/ Prevs[x] = q[p - 1]
      BY <1>8
    <2>3. TakenOut(Live, Nexts, Prevs, n, q, p, Nexts', Prevs')
      BY <1>6, <2>1, <2>2 DEF TakenOut
    <2>4. Session' = IF Prevs[q[p]] = NULL THEN Nexts[q[p]] ELSE Session
      BY <1>1, <1>6, <1>7
    <2>5. \E q2 \in [1..n - 1 -> Ids] :
            /\ Lined(Live \ {q[p]}, Session', Nexts', Prevs', n - 1, q2)
            /\ BothWays(Prevs, n, q) => BothWays(Prevs', n - 1, q2)
      BY <1>4, <1>5, <2>3, <2>4, LinedWithout
    <2> QED
      BY <1>4, <1>6, <1>11, <2>5
  <1>14. SessionsLined'
    <2>1. (Lined(Live, Session, Nexts, Prevs, n - 1, q2) /\ BothWays(Prevs, n - 1, q2))'
      BY <1>13 DEF Lined, BothWays
    <2>2. n - 1 \in Nat
      OBVIOUS
    <2> QED
      BY <2>1, <2>2 DEF SessionsLined
  <1>15. Session' \in Live' \cup {NULL}
    <2>1. n - 1 # 0 => 1 \in 1..n - 1 /\ q2[1] \in Ids
      OBVIOUS
    <2>2. \A i \in Ids : i \in Live' <=> \E k \in 1..n - 1 : q2[k] = i
      BY <1>13 DEF Lined
    <2>3. Session' = IF n - 1 = 0 THEN NULL ELSE q2[1]
      BY <1>13 DEF Lined
    <2> QED
      BY <2>1, <2>2, <2>3
  <1>16. CursorOn'
    BY <1>1, <1>15 DEF CursorOn
  <1>17. SessionTypes'
    BY <1>1, <1>5, <1>11, <1>12, <1>15 DEF SessionTypes, bounds, Pointer
  <1>18. Starting'
    <2>1. \A r \in Receivers : receiver[r].at = "start" => receiver[r].sp # x
      BY <1>1 DEF Starting, Joined, x
    <2> QED
      BY <1>1, <1>10, <1>11, <2>1 DEF Starting
  <1>19. HeldSound'
    <2>1. ~clashed => \A r \in Receivers : Holds(r) => receiver[r].sp # x
      BY <1>1, <1>2 DEF HeldSound
    <2> QED
      BY <1>1, <1>10, <1>11, <2>1 DEF HeldSound, Holds
  <1>20. OwnPackets'
    BY <1>1, <1>10, <1>11 DEF OwnPackets
  <1> QED
    BY <1>14, <1>16, <1>17, <1>18, <1>19, <1>20 DEF MonitorInv

\* Nothing has been received.
LEMMA MonitorInit ==
  ASSUME SessionsInit
  PROVE  MonitorInv
  <1>1. Live = {} /\ Live \in SUBSET Ids
    BY DEF SessionsInit, Live
  <1>2. SessionTypes
    <2>1. MaxPackets \in Nat /\ MaxDeletes \in Nat
      BY SessionAssumption
    <2> QED
      <3>1. receiver \in [Receivers ->
              [at: {"recv", "create", "start", "insert", "stuck"},
               packet: Streams \cup {NULL}, sp: Pointer]]
        BY DEF SessionsInit, Pointer
      <3>2. \A r \in Receivers : receiver[r].at = "recv"
        BY DEF SessionsInit
      <3>3. sess \in [Ids -> {NULL} \cup Sessions]
        BY DEF SessionsInit
      <3>4. Session \in Pointer /\ Current \in Pointer /\ display \in {"keys", "join", "crashed"}
        BY DEF SessionsInit, Pointer
      <3>5. packets \in 0..MaxPackets /\ deletes \in 0..MaxDeletes
        <4>1. packets = 0 /\ deletes = 0
          BY DEF SessionsInit
        <4> QED
          BY <2>1, <4>1
      <3>6. clashed \in BOOLEAN
        BY DEF SessionsInit
      <3> QED
        BY <3>1, <3>2, <3>3, <3>4, <3>5, <3>6 DEF SessionTypes
  <1>3. SessionsLined
    <2> DEFINE q == [k \in 1..0 |-> CHOOSE i \in Ids : TRUE]
    <2>1. 0 \in Nat /\ 1..0 = {} /\ 2..0 = {}
      OBVIOUS
    <2>2. q \in [1..0 -> Ids]
      BY <2>1
    <2>3. Lined(Live, Session, Nexts, Prevs, 0, q) /\ BothWays(Prevs, 0, q)
      BY <1>1, <2>1 DEF Lined, BothWays, SessionsInit
    <2> QED
      BY <2>1, <2>2, <2>3 DEF SessionsLined
  <1>4. CursorOn /\ Starting /\ HeldSound /\ OwnPackets
    BY <1>1 DEF CursorOn, Starting, HeldSound, Holds, OwnPackets, SessionsInit
  <1> QED
    BY <1>2, <1>3, <1>4 DEF MonitorInv

\* Every step of monitor keeps it.
LEMMA MonitorStep ==
  ASSUME MonitorInv, SessionsNext \/ UNCHANGED sessionVars
  PROVE  MonitorInv'
  <1>1. CASE UNCHANGED sessionVars
    <2>1. /\ UNCHANGED <<memory, receiver, screen, bounds, clashed>>
          /\ Session' = Session /\ sess' = sess /\ Live' = Live
      BY <1>1 DEF sessionVars, memory, Live
    <2>2. SessionsLined'
      BY <2>1, LinksKept DEF MonitorInv
    <2>3. /\ SessionTypes' /\ CursorOn' /\ Starting' /\ HeldSound' /\ OwnPackets'
      BY <2>1 DEF MonitorInv, SessionTypes, CursorOn, Starting, HeldSound, Holds, OwnPackets,
                  screen, bounds
    <2> QED
      BY <2>2, <2>3 DEF MonitorInv
  <1>2. CASE SessionsNext
    <2>1. ASSUME NEW r \in Receivers, Socket(r)
          PROVE  MonitorInv'
      BY <2>1, ReceiveKeeps, CreateKeeps, StartKeeps, InsertKeeps DEF Socket
    <2>2. ASSUME NEW i \in Ids, Decode(i)
          PROVE  MonitorInv'
      BY <2>2, DecodeKeeps
    <2>3. ASSUME Display
          PROVE  MonitorInv'
      BY <2>3, MoveCursorKeeps, DeleteKeeps, CloseKeeps DEF Display
    <2> QED
      BY <1>2, <2>1, <2>2, <2>3 DEF SessionsNext
  <1> QED
    BY <1>1, <1>2

\* In such a state the list can be walked both ways.
LEMMA MonitorSound ==
  ASSUME MonitorInv
  PROVE  SessionsSound
  <1> DEFINE c == Cardinality(Ids)
  <1>1. SessionTypes /\ SessionsLined /\ CursorOn /\ OwnPackets /\ Live \in SUBSET Ids
    BY DEF MonitorInv, Live
  <1>2. PICK n \in Nat : \E q \in [1..n -> Ids] :
          Lined(Live, Session, Nexts, Prevs, n, q) /\ BothWays(Prevs, n, q)
    BY <1>1 DEF SessionsLined
  <1>3. PICK q \in [1..n -> Ids] :
          Lined(Live, Session, Nexts, Prevs, n, q) /\ BothWays(Prevs, n, q)
    BY <1>2
  <1>4. c \in Nat /\ n <= c
    BY <1>3, LinedLength, Places
  <1> DEFINE w == Along(q, n, c)
             Onward(f, m) == IF m = 0 THEN Session
                             ELSE IF f[m - 1] = NULL THEN NULL ELSE sess[f[m - 1]].next
  <1> HIDE DEF c
  <1>5. /\ Walks(w, c, Session, Nexts)
        /\ (\A i \in Live : \E m \in 0..c : w[m] = i) /\ w[c] = NULL
        /\ \A m \in 0..c : w[m] \in Live \cup {NULL}
    <2>1. Walks(w, c, Session, Nexts)
      BY <1>3, <1>4, AlongWalks
    <2>2. Meets(w, c, Live)
      BY <1>1, <1>3, <1>4, AlongMeets
    <2> QED
      BY <2>1, <2>2 DEF Meets
  <1>6. w = [m \in 0..c |-> w[m]]
    BY DEF Along
  <1> HIDE DEF w
  <1>7. w = [m \in 0..c |-> Onward(w, m)]
    <2>1. ASSUME NEW m \in 0..c
          PROVE  w[m] = Onward(w, m)
      <3>1. w[m] = IF m = 0 THEN Session ELSE IF w[m - 1] = NULL THEN NULL ELSE Nexts[w[m - 1]]
        BY <1>5 DEF Walks
      <3>2. m # 0 => m - 1 \in 0..c
        BY <1>4
      <3>3. m # 0 /\ w[m - 1] # NULL => Nexts[w[m - 1]] = sess[w[m - 1]].next
        BY <1>5, <3>2 DEF Nexts
      <3> QED
        BY <3>1, <3>3
    <2> QED
      BY <1>6, <2>1
  <1>8. Walk = [m \in 0..c |-> Onward(Walk, m)]
    BY <1>7 DEF Walk, c
  <1>9. \A m \in 0..c : Walk[m] = w[m]
    <2>1. Walk[0] = w[0]
      BY <1>4, <1>7, <1>8
    <2>2. ASSUME NEW m \in 1..c, Walk[m - 1] = w[m - 1]
          PROVE  Walk[m] = w[m]
      <3>1. m \in 0..c /\ m # 0
        BY <1>4
      <3>2. Walk[m] = Onward(Walk, m) /\ w[m] = Onward(w, m)
        BY <1>7, <1>8, <3>1
      <3> QED
        BY <2>2, <3>1, <3>2
    <2>3. PICK f : f = Walk
      OBVIOUS
    <2>4. GoesOn(f, w, c)
      BY <2>1, <2>2, <2>3 DEF GoesOn
    <2>5. \A m \in 0..c : f[m] = w[m]
      BY <1>4, <2>4, Agree
    <2> QED
      BY <2>3, <2>5
  <1>10. ListHolds
    <2>1. DOMAIN Walk = 0..c /\ {Walk[m] : m \in DOMAIN Walk} = Live \cup {NULL}
      <3>1. DOMAIN Walk = 0..c
        BY <1>8
      <3>2. {Walk[m] : m \in 0..c} = {w[m] : m \in 0..c}
        BY <1>9
      <3>3. {w[m] : m \in 0..c} = Live \cup {NULL}
        <4>1. c \in 0..c
          BY <1>4
        <4> QED
          BY <1>5, <4>1
      <3> QED
        BY <3>1, <3>2, <3>3
    <2>2. Walk[c] = NULL
      BY <1>4, <1>5, <1>9
    <2>3. ASSUME NEW i \in Live, sess[i].next # NULL
          PROVE  sess[sess[i].next].prev = i
      <3>1. PICK k \in 1..n : q[k] = i
        BY <1>1, <1>3, LinedAt
      <3>2. sess[i].next = IF k < n THEN q[k + 1] ELSE NULL
        BY <1>3, <3>1 DEF Lined, Nexts
      <3>3. k < n /\ sess[i].next = q[k + 1] /\ k + 1 \in 1..n /\ k + 1 \in 2..n
            /\ (k + 1) - 1 = k
        BY <2>3, <3>2
      <3>4. q[k + 1] \in Live
        BY <1>3, <3>3 DEF Lined
      <3>5. Prevs[q[k + 1]] = q[(k + 1) - 1]
        BY <1>3, <3>3 DEF BothWays
      <3>6. sess[q[k + 1]].prev = q[k]
        BY <3>3, <3>4, <3>5 DEF Prevs
      <3> QED
        BY <3>1, <3>3, <3>6
    <2>4. Session # NULL => sess[Session].prev = NULL
      <3>1. Session # NULL => 1 \in 1..n /\ Session = q[1]
        BY <1>3 DEF Lined
      <3>2. Session # NULL => Session \in Live /\ Prevs[Session] = NULL
        BY <1>3, <3>1 DEF Lined
      <3> QED
        BY <3>2 DEF Prevs
    <2>5. Current \in Live \cup {NULL}
      BY <1>1 DEF CursorOn
    <2> QED
      BY <2>1, <2>2, <2>3, <2>4, <2>5 DEF ListHolds, c
  <1> QED
    BY <1>1, <1>10 DEF SessionsSound
-----------------------------------------------------------------------------
(* The sessions of opus and pcmcat stay on theirs *)

\* A session's fields.
LEMMA NodeFields ==
  ASSUME ChainInv, NEW i \in Kept
  PROVE  /\ i \in Ids /\ i # NULL /\ node[i] \in Nodes /\ node[i] # NULL
         /\ node[i].stream \in Streams /\ node[i].prev \in Pointer /\ node[i].next \in Pointer
  <1>1. i \in Ids /\ i # NULL /\ node[i] \in Nodes /\ node[i] # NULL
    BY Places DEF Kept, ChainInv
  <1> QED
    BY <1>1 DEF Nodes

\* What is met on the way from the head is what there is.
LEMMA ChainMeets ==
  ASSUME ChainInv
  PROVE  /\ DOMAIN Chain = 0..Cardinality(Ids)
         /\ Listed = Kept /\ Chain[Cardinality(Ids)] = NULL
  <1> DEFINE c == Cardinality(Ids)
  <1>1. Kept \in SUBSET Ids /\ NULL \notin Kept
    BY Places DEF Kept
  <1>2. PICK n \in Nat : \E q \in [1..n -> Ids] :
          Lined(Kept, Audio, ChainNexts, ChainPrevs, n, q)
    BY DEF ChainInv, ChainLined
  <1>3. PICK q \in [1..n -> Ids] : Lined(Kept, Audio, ChainNexts, ChainPrevs, n, q)
    BY <1>2
  <1>4. c \in Nat /\ n <= c
    BY <1>3, LinedLength, Places
  <1> DEFINE w == Along(q, n, c)
             Onward(f, m) == IF m = 0 THEN Audio
                             ELSE IF f[m - 1] \in Kept THEN node[f[m - 1]].next ELSE NULL
  <1> HIDE DEF c
  <1>5. Walks(w, c, Audio, ChainNexts) /\ Meets(w, c, Kept)
    <2>1. Walks(w, c, Audio, ChainNexts)
      BY <1>3, <1>4, AlongWalks
    <2>2. Meets(w, c, Kept)
      BY <1>1, <1>3, <1>4, AlongMeets
    <2> QED
      BY <2>1, <2>2
  <1>6. w = [m \in 0..c |-> w[m]]
    BY DEF Along
  <1> HIDE DEF w
  <1>7. w = [m \in 0..c |-> Onward(w, m)]
    <2>1. ASSUME NEW m \in 0..c
          PROVE  w[m] = Onward(w, m)
      <3>1. w[m] = IF m = 0 THEN Audio ELSE IF w[m - 1] = NULL THEN NULL
                   ELSE ChainNexts[w[m - 1]]
        BY <1>5 DEF Walks
      <3>2. m # 0 => m - 1 \in 0..c
        BY <1>4
      <3>3. m # 0 => w[m - 1] \in Kept \cup {NULL}
        BY <1>5, <3>2 DEF Meets
      <3>4. w[m - 1] \in Kept => ChainNexts[w[m - 1]] = node[w[m - 1]].next
        BY DEF ChainNexts
      <3> QED
        BY <1>1, <3>1, <3>3, <3>4
    <2> QED
      BY <1>6, <2>1
  <1>8. Chain = [m \in 0..c |-> Onward(Chain, m)]
    BY <1>7 DEF Chain, c
  <1>9. \A m \in 0..c : Chain[m] = w[m]
    <2>1. Chain[0] = w[0]
      BY <1>4, <1>7, <1>8
    <2>2. ASSUME NEW m \in 1..c, Chain[m - 1] = w[m - 1]
          PROVE  Chain[m] = w[m]
      <3>1. m \in 0..c /\ m # 0
        BY <1>4
      <3>2. Chain[m] = Onward(Chain, m) /\ w[m] = Onward(w, m)
        BY <1>7, <1>8, <3>1
      <3> QED
        BY <2>2, <3>1, <3>2
    <2>3. PICK f : f = Chain
      OBVIOUS
    <2>4. GoesOn(f, w, c)
      BY <2>1, <2>2, <2>3 DEF GoesOn
    <2>5. \A m \in 0..c : f[m] = w[m]
      BY <1>4, <2>4, Agree
    <2> QED
      BY <2>3, <2>5
  <1>10. DOMAIN Chain = 0..c
    BY <1>8
  <1>11. Listed = Kept
    <2>1. Listed = {Chain[m] : m \in 0..c} \ {NULL}
      BY <1>10 DEF Listed
    <2>2. {Chain[m] : m \in 0..c} = {w[m] : m \in 0..c}
      BY <1>9
    <2>3. {w[m] : m \in 0..c} \ {NULL} = Kept
      BY <1>1, <1>5 DEF Meets
    <2> QED
      BY <2>1, <2>2, <2>3
  <1>12. Chain[c] = NULL
    BY <1>4, <1>5, <1>9 DEF Meets
  <1> QED
    BY <1>10, <1>11, <1>12 DEF c

\* So lookup_session finds the session of a stream if there is one.
LEMMA KnownIs ==
  ASSUME ChainInv, NEW s
  PROVE  KnownAs(s) = {i \in Kept : node[i].stream = s}
  BY ChainMeets DEF KnownAs

\* A new session, at the front.
LEMMA MakeKeeps ==
  ASSUME ChainInv, NEW i \in Ids \ Kept, NEW s \in Streams, KnownAs(s) = {}, Make(i, s)
  PROVE  ChainInv' /\ Kept' = Kept \cup {i} /\ node'[i].stream = s
  <1>1. /\ Audio \in Pointer /\ node \in [Ids -> {NULL} \cup Nodes] /\ ChainLined /\ OneEach
        /\ Kept \in SUBSET Ids /\ NULL \notin Ids /\ Audio' = i
    BY Places DEF ChainInv, Kept, Make
  <1>2. PICK n \in Nat : \E q \in [1..n -> Ids] :
          Lined(Kept, Audio, ChainNexts, ChainPrevs, n, q)
    BY <1>1 DEF ChainLined
  <1>3. PICK q \in [1..n -> Ids] : Lined(Kept, Audio, ChainNexts, ChainPrevs, n, q)
    BY <1>2
  <1>4. Audio \in Kept \cup {NULL}
    <2>1. n # 0 => 1 \in 1..n /\ q[1] \in Ids
      OBVIOUS
    <2> QED
      BY <1>3, <2>1 DEF Lined
  <1>5. /\ DOMAIN node' = Ids
        /\ node'[i] = [stream |-> s, prev |-> NULL, next |-> Audio] /\ node'[i] \in Nodes
        /\ \A j \in Kept : /\ node'[j] \in Nodes /\ node'[j].stream = node[j].stream
                           /\ node'[j].next = node[j].next
                           /\ \/ node'[j].prev = node[j].prev
                              \/ j = Audio /\ node'[j].prev = i
        /\ \A j \in Ids : j \notin Kept /\ j # i => node'[j] = NULL
    <2>1. node' = [j \in Ids |-> IF j = i THEN [stream |-> s, prev |-> NULL, next |-> Audio]
                            ELSE IF j = Audio THEN [node[j] EXCEPT !.prev = i] ELSE node[j]]
      BY DEF Make
    <2>2. [stream |-> s, prev |-> NULL, next |-> Audio] \in Nodes
      BY <1>1 DEF Nodes, Pointer
    <2>3. DOMAIN node' = Ids /\ node'[i] = [stream |-> s, prev |-> NULL, next |-> Audio]
      BY <2>1
    <2>4. ASSUME NEW j \in Kept
          PROVE  /\ node'[j] \in Nodes /\ node'[j].stream = node[j].stream
                 /\ node'[j].next = node[j].next
                 /\ \/ node'[j].prev = node[j].prev
                    \/ j = Audio /\ node'[j].prev = i
      <3>1. j \in Ids /\ j # i /\ node[j] \in Nodes /\ i \in Pointer
        BY NodeFields DEF Pointer
      <3>2. node'[j] = IF j = Audio THEN [node[j] EXCEPT !.prev = i] ELSE node[j]
        BY <2>1, <3>1
      <3> QED
        BY <3>1, <3>2 DEF Nodes
    <2>5. ASSUME NEW j \in Ids, j \notin Kept, j # i
          PROVE  node'[j] = NULL
      <3>1. j # Audio /\ node[j] = NULL
        BY <1>1, <1>4, <2>5 DEF Kept
      <3> QED
        BY <2>1, <2>5, <3>1
    <2> QED
      BY <2>2, <2>3, <2>4, <2>5
  <1>6. Kept' = Kept \cup {i}
    <2>1. \A j \in Kept \cup {i} : j \in Ids /\ node'[j] # NULL
      BY <1>1, <1>5, ReceiverAssumption
    <2> QED
      BY <1>5, <2>1 DEF Kept
  <1>7. node' \in [Ids -> {NULL} \cup Nodes]
    <2>1. node' = [j \in Ids |-> node'[j]]
      BY <1>5 DEF Make
    <2>2. \A j \in Ids : node'[j] \in {NULL} \cup Nodes
      BY <1>5
    <2> QED
      BY <2>1, <2>2
  <1>8. ChainLined'
    <2>1. PutFirst(Kept, Audio, ChainNexts, ChainPrevs, i, ChainNexts', ChainPrevs')
      BY <1>5, <1>6 DEF PutFirst, ChainNexts, ChainPrevs
    <2>2. \E q2 \in [1..n + 1 -> Ids] :
            Lined(Kept \cup {i}, i, ChainNexts', ChainPrevs', n + 1, q2)
      BY <1>1, <1>3, <2>1, LinedFront
    <2>3. PICK q2 \in [1..n + 1 -> Ids] : Lined(Kept', Audio', ChainNexts', ChainPrevs', n + 1, q2)
      BY <1>1, <1>6, <2>2
    <2>4. Lined(Kept, Audio, ChainNexts, ChainPrevs, n + 1, q2)'
      BY <2>3 DEF Lined
    <2>5. n + 1 \in Nat
      OBVIOUS
    <2> QED
      BY <2>4, <2>5 DEF ChainLined
  <1>9. OneEach'
    <2>1. \A j \in Kept : node[j].stream # s
      BY KnownIs
    <2> QED
      BY <1>1, <1>5, <1>6, <2>1 DEF OneEach
  <1>10. Audio' \in Pointer
    BY <1>1 DEF Pointer
  <1> QED
    BY <1>5, <1>6, <1>7, <1>8, <1>9, <1>10 DEF ChainInv

\* The pointers of a session are those of its place on the list.
LEMMA ChainAt ==
  ASSUME ChainInv, NEW n \in Nat, NEW q \in [1..n -> Ids],
         Lined(Kept, Audio, ChainNexts, ChainPrevs, n, q), NEW p \in 1..n
  PROVE  /\ q[p] \in Kept /\ node[q[p]].next = ChainNexts[q[p]]
         /\ node[q[p]].prev = ChainPrevs[q[p]]
         /\ node[q[p]].next = IF p < n THEN q[p + 1] ELSE NULL
         /\ node[q[p]].prev = NULL \/ (p > 1 /\ node[q[p]].prev = q[p - 1])
         /\ node[q[p]].next = node[q[p]].prev => node[q[p]].next = NULL
         /\ node[q[p]].next \in Kept \cup {NULL} /\ node[q[p]].prev \in Kept \cup {NULL}
  <1>1. \A k \in 1..n : q[k] \in Kept
    BY DEF Lined
  <1>2. q[p] \in Kept /\ node[q[p]].next = ChainNexts[q[p]] /\ node[q[p]].prev = ChainPrevs[q[p]]
    BY <1>1 DEF ChainNexts, ChainPrevs
  <1>3. /\ node[q[p]].next = IF p < n THEN q[p + 1] ELSE NULL
        /\ node[q[p]].prev = NULL \/ (p > 1 /\ node[q[p]].prev = q[p - 1])
    BY <1>2 DEF Lined
  <1>4. (p < n => p + 1 \in 1..n) /\ (p > 1 => p - 1 \in 1..n) /\ p + 1 # p - 1
    OBVIOUS
  <1>5. p < n /\ p > 1 => q[p + 1] # q[p - 1]
    BY <1>4 DEF Lined
  <1> QED
    BY <1>1, <1>2, <1>3, <1>4, <1>5

\* Nothing else moves them.
LEMMA ChainQuiet ==
  ASSUME ChainInv, UNCHANGED listVars
  PROVE  ChainInv' /\ Kept' = Kept
  <1>1. Audio' = Audio /\ node' = node
    BY DEF listVars
  <1>2. Kept' = Kept
    BY <1>1 DEF Kept
  <1>3. ChainNexts' = ChainNexts /\ ChainPrevs' = ChainPrevs
    BY <1>1, <1>2 DEF ChainNexts, ChainPrevs
  <1>4. PICK n \in Nat : \E q \in [1..n -> Ids] :
          Lined(Kept, Audio, ChainNexts, ChainPrevs, n, q)
    BY DEF ChainInv, ChainLined
  <1>5. PICK q \in [1..n -> Ids] : Lined(Kept, Audio, ChainNexts, ChainPrevs, n, q)
    BY <1>4
  <1>6. Lined(Kept, Audio, ChainNexts, ChainPrevs, n, q)'
    BY <1>1, <1>2, <1>3, <1>5 DEF Lined
  <1>7. ChainLined'
    BY <1>6 DEF ChainLined
  <1>8. OneEach'
    BY <1>1, <1>2 DEF ChainInv, OneEach
  <1> QED
    BY <1>1, <1>2, <1>7, <1>8 DEF ChainInv

\* A session that is looked up moves to the front.
LEMMA LookUpKeeps ==
  ASSUME ChainInv, NEW i \in Kept, LookUp(i)
  PROVE  ChainInv' /\ Kept' = Kept /\ \A j \in Kept : node'[j].stream = node[j].stream
  <1>1. /\ Audio \in Pointer /\ node \in [Ids -> {NULL} \cup Nodes] /\ ChainLined /\ OneEach
        /\ Kept \in SUBSET Ids /\ NULL \notin Ids /\ i \in Ids /\ node[i] \in Nodes
        /\ node[i].prev \in Pointer /\ node[i].next \in Pointer /\ node[i].stream \in Streams
    BY Places, NodeFields DEF ChainInv, Kept
  <1>2. CASE node[i].prev = NULL
    <2>1. UNCHANGED listVars
      BY <1>2 DEF LookUp
    <2>2. node' = node
      BY <2>1 DEF listVars
    <2> QED
      BY <2>1, <2>2, ChainQuiet
  <1>3. CASE node[i].prev # NULL
    <2>1. node' = Moved(i) /\ Audio' = i
      BY <1>3 DEF LookUp
    <2>2. PICK n \in Nat : \E q \in [1..n -> Ids] :
            Lined(Kept, Audio, ChainNexts, ChainPrevs, n, q)
      BY <1>1 DEF ChainLined
    <2>3. PICK q \in [1..n -> Ids] : Lined(Kept, Audio, ChainNexts, ChainPrevs, n, q)
      BY <2>2
    <2>4. PICK p \in 1..n : q[p] = i
      BY <1>1, <2>3, LinedAt
    <2>5. /\ node[i].next = ChainNexts[i] /\ node[i].prev = ChainPrevs[i]
          /\ p > 1 /\ node[i].prev = q[p - 1]
          /\ node[i].next = node[i].prev => node[i].next = NULL
          /\ node[i].next \in Kept \cup {NULL} /\ node[i].prev \in Kept
      BY <1>3, <2>3, <2>4, ChainAt
    <2>6. Audio \in Kept \cup {NULL}
      <3>1. n # 0 => 1 \in 1..n /\ q[1] \in Ids
        OBVIOUS
      <3> QED
        BY <2>3, <3>1 DEF Lined
    <2>7. /\ DOMAIN node' = Ids
          /\ node'[i] = [node[i] EXCEPT !.prev = NULL, !.next = Audio] /\ node'[i] \in Nodes
          /\ node'[i].next = Audio /\ node'[i].prev = NULL /\ node'[i].stream = node[i].stream
          /\ \A j \in Kept \ {i} :
               /\ node'[j] \in Nodes /\ node'[j].stream = node[j].stream
               /\ node'[j].next = IF j = node[i].prev THEN node[i].next ELSE node[j].next
               /\ node'[j].prev = IF j = node[i].next THEN node[i].prev ELSE node[j].prev
          /\ \A j \in Ids : j \notin Kept => node'[j] = NULL
      <3>1. node' = [j \in Ids |-> IF j = i THEN [node[i] EXCEPT !.prev = NULL, !.next = Audio]
                     ELSE IF j = node[i].next THEN [node[j] EXCEPT !.prev = node[i].prev]
                     ELSE IF j = node[i].prev THEN [node[j] EXCEPT !.next = node[i].next]
                     ELSE node[j]]
        BY <2>1 DEF Moved
      <3>2. DOMAIN node' = Ids /\ node'[i] = [node[i] EXCEPT !.prev = NULL, !.next = Audio]
        BY <1>1, <3>1
      <3>3. /\ node'[i] \in Nodes /\ node'[i].next = Audio /\ node'[i].prev = NULL
            /\ node'[i].stream = node[i].stream
        BY <1>1, <3>2 DEF Nodes, Pointer
      <3>4. ASSUME NEW j \in Kept \ {i}
            PROVE  /\ node'[j] \in Nodes /\ node'[j].stream = node[j].stream
                   /\ node'[j].next = IF j = node[i].prev THEN node[i].next ELSE node[j].next
                   /\ node'[j].prev = IF j = node[i].next THEN node[i].prev ELSE node[j].prev
        <4>1. j \in Ids /\ j # i /\ node[j] \in Nodes /\ j # NULL
          BY NodeFields
        <4>2. CASE j = node[i].next
          <5>1. node'[j] = [node[j] EXCEPT !.prev = node[i].prev] /\ j # node[i].prev
            BY <2>5, <3>1, <4>1, <4>2
          <5> QED
            BY <1>1, <4>1, <4>2, <5>1 DEF Nodes
        <4>3. CASE j # node[i].next /\ j = node[i].prev
          <5>1. node'[j] = [node[j] EXCEPT !.next = node[i].next]
            BY <3>1, <4>1, <4>3
          <5> QED
            BY <1>1, <4>1, <4>3, <5>1 DEF Nodes
        <4>4. CASE j # node[i].next /\ j # node[i].prev
          <5>1. node'[j] = node[j]
            BY <3>1, <4>1, <4>4
          <5> QED
            BY <4>1, <4>4, <5>1
        <4> QED
          BY <4>2, <4>3, <4>4
      <3>5. ASSUME NEW j \in Ids, j \notin Kept
            PROVE  node'[j] = NULL
        <4>1. j # i /\ j # node[i].next /\ j # node[i].prev /\ node[j] = NULL
          BY <1>1, <2>5, <3>5 DEF Kept
        <4> QED
          BY <3>1, <4>1
      <3> QED
        BY <3>2, <3>3, <3>4, <3>5
    <2>8. Kept' = Kept
      <3>1. \A j \in Kept : j \in Ids /\ node'[j] # NULL
        BY <1>1, <2>7, ReceiverAssumption
      <3> QED
        BY <2>7, <3>1 DEF Kept
    <2>9. node' \in [Ids -> {NULL} \cup Nodes]
      <3>1. node' = [j \in Ids |-> node'[j]]
        BY <2>1 DEF Moved
      <3>2. \A j \in Ids : node'[j] \in {NULL} \cup Nodes
        BY <2>7
      <3> QED
        BY <3>1, <3>2
    <2>10. ChainLined'
      <3> DEFINE rest == Kept \ {i}
                 next == [j \in rest |-> node'[j].next]
                 prev == [j \in rest |-> node'[j].prev]
      <3>1. TakenOut(Kept, ChainNexts, ChainPrevs, n, q, p, next, prev)
        BY <2>4, <2>5, <2>7 DEF TakenOut, ChainNexts, ChainPrevs
      <3>2. Audio = IF ChainPrevs[q[p]] = NULL THEN ChainNexts[q[p]] ELSE Audio
        BY <1>3, <2>4, <2>5
      <3>3. PutFirst(rest, Audio, next, prev, i, ChainNexts', ChainPrevs')
        BY <1>1, <2>7, <2>8 DEF PutFirst, ChainNexts, ChainPrevs
      <3> HIDE DEF next, prev
      <3>4. \E q2 \in [1..n - 1 -> Ids] :
              /\ Lined(Kept \ {q[p]}, Audio, next, prev, n - 1, q2)
              /\ BothWays(ChainPrevs, n, q) => BothWays(prev, n - 1, q2)
        BY <1>1, <2>3, <3>1, <3>2, LinedWithout
      <3>5. PICK q2 \in [1..n - 1 -> Ids] : Lined(rest, Audio, next, prev, n - 1, q2)
        BY <2>4, <3>4
      <3>6. n - 1 \in Nat /\ rest \in SUBSET Ids /\ rest \cup {i} = Kept /\ (n - 1) + 1 = n
        BY <1>1, <2>4
      <3>7. \E q3 \in [1..(n - 1) + 1 -> Ids] :
              Lined(rest \cup {i}, i, ChainNexts', ChainPrevs', (n - 1) + 1, q3)
        <4> HIDE DEF rest
        <4> QED
          BY <3>3, <3>5, <3>6, LinedFront
      <3>8. PICK q3 \in [1..n -> Ids] : Lined(Kept', Audio', ChainNexts', ChainPrevs', n, q3)
        BY <2>1, <2>8, <3>6, <3>7
      <3>9. Lined(Kept, Audio, ChainNexts, ChainPrevs, n, q3)'
        BY <3>8 DEF Lined
      <3> QED
        BY <3>9 DEF ChainLined
    <2>11. \A j \in Kept : node'[j].stream = node[j].stream
      BY <2>7
    <2>12. OneEach'
      BY <1>1, <2>8, <2>11 DEF OneEach
    <2>13. Audio' \in Pointer
      BY <1>1, <2>1 DEF Pointer
    <2> QED
      BY <2>8, <2>9, <2>10, <2>11, <2>12, <2>13 DEF ChainInv
  <1> QED
    BY <1>2, <1>3

\* closedown frees the head.
LEMMA CloseHeadKeeps ==
  ASSUME ChainInv, Audio \in Kept, CloseHead
  PROVE  ChainInv'
  <1> DEFINE i == Audio
  <1>1. /\ node \in [Ids -> {NULL} \cup Nodes] /\ ChainLined /\ OneEach
        /\ Kept \in SUBSET Ids /\ NULL \notin Ids /\ i \in Ids /\ node[i] \in Nodes
        /\ node[i].prev \in Pointer /\ node[i].next \in Pointer /\ i \in Kept
    BY Places, NodeFields DEF ChainInv, Kept
  <1>2. PICK n \in Nat : \E q \in [1..n -> Ids] :
          Lined(Kept, Audio, ChainNexts, ChainPrevs, n, q)
    BY <1>1 DEF ChainLined
  <1>3. PICK q \in [1..n -> Ids] : Lined(Kept, Audio, ChainNexts, ChainPrevs, n, q)
    BY <1>2
  <1>4. 1 \in 1..n /\ q[1] = i
    BY <1>1, <1>3 DEF Lined
  <1>5. /\ node[i].next = ChainNexts[i] /\ node[i].prev = ChainPrevs[i]
        /\ node[i].prev = NULL /\ node[i].next \in Kept \cup {NULL}
    <2>1. 1 \in 1..n /\ ~(1 > 1)
      BY <1>4
    <2> QED
      BY <1>3, <1>4, <2>1, ChainAt
  <1>6. Audio' = node[i].next
    BY <1>5 DEF CloseHead
  <1>7. node' = [j \in Ids |-> IF j = i THEN NULL
                            ELSE IF j = node[i].next THEN [node[j] EXCEPT !.prev = NULL]
                            ELSE node[j]]
    <2>1. node' = [j \in Ids |-> IF j = i THEN NULL
                            ELSE IF j = node[i].next THEN [node[j] EXCEPT !.prev = node[i].prev]
                            ELSE IF j = node[i].prev THEN [node[j] EXCEPT !.next = node[i].next]
                            ELSE node[j]]
      BY DEF CloseHead
    <2>2. \A j \in Ids : j # node[i].prev
      BY <1>1, <1>5
    <2> QED
      BY <1>5, <2>1, <2>2
  <1> HIDE DEF i
  <1>8. /\ DOMAIN node' = Ids /\ node'[i] = NULL
        /\ \A j \in Kept \ {i} :
             /\ j \in Ids /\ node'[j] \in Nodes /\ node'[j].stream = node[j].stream
             /\ node'[j].next = node[j].next
             /\ node'[j].prev = IF j = node[i].next THEN NULL ELSE node[j].prev
        /\ \A j \in Ids : j \notin Kept => node'[j] = NULL
    <2>1. DOMAIN node' = Ids /\ node'[i] = NULL
      BY <1>1, <1>7
    <2>2. ASSUME NEW j \in Kept \ {i}
          PROVE  /\ j \in Ids /\ node'[j] \in Nodes /\ node'[j].stream = node[j].stream
                 /\ node'[j].next = node[j].next
                 /\ node'[j].prev = IF j = node[i].next THEN NULL ELSE node[j].prev
      <3>1. j \in Ids /\ j # i /\ node[j] \in Nodes /\ NULL \in Pointer
        BY NodeFields DEF Pointer
      <3>2. node'[j] = IF j = node[i].next THEN [node[j] EXCEPT !.prev = NULL] ELSE node[j]
        BY <1>7, <3>1
      <3> QED
        BY <3>1, <3>2 DEF Nodes
    <2>3. ASSUME NEW j \in Ids, j \notin Kept
          PROVE  node'[j] = NULL
      <3>1. j # i /\ j # node[i].next /\ node[j] = NULL
        BY <1>1, <1>5, <2>3 DEF Kept
      <3> QED
        BY <1>7, <3>1
    <2> QED
      BY <2>1, <2>2, <2>3
  <1>9. Kept' = Kept \ {i}
    <2>1. \A j \in Kept \ {i} : j \in Ids /\ node'[j] # NULL
      BY <1>8, ReceiverAssumption
    <2> QED
      BY <1>8, <2>1 DEF Kept
  <1>10. node' \in [Ids -> {NULL} \cup Nodes]
    <2>1. node' = [j \in Ids |-> node'[j]]
      BY <1>7
    <2>2. \A j \in Ids : node'[j] \in {NULL} \cup Nodes
      BY <1>8
    <2> QED
      BY <2>1, <2>2
  <1>11. ChainLined'
    <2>1. TakenOut(Kept, ChainNexts, ChainPrevs, n, q, 1, ChainNexts', ChainPrevs')
      <3>1. \A j \in Kept \ {i} :
              /\ ChainNexts'[j] = ChainNexts[j]
              /\ ChainPrevs'[j] = IF j = ChainNexts[i] THEN ChainPrevs[i] ELSE ChainPrevs[j]
        BY <1>5, <1>8, <1>9 DEF ChainNexts, ChainPrevs
      <3>2. \A j \in Kept : j # ChainPrevs[i]
        BY <1>1, <1>5
      <3> QED
        BY <1>4, <3>1, <3>2 DEF TakenOut
    <2>2. Audio' = IF ChainPrevs[q[1]] = NULL THEN ChainNexts[q[1]] ELSE Audio
      BY <1>4, <1>5, <1>6
    <2>3. \E q2 \in [1..n - 1 -> Ids] :
            /\ Lined(Kept \ {q[1]}, Audio', ChainNexts', ChainPrevs', n - 1, q2)
            /\ BothWays(ChainPrevs, n, q) => BothWays(ChainPrevs', n - 1, q2)
      BY <1>1, <1>3, <2>1, <2>2, LinedWithout
    <2>4. PICK q2 \in [1..n - 1 -> Ids] :
            Lined(Kept', Audio', ChainNexts', ChainPrevs', n - 1, q2)
      BY <1>4, <1>9, <2>3
    <2>5. Lined(Kept, Audio, ChainNexts, ChainPrevs, n - 1, q2)'
      BY <2>4 DEF Lined
    <2>6. n - 1 \in Nat
      BY <1>4
    <2> QED
      BY <2>5, <2>6 DEF ChainLined
  <1>12. OneEach'
    BY <1>1, <1>8, <1>9 DEF OneEach
  <1>13. Audio' \in Pointer
    BY <1>1, <1>6
  <1> QED
    BY <1>10, <1>11, <1>12, <1>13 DEF ChainInv

\* In such a state no session is lost and no pointer is wrong.
LEMMA ChainSound ==
  ASSUME ChainInv
  PROVE  ChainHolds
  <1>1. Listed = Kept /\ Chain[Cardinality(Ids)] = NULL
    BY ChainMeets
  <1>2. PICK n \in Nat : \E q \in [1..n -> Ids] :
          Lined(Kept, Audio, ChainNexts, ChainPrevs, n, q)
    BY DEF ChainInv, ChainLined
  <1>3. PICK q \in [1..n -> Ids] : Lined(Kept, Audio, ChainNexts, ChainPrevs, n, q)
    BY <1>2
  <1>4. ASSUME NEW i \in Kept, node[i].prev # NULL
        PROVE  node[node[i].prev].next = i
    <2>1. Kept \in SUBSET Ids
      BY DEF Kept
    <2>2. PICK p \in 1..n : q[p] = i
      BY <1>3, <2>1, LinedAt
    <2>3. p > 1 /\ node[i].prev = q[p - 1]
      BY <1>3, <1>4, <2>2, ChainAt
    <2>4. p - 1 \in 1..n /\ p - 1 < n /\ (p - 1) + 1 = p
      BY <2>3
    <2>5. node[q[p - 1]].next = q[(p - 1) + 1]
      BY <1>3, <2>4, ChainAt
    <2> QED
      BY <2>2, <2>3, <2>4, <2>5
  <1>5. \A i, j \in Kept : node[i].stream = node[j].stream => i = j
    BY DEF ChainInv, OneEach
  <1> QED
    BY <1>1, <1>4, <1>5 DEF ChainHolds
-----------------------------------------------------------------------------
(* pcmcat writes one stream, in order *)

\* The constants of the other receivers.
LEMMA CatConstants ==
  /\ SeqMod \in Nat \ {0} /\ TimeMod \in Nat \ {0} /\ MaxDelay \in Nat /\ MaxLost \in Nat
  /\ MaxArrivals \in Nat /\ MaxArrivals * (MaxLost + 1) \in Nat
  /\ 2 * (MaxArrivals * (MaxLost + 1) + MaxDelay) < SeqMod /\ SeqMod <= TimeMod
  BY ReceiverAssumption, RtpStateAssumption

\* Products grow with their factors.
LEMMA Monotone ==
  ASSUME NEW a \in Nat, NEW b \in Nat, NEW m \in Nat, a <= b
  PROVE  a * m \in Nat /\ b * m \in Nat /\ a * m <= b * m
  <1>1. PICK d \in Nat : b = a + d
    <2>1. b - a \in Nat /\ b = a + (b - a)
      OBVIOUS
    <2> QED
      BY <2>1
  <1>2. a * m \in Nat /\ d * m \in Nat /\ (a + d) * m = a * m + d * m
    OBVIOUS
  <1> QED
    BY <1>1, <1>2

\* A stream's fields.
LEMMA StreamFields ==
  ASSUME NEW s \in Streams
  PROVE  s.ssrc \in Nat
  BY SessionAssumption

\* What pcmcat takes the header of packet n for, in a state that is not open or that
\* has had packet m.
LEMMA CatHeaderIs ==
  ASSUME NEW s \in Streams, NEW n \in Nat
  PROVE  /\ CatHeader(s, n) \in Headers(s.ssrc)
         /\ CatHeader(s, n).seq = (SeqMod - 2 + n) % SeqMod
         /\ CatHeader(s, n).timestamp = n % TimeMod
         /\ (CatHeader(s, n).seq + 1) % SeqMod = (SeqMod - 1 + n) % SeqMod
         /\ (CatHeader(s, n).timestamp + 0) % TimeMod = n % TimeMod
  <1>1. SeqMod \in Nat \ {0} /\ TimeMod \in Nat \ {0}
    BY CatConstants
  <1> DEFINE a == SeqMod - 2 + n
  <1>2. a \in Int /\ a + 1 = SeqMod - 1 + n
    BY <1>1
  <1>3. a % SeqMod \in 0..SeqMod - 1 /\ ((a % SeqMod) + 1) % SeqMod = (a + 1) % SeqMod
    <2> HIDE DEF a
    <2>1. a % SeqMod \in 0..SeqMod - 1
      BY <1>1, <1>2, ModRange
    <2>2. 1 \in Int
      OBVIOUS
    <2>3. ((a % SeqMod) + 1) % SeqMod = (a + 1) % SeqMod
      BY <1>1, <1>2, <2>2, ModAdd
    <2> QED
      BY <2>1, <2>3
  <1>4. n \in Int /\ 0 \in Int /\ n + 0 = n
    OBVIOUS
  <1>5. n % TimeMod \in 0..TimeMod - 1 /\ ((n % TimeMod) + 0) % TimeMod = (n + 0) % TimeMod
    <2>1. n % TimeMod \in 0..TimeMod - 1
      BY <1>1, <1>4, ModRange
    <2>2. ((n % TimeMod) + 0) % TimeMod = (n + 0) % TimeMod
      BY <1>1, <1>4, ModAdd
    <2> QED
      BY <2>1, <2>2
  <1>6. /\ CatHeader(s, n).ssrc = s.ssrc /\ CatHeader(s, n).seq = a % SeqMod
        /\ CatHeader(s, n).timestamp = n % TimeMod
        /\ CatHeader(s, n) = [ssrc |-> s.ssrc, seq |-> a % SeqMod, timestamp |-> n % TimeMod]
    BY DEF CatHeader
  <1> HIDE DEF a
  <1>7. CatHeader(s, n) \in Headers(s.ssrc)
    BY <1>3, <1>5, <1>6 DEF Headers
  <1> QED
    BY <1>2, <1>3, <1>4, <1>5, <1>6, <1>7 DEF a

\* A packet that may arrive now: not too late, not too far ahead.
Arriving(s, n) == n \in Nat \ {0} /\ top[s] - MaxDelay <= n /\ n <= top[s] + MaxLost + 1

\* What arrives while there are packets left is within the bound, and so are the
\* tops after it.
LEMMA Bounded ==
  ASSUME CatInv, arrivals \in 0..MaxArrivals, arrivals < MaxArrivals, NEW s \in Streams, NEW n,
         Arriving(s, n), arrivals' = arrivals + 1,
         top' = [top EXCEPT ![s] = IF n > @ THEN n ELSE @]
  PROVE  /\ top' \in [Streams -> Nat] /\ TopBounded' /\ top[s] \in Nat /\ top'[s] \in Nat
         /\ n <= MaxArrivals * (MaxLost + 1) /\ 1 <= MaxArrivals * (MaxLost + 1)
         /\ n <= top'[s] /\ top[s] <= top'[s] /\ top[s] <= MaxArrivals * (MaxLost + 1)
  <1>1. /\ top \in [Streams -> Nat] /\ top[s] \in Nat /\ n \in Nat /\ n # 0 /\ MaxLost \in Nat
        /\ arrivals \in Nat /\ arrivals + 1 \in Nat /\ MaxArrivals \in Nat
        /\ arrivals + 1 <= MaxArrivals /\ MaxLost + 1 \in Nat /\ n <= top[s] + MaxLost + 1
    BY CatConstants DEF CatInv, Arriving
  <1>2. /\ arrivals * (MaxLost + 1) \in Nat /\ (arrivals + 1) * (MaxLost + 1) \in Nat
        /\ (arrivals + 1) * (MaxLost + 1) = arrivals * (MaxLost + 1) + (MaxLost + 1)
    BY <1>1
  <1>3. (arrivals + 1) * (MaxLost + 1) <= MaxArrivals * (MaxLost + 1)
        /\ MaxArrivals * (MaxLost + 1) \in Nat
    BY <1>1, Monotone
  <1>4. PICK now \in Nat : now = arrivals * (MaxLost + 1)
    BY <1>2
  <1>5. PICK then \in Nat : then = (arrivals + 1) * (MaxLost + 1)
    BY <1>2
  <1>6. PICK most \in Nat : most = MaxArrivals * (MaxLost + 1)
    BY <1>3
  <1>7. then = now + (MaxLost + 1) /\ then <= most
    BY <1>2, <1>3, <1>4, <1>5, <1>6
  <1>8. \A t \in Streams : top[t] \in Nat /\ top[t] <= now
    BY <1>1, <1>4 DEF CatInv, TopBounded
  <1>9. top' \in [Streams -> Nat] /\ top'[s] = IF n > top[s] THEN n ELSE top[s]
    BY <1>1
  <1>10. \A t \in Streams \ {s} : top'[t] = top[t]
    BY <1>1
  <1>11. \A t \in Streams : top'[t] <= then
    BY <1>1, <1>7, <1>8, <1>9, <1>10
  <1>12. TopBounded'
    BY <1>5, <1>11 DEF TopBounded
  <1>13. top[s] <= now /\ n <= then /\ 1 <= then /\ n <= most /\ 1 <= most /\ top[s] <= most
    BY <1>1, <1>7, <1>8
  <1> QED
    BY <1>1, <1>6, <1>9, <1>12, <1>13

\* rtp_process accepts exactly what is ahead of packet m, the last it accepted.
LEMMA CatGood ==
  ASSUME NEW s \in Streams, NEW n \in Nat, NEW m \in Nat, NEW most \in Nat,
         catRtp \in RtpStates({s.ssrc}), catRtp.init, catRtp.ssrc = s.ssrc,
         catRtp.seq = (SeqMod - 1 + m) % SeqMod, catRtp.timestamp = m % TimeMod,
         n <= most, 1 <= most, m - MaxDelay <= n, 2 * (most + MaxDelay) < SeqMod
  PROVE  /\ Meant(catRtp, CatHeader(s, n), s.ssrc)
         /\ n <= m => OldSequence(catRtp, CatHeader(s, n)) /\ ~Good(catRtp, CatHeader(s, n))
         /\ n > m => Good(catRtp, CatHeader(s, n))
  <1>1. SeqMod \in Nat \ {0} /\ TimeMod \in Nat \ {0} /\ SeqMod <= TimeMod /\ MaxDelay \in Nat
    BY CatConstants
  <1> DEFINE h == CatHeader(s, n)
  <1>2. Meant(catRtp, h, s.ssrc)
    BY StreamFields, CatHeaderIs DEF Meant
  <1>3. /\ Opened(catRtp, h).seq = (SeqMod - 1 + m) % SeqMod
        /\ Opened(catRtp, h).timestamp = m % TimeMod
        /\ h.seq = (SeqMod - 2 + n) % SeqMod /\ h.timestamp = n % TimeMod
    <2>1. h.seq = (SeqMod - 2 + n) % SeqMod /\ h.timestamp = n % TimeMod
      BY CatHeaderIs
    <2> HIDE DEF h
    <2>2. Opened(catRtp, h).seq = catRtp.seq /\ Opened(catRtp, h).timestamp = catRtp.timestamp
      BY <1>2, OpenedType
    <2> QED
      BY <2>1, <2>2
  <1>4. SeqStep(catRtp, h) = n - m - 1
    <2> DEFINE a == SeqMod - 2 + n
               b == SeqMod - 1 + m
    <2>1. a \in Int /\ b \in Int /\ a - b = n - m - 1
      BY <1>1
    <2>2. SeqStep(catRtp, h) = Signed((a % SeqMod) - (b % SeqMod), SeqMod)
      BY <1>3 DEF SeqStep
    <2> HIDE DEF a, b
    <2>3. SeqStep(catRtp, h) = SignedOf((a - b) % SeqMod, SeqMod)
      BY <1>1, <2>1, <2>2, SignedStep
    <2>4. a - b \in Int /\ -SeqMod <= 2 * (a - b) /\ 2 * (a - b) < SeqMod
      BY <1>1, <2>1
    <2>5. SignedOf((a - b) % SeqMod, SeqMod) = a - b
      BY <1>1, <2>4, SignedExact
    <2> QED
      BY <2>1, <2>3, <2>5
  <1>5. TimeStep(catRtp, h) = SignedOf((n - m) % TimeMod, TimeMod)
    <2>1. n \in Int /\ m \in Int
      OBVIOUS
    <2>2. TimeStep(catRtp, h) = Signed((n % TimeMod) - (m % TimeMod), TimeMod)
      BY <1>3 DEF TimeStep
    <2> QED
      BY <1>1, <2>1, <2>2, SignedStep
  <1> HIDE DEF h
  <1>6. n <= m => OldSequence(catRtp, h) /\ ~Good(catRtp, h)
    BY <1>4 DEF OldSequence, Good
  <1>7. ASSUME n > m
        PROVE  Good(catRtp, h)
    <2>1. n - m \in Int /\ -TimeMod <= 2 * (n - m) /\ 2 * (n - m) < TimeMod
      BY <1>1, <1>7
    <2>2. SignedOf((n - m) % TimeMod, TimeMod) = n - m
      BY <1>1, <2>1, SignedExact
    <2>3. TimeStep(catRtp, h) >= 0
      BY <1>5, <1>7, <2>2
    <2>4. ~(SeqStep(catRtp, h) < 0)
      BY <1>4, <1>7
    <2> QED
      BY <2>3, <2>4 DEF Good, OldSequence
  <1> QED
    BY <1>2, <1>6, <1>7 DEF h

\* The state that rtp_process leaves when it has accepted packet n.
LEMMA CatTimed ==
  ASSUME NEW s \in Streams, NEW n \in Nat, Meant(catRtp, CatHeader(s, n), s.ssrc),
         Good(catRtp, CatHeader(s, n)), catRtp' = Processed(catRtp, CatHeader(s, n), 0)
  PROVE  /\ catRtp' \in RtpStates({s.ssrc}) /\ catRtp'.init /\ catRtp'.ssrc = s.ssrc
         /\ catRtp'.seq = (SeqMod - 1 + n) % SeqMod /\ catRtp'.timestamp = n % TimeMod
  <1>1. 0 \in Nat
    OBVIOUS
  <1>2. /\ Processed(catRtp, CatHeader(s, n), 0) \in RtpStates({s.ssrc})
        /\ Processed(catRtp, CatHeader(s, n), 0).init = TRUE
        /\ Processed(catRtp, CatHeader(s, n), 0).ssrc = s.ssrc
        /\ Processed(catRtp, CatHeader(s, n), 0).seq = (CatHeader(s, n).seq + 1) % SeqMod
        /\ Processed(catRtp, CatHeader(s, n), 0).timestamp
             = (CatHeader(s, n).timestamp + 0) % TimeMod
    BY <1>1, ProcessedType, ZenonT(60)
  <1> QED
    BY <1>2, CatHeaderIs

\* What pcmcat has written is in order.
LEMMA CatSound ==
  ASSUME CatInv
  PROVE  CatInOrder
  <1>1. /\ written \in Seq([stream : Streams, n : Nat])
        /\ \A i, j \in DOMAIN written : i < j => written[i].n < written[j].n
    BY DEF CatInv
  <1>2. CASE written = <<>>
    BY <1>2 DEF CatInOrder
  <1>3. CASE written # <<>>
    <2>1. PICK i \in Ids, n \in Nat : CatFollows(node[i].stream, n)
      BY <1>3 DEF CatInv
    <2>2. \A j \in DOMAIN written : written[j].stream = node[i].stream
      BY <2>1 DEF CatFollows
    <2>3. Ssrc = 0 \/ node[i].stream.ssrc = Ssrc
      BY <2>1 DEF CatFollows
    <2> QED
      BY <1>1, <2>2, <2>3 DEF CatInOrder
  <1> QED
    BY <1>2, <1>3
\* A packet that pcmcat receives.
LEMMA CatReceiveKeeps ==
  ASSUME ChainInv, ProgramInv, CatInv, NEW s \in Streams, NEW n \in 1..SeqMod, CatReceive(s, n)
  PROVE  ChainInv' /\ ProgramInv' /\ CatInv'
  <1>1. /\ program = "pcmcat" /\ program' = program /\ arrivals < MaxArrivals
        /\ arrivals' = arrivals + 1 /\ Ssrc' = Ssrc /\ closing' = closing
        /\ top' = [top EXCEPT ![s] = IF n > @ THEN n ELSE @]
        /\ arrivals \in 0..MaxArrivals /\ Ssrc \in Nat
        /\ written \in Seq([stream : Streams, n : Nat])
    BY DEF CatReceive, ProgramInv, CatInv
  <1>2. Arriving(s, n) /\ n \in Nat /\ n # 0
    <2>1. n \in (top[s] - MaxDelay)..(top[s] + MaxLost + 1) /\ n \in Nat /\ n # 0
      BY CatConstants DEF CatReceive
    <2>2. top[s] \in Nat /\ MaxDelay \in Nat /\ MaxLost \in Nat
      BY CatConstants DEF CatInv
    <2> QED
      BY <2>1, <2>2 DEF Arriving
  <1>3. /\ top' \in [Streams -> Nat] /\ TopBounded' /\ top[s] \in Nat /\ top'[s] \in Nat
        /\ n <= MaxArrivals * (MaxLost + 1) /\ 1 <= MaxArrivals * (MaxLost + 1)
        /\ n <= top'[s] /\ top[s] <= top'[s] /\ top[s] <= MaxArrivals * (MaxLost + 1)
    BY <1>1, <1>2, Bounded
  <1>4. ProgramInv'
    BY <1>1, CatConstants DEF ProgramInv
  <1> DEFINE Ready == /\ Ssrc' \in Nat /\ top' \in [Streams -> Nat] /\ TopBounded'
                      /\ program' = "pcmcat"
  <1>5. Ready
    BY <1>1, <1>3
  <1>6. CASE KnownAs(s) = {} /\ Ignored(s)
    <2>1. UNCHANGED listVars /\ catRtp' = catRtp /\ written' = written
      BY <1>6 DEF CatReceive
    <2>2. ChainInv' /\ Kept' = Kept /\ node' = node
      BY <2>1, ChainQuiet DEF listVars
    <2>3. ASSUME NEW i \in Ids, NEW m \in Nat, Kept = {i}, CatFollows(node[i].stream, m)
          PROVE  Kept' = {i} /\ CatFollows(node[i].stream, m)'
      <3>1. i \in Kept
        BY <2>3
      <3>2. node[i].stream \in Streams
        BY <3>1, NodeFields
      <3>3. PICK c \in Streams : c = node[i].stream
        BY <3>2
      <3>4. m \in 1..top'[c]
        <4>1. m \in 1..top[c] /\ top[c] \in Nat /\ top'[c] \in Nat
          BY <1>3, <2>3, <3>3 DEF CatFollows, CatInv
        <4>2. top[c] <= top'[c]
          BY <1>1, <1>3, <4>1 DEF CatInv
        <4> QED
          BY <4>1, <4>2
      <3> QED
        BY <1>1, <2>1, <2>2, <2>3, <3>3, <3>4 DEF CatFollows
    <2>4. \/ Kept' = {} /\ catRtp' = Unopened /\ written' = <<>>
          \/ \E i \in Ids, m \in Nat : Kept' = {i} /\ CatFollows(node[i].stream, m)'
      BY <1>1, <2>1, <2>2, <2>3 DEF CatInv
    <2>5. CatInv'
      BY <1>1, <1>5, <2>1, <2>4 DEF CatInv
    <2> QED
      BY <1>4, <2>2, <2>5
  <1>7. CASE KnownAs(s) = {} /\ ~Ignored(s)
    <2>1. /\ Kept = {} /\ (Ssrc = 0 \/ s.ssrc = Ssrc) /\ Make(FreePlace, s)
          /\ catRtp' = Processed(catRtp, CatHeader(s, n), 0)
          /\ written' = IF Good(catRtp, CatHeader(s, n))
                        THEN Append(written, [stream |-> s, n |-> n]) ELSE written
      BY <1>7 DEF CatReceive, Ignored
    <2>2. FreePlace \in Ids \ Kept
      BY <2>1, SessionAssumption DEF FreePlace
    <2>3. PICK i \in Ids \ Kept : i = FreePlace
      BY <2>2
    <2>4. ChainInv' /\ Kept' = {i} /\ node'[i].stream = s
      BY <1>7, <2>1, <2>3, MakeKeeps
    <2>5. catRtp = Unopened /\ written = <<>>
      BY <1>1, <2>1 DEF CatInv
    <2>6. Meant(catRtp, CatHeader(s, n), s.ssrc) /\ ~catRtp.init
      <3>1. Unopened \in RtpStates({s.ssrc}) /\ ~Unopened.init
        BY CatConstants DEF Unopened, RtpStates, NoSsrc
      <3> QED
        BY <1>2, <2>5, <3>1, StreamFields, CatHeaderIs DEF Meant
    <2>7. Good(catRtp, CatHeader(s, n))
      <3>1. SeqStep(catRtp, CatHeader(s, n)) = 0 /\ TimeStep(catRtp, CatHeader(s, n)) = 0
        BY <2>6, OpenedType
      <3> QED
        BY <3>1 DEF Good, OldSequence
    <2>8. /\ catRtp' \in RtpStates({s.ssrc}) /\ catRtp'.init /\ catRtp'.ssrc = s.ssrc
          /\ catRtp'.seq = (SeqMod - 1 + n) % SeqMod /\ catRtp'.timestamp = n % TimeMod
      BY <1>2, <2>1, <2>6, <2>7, CatTimed
    <2>9. written' = <<[stream |-> s, n |-> n]>>
      BY <2>1, <2>5, <2>7
    <2>10. /\ written' \in Seq([stream : Streams, n : Nat]) /\ DOMAIN written' = {1}
           /\ written'[1] = [stream |-> s, n |-> n]
      BY <1>2, <2>9
    <2>11. n \in 1..top'[s]
      BY <1>2, <1>3
    <2>12. CatFollows(node[i].stream, n)'
      BY <1>1, <1>2, <2>1, <2>4, <2>8, <2>10, <2>11 DEF CatFollows
    <2>13. \A j, k \in DOMAIN written' : j < k => written'[j].n < written'[k].n
      BY <2>10
    <2>14. CatInv'
      BY <1>1, <1>2, <1>5, <2>3, <2>4, <2>10, <2>12, <2>13 DEF CatInv
    <2> QED
      BY <1>4, <2>4, <2>14
  <1>8. CASE KnownAs(s) # {}
    <2>1. /\ \E i \in KnownAs(s) : LookUp(i)
          /\ catRtp' = Processed(catRtp, CatHeader(s, n), 0)
          /\ written' = IF Good(catRtp, CatHeader(s, n))
                        THEN Append(written, [stream |-> s, n |-> n]) ELSE written
      BY <1>8 DEF CatReceive
    <2>2. PICK i \in Kept : node[i].stream = s /\ LookUp(i)
      BY <2>1, KnownIs
    <2>3. ChainInv' /\ Kept' = Kept /\ node'[i].stream = s
      BY <2>2, LookUpKeeps
    <2>4. i \in Ids /\ Kept # {}
      BY NodeFields
    <2>5. PICK m \in Nat : Kept = {i} /\ CatFollows(s, m)
      <3>1. PICK k \in Ids, m \in Nat : Kept = {k} /\ CatFollows(node[k].stream, m)
        BY <1>1, <2>4 DEF CatInv
      <3>2. k = i
        BY <3>1
      <3> QED
        BY <2>2, <3>1, <3>2
    <2>6. /\ Ssrc = 0 \/ s.ssrc = Ssrc
          /\ m \in 1..top[s]
          /\ catRtp \in RtpStates({s.ssrc}) /\ catRtp.init /\ catRtp.ssrc = s.ssrc
          /\ catRtp.seq = (SeqMod - 1 + m) % SeqMod /\ catRtp.timestamp = m % TimeMod
          /\ \A j \in DOMAIN written : written[j].stream = s /\ written[j].n <= m
      BY <2>5 DEF CatFollows
    <2>7. PICK most \in Nat : most = MaxArrivals * (MaxLost + 1)
      BY CatConstants
    <2>8. /\ n <= most /\ 1 <= most /\ 2 * (most + MaxDelay) < SeqMod
          /\ m - MaxDelay <= n /\ MaxDelay \in Nat
      <3>1. n <= most /\ 1 <= most /\ 2 * (most + MaxDelay) < SeqMod
        BY <1>3, <2>7, CatConstants
      <3>2. MaxDelay \in Nat /\ top[s] - MaxDelay <= n
        BY <1>2, CatConstants DEF Arriving
      <3> QED
        BY <1>2, <1>3, <2>6, <3>1, <3>2
    <2>9. /\ Meant(catRtp, CatHeader(s, n), s.ssrc)
          /\ n <= m => OldSequence(catRtp, CatHeader(s, n)) /\ ~Good(catRtp, CatHeader(s, n))
          /\ n > m => Good(catRtp, CatHeader(s, n))
      BY <1>2, <2>6, <2>8, CatGood
    <2>10. CASE n <= m
      <3>1. OldSequence(catRtp, CatHeader(s, n)) /\ written' = written
        BY <2>1, <2>9, <2>10
      <3>2. 0 \in Nat
        OBVIOUS
      <3>3. /\ Opened(catRtp, CatHeader(s, n)).seq = catRtp.seq
            /\ Opened(catRtp, CatHeader(s, n)).timestamp = catRtp.timestamp
        <4>1. catRtp.init /\ Meant(catRtp, CatHeader(s, n), s.ssrc)
          BY <2>6, <2>9
        <4> QED
          BY <4>1, OpenedType
      <3>4. /\ catRtp' \in RtpStates({s.ssrc}) /\ catRtp'.init /\ catRtp'.ssrc = s.ssrc
            /\ catRtp'.seq = catRtp.seq /\ catRtp'.timestamp = catRtp.timestamp
        <4>1. PICK h : h = CatHeader(s, n)
          OBVIOUS
        <4>2. Meant(catRtp, h, s.ssrc) /\ OldSequence(catRtp, h)
          BY <2>9, <3>1, <4>1
        <4>3. /\ Processed(catRtp, h, 0) \in RtpStates({s.ssrc})
              /\ Processed(catRtp, h, 0).init = TRUE /\ Processed(catRtp, h, 0).ssrc = s.ssrc
              /\ Processed(catRtp, h, 0).seq = Opened(catRtp, h).seq
              /\ Processed(catRtp, h, 0).timestamp = Opened(catRtp, h).timestamp
          BY <3>2, <4>2, ProcessedType
        <4> QED
          BY <2>1, <3>3, <4>1, <4>3
      <3>5. m \in 1..top'[s]
        BY <1>3, <2>6
      <3>6. CatFollows(node[i].stream, m)'
        BY <1>1, <2>3, <2>6, <3>1, <3>4, <3>5 DEF CatFollows
      <3>7. CatInv'
        BY <1>1, <1>5, <2>3, <2>4, <2>5, <3>1, <3>6 DEF CatInv
      <3> QED
        BY <1>4, <2>3, <3>7
    <2>11. CASE n > m
      <3>1. Good(catRtp, CatHeader(s, n)) /\ written' = Append(written, [stream |-> s, n |-> n])
        BY <2>1, <2>9, <2>11
      <3>2. /\ catRtp' \in RtpStates({s.ssrc}) /\ catRtp'.init /\ catRtp'.ssrc = s.ssrc
            /\ catRtp'.seq = (SeqMod - 1 + n) % SeqMod /\ catRtp'.timestamp = n % TimeMod
        BY <1>2, <2>1, <2>9, <3>1, CatTimed
      <3>3. PICK w \in Seq([stream : Streams, n : Nat]) : w = written
        BY <1>1
      <3>4. /\ written' \in Seq([stream : Streams, n : Nat])
            /\ DOMAIN written' = 1..Len(w) + 1 /\ Len(w) \in Nat /\ DOMAIN w = 1..Len(w)
            /\ written'[Len(w) + 1] = [stream |-> s, n |-> n]
            /\ \A j \in DOMAIN w : written'[j] = written[j] /\ written[j].n \in Nat
        <4>1. PICK e \in [stream : Streams, n : Nat] : e = [stream |-> s, n |-> n]
          BY <1>2
        <4>2. written' = Append(w, e)
          BY <3>1, <3>3, <4>1
        <4>3. /\ written' \in Seq([stream : Streams, n : Nat])
              /\ DOMAIN written' = 1..Len(w) + 1 /\ Len(w) \in Nat /\ DOMAIN w = 1..Len(w)
              /\ written'[Len(w) + 1] = e /\ \A j \in DOMAIN w : written'[j] = w[j]
          BY <4>2
        <4>4. ASSUME NEW j \in DOMAIN w
              PROVE  w[j].n \in Nat
          <5>1. w[j] \in [stream : Streams, n : Nat]
            BY ElementOfSeq, <4>3
          <5> QED
            BY <5>1
        <4> QED
          BY <3>3, <4>1, <4>3, <4>4
      <3>5. \A j \in DOMAIN written' : written'[j].stream = s /\ written'[j].n <= n
        <4>1. ASSUME NEW j \in DOMAIN written'
              PROVE  written'[j].stream = s /\ written'[j].n <= n
          <5>1. j = Len(w) + 1 \/ j \in DOMAIN w
            BY <3>4
          <5>2. j \in DOMAIN w => written[j].stream = s /\ written[j].n <= m
            BY <2>6, <3>3
          <5> QED
            BY <1>2, <2>11, <3>4, <5>1, <5>2
        <4> QED
          BY <4>1
      <3>6. ASSUME NEW j \in DOMAIN written', NEW k \in DOMAIN written', j < k
            PROVE  written'[j].n < written'[k].n
        <4>1. j \in DOMAIN w /\ (k = Len(w) + 1 \/ k \in DOMAIN w)
          BY <3>4, <3>6
        <4>2. written[j].n <= m
          BY <2>6, <3>3, <4>1
        <4>3. CASE k \in DOMAIN w
          <5>1. written[j].n < written[k].n
            BY <3>3, <3>6, <4>1, <4>3 DEF CatInv
          <5>2. written'[j] = written[j] /\ written'[k] = written[k]
            BY <3>4, <4>1, <4>3
          <5> QED
            BY <5>1, <5>2
        <4>4. CASE k = Len(w) + 1
          <5>1. written'[j] = written[j] /\ written[j].n \in Nat /\ written'[k].n = n
            BY <3>4, <4>1, <4>4
          <5> QED
            BY <1>2, <2>11, <4>2, <5>1
        <4> QED
          BY <4>1, <4>3, <4>4
      <3>7. n \in 1..top'[s]
        BY <1>2, <1>3
      <3>8. CatFollows(node[i].stream, n)'
        BY <1>1, <1>2, <2>3, <2>6, <3>2, <3>5, <3>7 DEF CatFollows
      <3>9. CatInv'
        BY <1>1, <1>2, <1>5, <2>3, <2>4, <2>5, <3>4, <3>6, <3>8 DEF CatInv
      <3> QED
        BY <1>4, <2>3, <3>9
    <2> QED
      BY <1>2, <2>10, <2>11
  <1> QED
    BY <1>6, <1>7, <1>8

\* What no packet of pcmcat's changes: its list, if it runs, and what it has.
LEMMA CatQuiet ==
  ASSUME CatInv, ProgramInv, UNCHANGED <<program, Ssrc, catVars>>, arrivals' \in Nat,
         arrivals <= arrivals', program = "pcmcat" => UNCHANGED listVars
  PROVE  CatInv'
  <1>1. /\ program' = program /\ Ssrc' = Ssrc /\ top' = top /\ catRtp' = catRtp
        /\ written' = written /\ arrivals \in Nat
    BY DEF catVars, ProgramInv
  <1>2. TopBounded'
    <2>1. arrivals * (MaxLost + 1) \in Nat /\ arrivals' * (MaxLost + 1) \in Nat
          /\ arrivals * (MaxLost + 1) <= arrivals' * (MaxLost + 1)
      <3>1. MaxLost + 1 \in Nat
        BY CatConstants
      <3>2. PICK later \in Nat : later = arrivals'
        OBVIOUS
      <3>3. arrivals * (MaxLost + 1) \in Nat /\ later * (MaxLost + 1) \in Nat
            /\ arrivals * (MaxLost + 1) <= later * (MaxLost + 1)
        BY <1>1, <3>1, <3>2, Monotone
      <3> QED
        BY <3>2, <3>3
    <2>2. PICK now \in Nat : now = arrivals * (MaxLost + 1)
      BY <2>1
    <2>3. PICK then \in Nat : then = arrivals' * (MaxLost + 1)
      BY <2>1
    <2>4. \A s \in Streams : top[s] \in Nat /\ top[s] <= now
      BY <2>2 DEF CatInv, TopBounded
    <2>5. \A s \in Streams : top'[s] <= then
      BY <1>1, <2>1, <2>2, <2>3, <2>4
    <2> QED
      BY <2>3, <2>5 DEF TopBounded
  <1>3. CASE program # "pcmcat"
    BY <1>1, <1>2, <1>3 DEF CatInv
  <1>4. CASE program = "pcmcat"
    <2>1. node' = node /\ Kept' = Kept
      BY <1>4 DEF listVars, Kept
    <2>2. \A i \in Ids, n \in Nat : CatFollows(node[i].stream, n)
                                      => CatFollows(node[i].stream, n)'
      BY <1>1, <2>1 DEF CatFollows
    <2>3. \/ Kept' = {} /\ catRtp' = Unopened /\ written' = <<>>
          \/ \E i \in Ids, n \in Nat : Kept' = {i} /\ CatFollows(node[i].stream, n)'
      BY <1>1, <1>4, <2>1, <2>2 DEF CatInv
    <2> QED
      BY <1>1, <1>2, <1>4, <2>3 DEF CatInv
  <1> QED
    BY <1>3, <1>4
-----------------------------------------------------------------------------
(* The receivers together *)

\* A packet that opus receives.
LEMMA OpusReceiveKeeps ==
  ASSUME ReceiversInv, NEW s \in Streams, OpusReceive(s)
  PROVE  ReceiversInv'
  <1>1. /\ program = "opus" /\ arrivals < MaxArrivals /\ arrivals' = arrivals + 1
        /\ UNCHANGED sessionVars /\ UNCHANGED <<program, closing, Ssrc, catVars>>
        /\ arrivals \in 0..MaxArrivals /\ program' = program /\ closing' = closing
    BY DEF OpusReceive, ReceiversInv, ProgramInv
  <1>2. ChainInv'
    <2>1. CASE KnownAs(s) = {}
      <3>1. Kept # Ids /\ Make(FreePlace, s)
        BY <2>1 DEF OpusReceive
      <3>2. FreePlace \in Ids \ Kept
        BY <3>1 DEF FreePlace, Kept
      <3> QED
        BY <2>1, <3>1, <3>2, MakeKeeps DEF ReceiversInv
    <2>2. CASE KnownAs(s) # {}
      <3>1. \E i \in KnownAs(s) : LookUp(i)
        BY <2>2 DEF OpusReceive
      <3>2. PICK i \in Kept : LookUp(i)
        BY <3>1, KnownIs DEF ReceiversInv
      <3> QED
        BY <3>2, LookUpKeeps DEF ReceiversInv
    <2> QED
      BY <2>1, <2>2
  <1>3. ProgramInv'
    BY <1>1, CatConstants DEF ReceiversInv, ProgramInv
  <1>4. CatInv'
    <2>1. arrivals' \in Nat /\ arrivals <= arrivals' /\ program # "pcmcat"
      BY <1>1, CatConstants
    <2> QED
      BY <1>1, <2>1, CatQuiet DEF ReceiversInv
  <1>5. MonitorInv'
    BY <1>1, MonitorStep DEF ReceiversInv
  <1> QED
    BY <1>2, <1>3, <1>4, <1>5 DEF ReceiversInv

\* A packet that pcmcat receives.
LEMMA CatKeeps ==
  ASSUME ReceiversInv, NEW s \in Streams, NEW n \in 1..SeqMod, CatReceive(s, n)
  PROVE  ReceiversInv'
  <1>1. UNCHANGED sessionVars
    BY DEF CatReceive
  <1>2. MonitorInv'
    BY <1>1, MonitorStep DEF ReceiversInv
  <1>3. ChainInv' /\ ProgramInv' /\ CatInv'
    BY CatReceiveKeeps DEF ReceiversInv
  <1> QED
    BY <1>2, <1>3 DEF ReceiversInv

\* The signal that ends opus, and what closedown frees.
LEMMA EndKeeps ==
  ASSUME ReceiversInv, Signal \/ CloseDown
  PROVE  ReceiversInv'
  <1>1. /\ UNCHANGED sessionVars /\ UNCHANGED <<program, Ssrc, catVars>> /\ arrivals' = arrivals
        /\ program = "opus" /\ program' = program /\ closing' = TRUE /\ arrivals \in 0..MaxArrivals
    BY DEF Signal, CloseDown, ReceiversInv, ProgramInv
  <1>2. ChainInv'
    <2>1. CASE Signal
      BY <2>1, ChainQuiet DEF Signal, ReceiversInv
    <2>2. CASE CloseDown
      BY <2>2, CloseHeadKeeps DEF CloseDown, ReceiversInv
    <2> QED
      BY <2>1, <2>2
  <1>3. ProgramInv'
    BY <1>1 DEF ProgramInv
  <1>4. CatInv'
    <2>1. arrivals' \in Nat /\ arrivals <= arrivals' /\ program # "pcmcat"
      BY <1>1, CatConstants
    <2> QED
      BY <1>1, <2>1, CatQuiet DEF ReceiversInv
  <1>5. MonitorInv'
    BY <1>1, MonitorStep DEF ReceiversInv
  <1> QED
    BY <1>2, <1>3, <1>4, <1>5 DEF ReceiversInv

\* A step of monitor, or none at all.
LEMMA OthersKept ==
  ASSUME ReceiversInv, SessionsNext \/ UNCHANGED sessionVars,
         UNCHANGED <<program, listVars, closing, arrivals, Ssrc, catVars>>
  PROVE  ReceiversInv'
  <1>1. /\ UNCHANGED listVars /\ UNCHANGED <<program, Ssrc, catVars>> /\ arrivals' = arrivals
        /\ program' = program /\ closing' = closing /\ arrivals \in 0..MaxArrivals
    BY DEF ReceiversInv, ProgramInv
  <1>2. MonitorInv'
    BY MonitorStep DEF ReceiversInv
  <1>3. ChainInv'
    BY <1>1, ChainQuiet DEF ReceiversInv
  <1>4. ProgramInv'
    BY <1>1 DEF ReceiversInv, ProgramInv
  <1>5. CatInv'
    <2>1. arrivals' \in Nat /\ arrivals <= arrivals'
      BY <1>1, CatConstants
    <2> QED
      BY <1>1, <2>1, CatQuiet DEF ReceiversInv
  <1> QED
    BY <1>2, <1>3, <1>4, <1>5 DEF ReceiversInv

\* At first there is no session.
LEMMA ReceiversInit == ReceiverInit => ReceiversInv
  <1> SUFFICES ASSUME ReceiverInit PROVE ReceiversInv
    OBVIOUS
  <1>1. /\ SessionsInit /\ program \in {"monitor", "opus", "pcmcat"}
        /\ Audio = NULL /\ node = [i \in Ids |-> NULL] /\ closing = FALSE /\ arrivals = 0
        /\ Ssrc \in Nat /\ top = [s \in Streams |-> 0] /\ catRtp = Unopened /\ written = <<>>
    BY ReceiverAssumption DEF ReceiverInit
  <1>2. Kept = {}
    BY <1>1 DEF Kept
  <1>3. ChainLined
    <2>1. PICK q \in [1..0 -> Ids] : TRUE
      <3>1. [k \in 1..0 |-> NULL] \in [1..0 -> Ids]
        OBVIOUS
      <3> QED
        BY <3>1
    <2>2. 0 \in Nat /\ 1..0 = {}
      OBVIOUS
    <2>3. Lined(Kept, Audio, ChainNexts, ChainPrevs, 0, q)
      BY <1>1, <1>2, <2>2 DEF Lined
    <2> QED
      BY <2>1, <2>2, <2>3 DEF ChainLined
  <1>4. ChainInv
    BY <1>1, <1>2, <1>3 DEF ChainInv, OneEach, Pointer
  <1>5. ProgramInv
    <2>1. arrivals \in 0..MaxArrivals
      BY <1>1, CatConstants
    <2>2. closing \in BOOLEAN /\ ~closing
      BY <1>1
    <2> QED
      BY <1>1, <2>1, <2>2 DEF ProgramInv
  <1>6. CatInv
    <2>1. TopBounded
      <3>1. 0 * (MaxLost + 1) = 0
        BY CatConstants
      <3> QED
        BY <1>1, <3>1 DEF TopBounded
    <2>2. /\ top \in [Streams -> Nat] /\ written \in Seq([stream : Streams, n : Nat])
          /\ \A i, j \in DOMAIN written : i < j => written[i].n < written[j].n
      BY <1>1
    <2> QED
      BY <1>1, <1>2, <2>1, <2>2 DEF CatInv
  <1>7. MonitorInv
    BY <1>1, MonitorInit
  <1> QED
    BY <1>4, <1>5, <1>6, <1>7 DEF ReceiversInv

\* Every step of the receivers keeps their lists whole and their packets where they
\* belong: of any number of threads, groups, streams and places, for any packets.
THEOREM SessionsInductive == ReceiversInv /\ [ReceiverNext]_receiverVars => ReceiversInv'
  <1> SUFFICES ASSUME ReceiversInv, [ReceiverNext]_receiverVars PROVE ReceiversInv'
    OBVIOUS
  <1>1. ASSUME SessionsNext, UNCHANGED <<program, listVars, closing, arrivals, Ssrc, catVars>>
        PROVE  ReceiversInv'
    BY <1>1, OthersKept
  <1>2. ASSUME NEW s \in Streams, OpusReceive(s)
        PROVE  ReceiversInv'
    BY <1>2, OpusReceiveKeeps
  <1>3. ASSUME NEW s \in Streams, NEW n \in 1..SeqMod, CatReceive(s, n)
        PROVE  ReceiversInv'
    BY <1>3, CatKeeps
  <1>4. ASSUME Signal \/ CloseDown
        PROVE  ReceiversInv'
    BY <1>4, EndKeeps
  <1>5. CASE UNCHANGED receiverVars
    BY <1>5, OthersKept DEF receiverVars
  <1> QED
    BY <1>1, <1>2, <1>3, <1>4, <1>5 DEF ReceiverNext

\* No receiver loses a session or gives a packet to the wrong one, however many
\* threads, streams and packets there are (monitor.c:303-384, 747-825,
\* opus.c:425-492, pcmcat.c:120-159).
THEOREM ReceiversSoundThm == ReceiverSpec => []ReceiversSound
  <1>1. ReceiversInv => ReceiversSound
    BY MonitorSound, ChainSound, CatSound DEF ReceiversInv, ReceiversSound
  <1> QED
    BY <1>1, ReceiversInit, SessionsInductive, PTL DEF ReceiverSpec
=============================================================================
