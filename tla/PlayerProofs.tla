---------------------------- MODULE PlayerProofs ----------------------------
(***************************************************************************)
(* iqrecord and iqplay, for any streams, frequencies, packet and block     *)
(* sizes.                                                                  *)
(*                                                                         *)
(* A recording is its stream's own because the session a packet finds, the *)
(* file of that session and the packet that began it agree (SessionSound), *)
(* and it is whole because packets a stream's sender has made are a packet *)
(* apart for every number they are apart (Spacing): whichever follows the  *)
(* last one in time has the number rtp_process expects (InStep).           *)
(*                                                                         *)
(* A replay keeps time because every header counts one block, whether or   *)
(* not one goes with it (Numbered), and each block begins in its file      *)
(* where the one before ended (Placed).                                    *)
(***************************************************************************)
EXTENDS Player, ModularArithmetic, SequenceTheorems

Packets == [stream : Streams, freq : Freqs \cup {0}, first : Nat, idx : Nat]
Bytes == [stream : Streams, freq : Freqs \cup {0}, at : Nat] \cup {Hole}
Ssrcs == {s.ssrc : s \in Streams}

FileNames == [freq : Freqs \cup {0}, ssrc : Ssrcs, suffix : Nat]
FileAttributes ==
  {NoAttributes} \cup [samprate : {48000} \cup {s.rate : s \in Streams},
                       format : {"s16le", "s16be"}, freq : Freqs \cup {0}]

Recordings ==
  [name : FileNames, attrs : FileAttributes, data : Seq(Bytes), safe : Seq(Bytes),
   from : Packets, packets : Nat, smooth : BOOLEAN, run : Nat]

Sessions ==
  [ssrc : Ssrcs, type : {s.type : s \in Streams}, sender : {s.sender : s \in Streams},
   freq : Freqs \cup {0}, rtp : RtpStates(Ssrcs), file : Nat, pos : Nat]

\* A packet is being dealt with.
Busy == pc \in {"listed", "opened", "write"}

Types ==
  /\ clock \in [Streams -> Nat] /\ sent \in [Streams -> Nat]
  /\ tuned \in [Streams -> Freqs \cup {0}]
  /\ net \in SUBSET Packets
  /\ files \in Seq(Recordings)
  /\ pc \in {"down", "recv", "listed", "opened", "write"}
  /\ Busy => pkt \in Packets
  /\ sessions \in Seq(Sessions)
  /\ total \in Nat /\ runs \in Nat

\* The packets the network and the program hold.
InHand == net \cup (IF Busy THEN {pkt} ELSE {})

\* Only I/Q has a frequency.
Plain ==
  /\ \A s \in Streams : s.type # "iq" => tuned[s] = 0
  /\ \A p \in InHand : p.stream.type # "iq" => p.freq = 0

\* The packet an undisturbed recording ends with; the first, as long as it is
\* empty.
Latest(f) ==
  LET k == IF f.packets = 0 THEN 0 ELSE f.packets - 1 IN
  [f.from EXCEPT !.first = @ + k * PacketSize, !.idx = @ + k]

Undisturbed == {i \in DOMAIN sessions :
                  sessions[i].file # NoFile /\ files[sessions[i].file].smooth}
Lasts == {Latest(files[sessions[i].file]) : i \in Undisturbed}

\* What the sender has got through since p.
Past(p) ==
  /\ p.idx < sent[p.stream]
  /\ p.first + (sent[p.stream] - p.idx) * PacketSize <= clock[p.stream]

Apart(p, q) ==
  p.stream = q.stream =>
    /\ p.idx < q.idx => p.first + (q.idx - p.idx) * PacketSize <= q.first
    /\ p.idx = q.idx => p.first = q.first

Spacing ==
  /\ \A p \in InHand \cup Lasts : Past(p)
  /\ \A p, q \in InHand \cup Lasts : Apart(p, q)

\* An undisturbed session: what rtp_process expects is the packet that follows.
InStep(sp, f) ==
  /\ sp.pos = Len(f.data)
  /\ IF f.packets = 0 THEN ~sp.rtp.init
     ELSE /\ sp.rtp.init /\ sp.rtp.ssrc = sp.ssrc
          /\ sp.rtp.seq = (f.from.idx + f.packets) % SeqMod
          /\ sp.rtp.timestamp = (Base + f.from.first + f.packets * PacketSize) % TimeMod

SessionSound(i) ==
  LET sp == sessions[i]  f == files[sp.file] IN
  sp.file # NoFile =>
    /\ sp.file \in DOMAIN files /\ f.run = runs
    /\ Matches(sp, f.from)
    /\ (i = 1 /\ pc = "opened") \/ f.attrs = Attributes(f.from)
    /\ f.smooth => InStep(sp, f)

SessionsSound == \A i \in DOMAIN sessions : SessionSound(i)

OwnFiles ==
  \A i, j \in DOMAIN sessions :
    i # j /\ sessions[i].file # NoFile => sessions[i].file # sessions[j].file

\* Where input_loop is.
Stage ==
  /\ pc = "down" => sessions = <<>>
  /\ pc = "listed" =>
       /\ sessions # <<>> /\ Matches(sessions[1], pkt)
       /\ sessions[1].file = NoFile /\ sessions[1].pos = 0 /\ ~sessions[1].rtp.init
  /\ pc = "opened" =>
       /\ sessions # <<>> /\ Matches(sessions[1], pkt)
       /\ sessions[1].file # NoFile /\ files[sessions[1].file].from = pkt
       /\ files[sessions[1].file].data = <<>>
  /\ pc = "write" => \E i \in DOMAIN sessions : Matches(sessions[i], pkt)

Whole(f) ==
  LET size == SampleSize(f.from.stream.type) IN
  /\ Len(f.data) = f.packets * (PacketSize * size)
  /\ \A b \in 1..Len(f.data) : f.data[b] = ByteAt(f.from, f.from.first * size + b - 1)
  /\ Len(f.safe) <= Len(f.data)
  /\ \A b \in 1..Len(f.safe) : f.safe[b] = f.data[b]

FileSound(f) ==
  /\ f.data = <<>> \/ f.attrs = Attributes(f.from)
  /\ \A b \in 1..Len(f.data) : f.data[b] # Hole =>
       f.data[b].stream = f.from.stream /\ f.data[b].freq = f.from.freq
  /\ f.safe # <<>> => f.data # <<>>
  /\ f.from.stream.type # "iq" => f.from.freq = 0
  /\ f.smooth => Whole(f)

FilesSound == \A i \in DOMAIN files : FileSound(files[i])

RInv ==
  Types /\ Plain /\ Spacing /\ SessionsSound /\ OwnFiles /\ Stage /\ FilesSound
-----------------------------------------------------------------------------
(* Searches *)

\* The search for the session of a packet finds one, if there is one.
LEMMA MineMatches ==
  ASSUME sessions \in Seq(Sessions), \E i \in DOMAIN sessions : Matches(sessions[i], pkt)
  PROVE  /\ Mine \in DOMAIN sessions /\ Matches(sessions[Mine], pkt)
         /\ sessions[Mine] \in Sessions
  <1>1. Len(sessions) \in Nat /\ DOMAIN sessions = 1..Len(sessions)
    BY LenProperties
  <1> DEFINE I == {i \in 1..Len(sessions) : Matches(sessions[i], pkt)}
  <1>2. I \in SUBSET Nat /\ I # {}
    BY <1>1
  <1>3. Mine = SE!Min(I)
    BY <1>2 DEF Mine, SE!SelectInSeq
  <1>4. SE!Min(I) \in I
    <2> HIDE DEF I
    <2> QED
      BY <1>2, LeastNatural DEF SE!Min
  <1> QED
    BY <1>1, <1>3, <1>4, ElementOfSeq

\* The name chosen is one that no file has.
LEMMA FirstFreeIsFree ==
  ASSUME Free(pkt) # {}
  PROVE  FirstFree(pkt) \in Free(pkt) /\ FirstFree(pkt) \in Nat
         /\ Name(pkt, FirstFree(pkt)) \notin Names
  <1>1. Free(pkt) \in SUBSET Nat
    BY RecorderAssumption DEF Free
  <1>2. FirstFree(pkt) \in Free(pkt)
    BY <1>1, LeastNatural DEF FirstFree
  <1> QED
    BY <1>1, <1>2 DEF Free

\* What the assumptions say of the constants' types.
LEMMA Constants ==
  /\ SeqMod \in Nat \ {0} /\ TimeMod \in Nat \ {0}
  /\ PacketSize \in Nat \ {0} /\ BlockSize \in Nat \ {0}
  /\ Base \in Nat /\ Interval \in Nat
  BY RtpStateAssumption, RecorderAssumption, PlayerAssumption

\* Every payload type has a size of sample; that of an unknown type is zero.
LEMMA SampleSizeNat ==
  ASSUME NEW t
  PROVE  SampleSize(t) \in Nat
  BY DEF SampleSize, Channels

\* A new file is the last one; its session has the number of the new file.
LEMMA OpenedLast ==
  ASSUME files \in Seq(Recordings), NEW f \in Recordings, f.name \notin Names
  PROVE  /\ FilesWith(f) = Append(files, f)
         /\ SE!SelectInSeq(Append(files, f), LAMBDA g : g.name = f.name) = Len(files) + 1
  <1> DEFINE n == Len(files) + 1
             all == Append(files, f)
             I == {i \in 1..Len(all) : all[i].name = f.name}
  <1>1. /\ Len(files) \in Nat /\ DOMAIN files = 1..Len(files)
        /\ Len(all) = n /\ all[n] = f /\ \A i \in 1..Len(files) : all[i] = files[i]
    BY LenProperties, AppendProperties
  <1>2. \A i \in 1..Len(files) : files[i].name # f.name
    BY <1>1 DEF Names
  <1>3. I = {n}
    BY <1>1, <1>2
  <1>4. SE!Min(I) = n
    BY <1>1, <1>3 DEF SE!Min
  <1>5. SE!SelectInSeq(all, LAMBDA g : g.name = f.name) = SE!Min(I)
    BY <1>3 DEF SE!SelectInSeq
  <1> QED
    BY <1>4, <1>5 DEF FilesWith

-----------------------------------------------------------------------------
(* rtp_process *)

Headers == [ssrc : Ssrcs, seq : 0..SeqMod - 1, timestamp : 0..TimeMod - 1]

\* The distance of two numbers below the modulus.
LEMMA SignedInt ==
  ASSUME NEW m \in Nat \ {0}, NEW x \in Int
  PROVE  Signed(x, m) \in Int
  BY ModRange DEF Signed

\* No difference is no signed difference.
LEMMA SignedSame ==
  ASSUME NEW m \in Nat \ {0}, NEW x \in Int
  PROVE  Signed(x - x, m) = 0
  <1>1. x - x = 0 /\ 0 % m = 0
    BY ModSmall
  <1> QED
    BY <1>1 DEF Signed

\* A session's RTP state, after the first packet or the wild one that rtp_process
\* takes it to begin with, is an RTP state of the packet's SSRC.
LEMMA OpenedType ==
  ASSUME NEW s \in RtpStates(Ssrcs), NEW h \in Headers
  PROVE  /\ Opened(s, h) \in RtpStates(Ssrcs)
         /\ Opened(s, h).init = TRUE /\ Opened(s, h).ssrc = h.ssrc
         /\ SeqStep(s, h) \in Int /\ TimeStep(s, h) \in Int
  <1>1. SeqMod \in Nat \ {0} /\ TimeMod \in Nat \ {0} /\ h.ssrc \in Ssrcs
        /\ h.seq \in 0..SeqMod - 1 /\ h.timestamp \in 0..TimeMod - 1
    BY Constants DEF Headers
  <1>4. Opened(s, h) \in RtpStates(Ssrcs) /\ Opened(s, h).init = TRUE /\ Opened(s, h).ssrc = h.ssrc
    <2>1. CASE NewSession(s, h)
      <3>1. Opened(s, h) = [ssrc |-> h.ssrc, init |-> TRUE, seq |-> h.seq,
                            timestamp |-> h.timestamp, packets |-> 1, drops |-> 0, dupes |-> 0]
        BY <2>1 DEF Opened
      <3> QED
        BY <1>1, <3>1 DEF RtpStates
    <2>2. CASE ~NewSession(s, h)
      <3>1. Opened(s, h) = [s EXCEPT !.packets = @ + 1] /\ s.init = TRUE /\ s.ssrc = h.ssrc
        BY <2>2 DEF Opened, NewSession, RtpStates
      <3>2. Opened(s, h) \in RtpStates(Ssrcs)
        BY <3>1 DEF RtpStates
      <3>3. Opened(s, h).init = s.init /\ Opened(s, h).ssrc = s.ssrc
        BY <3>1 DEF RtpStates
      <3> QED
        BY <3>1, <3>2, <3>3
    <2> QED
      BY <2>1, <2>2
  <1> DEFINE x == h.seq - Opened(s, h).seq
             y == h.timestamp - Opened(s, h).timestamp
  <1>5. x \in Int /\ y \in Int
    BY <1>1, <1>4 DEF RtpStates
  <1>6. SeqStep(s, h) = Signed(x, SeqMod) /\ TimeStep(s, h) = Signed(y, TimeMod)
    BY DEF SeqStep, TimeStep
  <1> HIDE DEF x, y
  <1>7. Signed(x, SeqMod) \in Int /\ Signed(y, TimeMod) \in Int
    BY <1>1, <1>5, SignedInt
  <1> QED
    BY <1>4, <1>6, <1>7

\* rtp_process leaves an RTP state.
LEMMA ProcessedType ==
  ASSUME NEW s \in RtpStates(Ssrcs), NEW h \in Headers, NEW n \in Nat
  PROVE  Processed(s, h, n) \in RtpStates(Ssrcs)
  <1> DEFINE o == Opened(s, h)
             q == (h.seq + 1) % SeqMod
             t == (h.timestamp + n) % TimeMod
             k == o.drops + SeqStep(s, h)
  <1>1. SeqMod \in Nat \ {0} /\ TimeMod \in Nat \ {0} /\ h.seq + 1 \in Int /\ h.timestamp + n \in Int
    BY Constants DEF Headers
  <1>2. o \in RtpStates(Ssrcs) /\ SeqStep(s, h) \in Int
    BY OpenedType
  <1>3. q \in 0..SeqMod - 1
    BY <1>1, ModRange
  <1>4. t \in 0..TimeMod - 1
    BY <1>1, ModRange
  <1>5. CASE OldSequence(s, h)
    <2>1. Processed(s, h, n) = [o EXCEPT !.dupes = o.dupes + 1]
      BY <1>5 DEF Processed, Duplicate
    <2> HIDE DEF o
    <2> QED
      BY <1>2, <2>1 DEF RtpStates
  <1>6. CASE ~OldSequence(s, h)
    <2>1. k \in Nat
      BY <1>2, <1>6 DEF OldSequence, RtpStates
    <2>2. Passed(s, h) = [o EXCEPT !.seq = q, !.drops = k]
      BY DEF Passed
    <2> HIDE DEF o, q, k
    <2>3. Passed(s, h) \in RtpStates(Ssrcs)
      BY <1>2, <1>3, <2>1, <2>2 DEF RtpStates
    <2>4. Timed(s, h, n) = [Passed(s, h) EXCEPT !.timestamp = t]
      BY DEF Timed
    <2> HIDE DEF t
    <2>5. Timed(s, h, n) \in RtpStates(Ssrcs)
      BY <1>4, <2>3, <2>4 DEF RtpStates
    <2> QED
      BY <1>6, <2>3, <2>5 DEF Processed
  <1> QED
    BY <1>5, <1>6

\* The first packet, or the one expected: nothing is missing before it.
LEMMA Expected ==
  ASSUME NEW s \in RtpStates(Ssrcs), NEW h \in Headers, NEW n \in Nat,
         s.init => s.ssrc = h.ssrc /\ s.seq = h.seq /\ s.timestamp = h.timestamp
  PROVE  /\ ~OldSequence(s, h) /\ TimeStep(s, h) = 0
         /\ Processed(s, h, n).init /\ Processed(s, h, n).ssrc = h.ssrc
         /\ Processed(s, h, n).seq = (h.seq + 1) % SeqMod
         /\ Processed(s, h, n).timestamp = (h.timestamp + n) % TimeMod
  <1> DEFINE o == Opened(s, h)
             q == (h.seq + 1) % SeqMod
             t == (h.timestamp + n) % TimeMod
             k == o.drops + SeqStep(s, h)
  <1>1. /\ SeqMod \in Nat \ {0} /\ TimeMod \in Nat \ {0}
        /\ h.seq \in Int /\ h.timestamp \in Int
    BY Constants DEF Headers
  <1>2. o \in RtpStates(Ssrcs) /\ o.init = TRUE /\ o.ssrc = h.ssrc
    BY OpenedType
  <1>3. o.seq = h.seq /\ o.timestamp = h.timestamp
    <2>1. CASE ~s.init
      BY <2>1 DEF Opened, NewSession
    <2>2. CASE s.init
      <3>1. o = [s EXCEPT !.packets = @ + 1]
        BY <2>2 DEF Opened, NewSession
      <3> QED
        BY <2>2, <3>1 DEF RtpStates
    <2> QED
      BY <2>1, <2>2
  <1>4. SeqStep(s, h) = Signed(h.seq - h.seq, SeqMod)
        /\ TimeStep(s, h) = Signed(h.timestamp - h.timestamp, TimeMod)
    BY <1>3 DEF SeqStep, TimeStep
  <1>5. SeqStep(s, h) = 0 /\ TimeStep(s, h) = 0
    BY <1>1, <1>4, SignedSame
  <1>6. ~OldSequence(s, h) /\ ~OldTime(s, h)
    BY <1>5 DEF OldSequence, OldTime
  <1>7. Processed(s, h, n) = [[o EXCEPT !.seq = q, !.drops = k] EXCEPT !.timestamp = t]
    BY <1>6 DEF Processed, Timed, Passed
  <1> HIDE DEF o, q, t, k
  <1>8. /\ Processed(s, h, n).init = o.init /\ Processed(s, h, n).ssrc = o.ssrc
        /\ Processed(s, h, n).seq = q /\ Processed(s, h, n).timestamp = t
    BY <1>2, <1>7 DEF RtpStates
  <1> QED
    BY <1>2, <1>5, <1>6, <1>8 DEF q, t

-----------------------------------------------------------------------------
(* Packets and what is written of them *)

\* The header of a packet is its index and its first sample, as many bits as fit.
LEMMA HeaderType ==
  ASSUME NEW p \in Packets
  PROVE  /\ Header(p) \in Headers /\ Header(p).ssrc = p.stream.ssrc
         /\ Header(p).seq = p.idx % SeqMod
         /\ Header(p).timestamp = (Base + p.first) % TimeMod
  <1>1. /\ p.stream \in Streams /\ p.idx \in Int /\ Base + p.first \in Int
        /\ SeqMod \in Nat \ {0} /\ TimeMod \in Nat \ {0}
    BY Constants DEF Packets
  <1>2. p.idx % SeqMod \in 0..SeqMod - 1
    BY <1>1, ModRange
  <1> DEFINE t == (Base + p.first) % TimeMod
  <1>3. t \in 0..TimeMod - 1
    BY <1>1, ModRange
  <1> HIDE DEF t
  <1>4. p.stream.ssrc \in Ssrcs
    BY <1>1 DEF Ssrcs
  <1> QED
    BY <1>2, <1>3, <1>4 DEF Header, Headers, t

\* The payload of a packet is the bytes of its samples, in order.
LEMMA PayloadType ==
  ASSUME NEW p \in Packets
  PROVE  LET size == SampleSize(p.stream.type) IN
         /\ Payload(p) \in Seq(Bytes) /\ Len(Payload(p)) = PacketSize * size
         /\ \A b \in 1..PacketSize * size : Payload(p)[b] = ByteAt(p, p.first * size + b - 1)
  <1> DEFINE size == SampleSize(p.stream.type)
             n == PacketSize * size
             k == p.first * size
  <1>1. size \in Nat
    BY SampleSizeNat
  <1>2. n \in Nat /\ k \in Nat
    <2> HIDE DEF size
    <2> QED
      BY <1>1, Constants DEF Packets
  <1>3. Payload(p) = [b \in 1..n |-> ByteAt(p, k + b - 1)]
    BY DEF Payload
  <1> HIDE DEF n, k
  <1>4. ASSUME NEW b \in 1..n
        PROVE  ByteAt(p, k + b - 1) \in Bytes
    <2>1. k + b - 1 \in Nat
      BY <1>2
    <2> QED
      BY <2>1 DEF ByteAt, Bytes, Packets
  <1>5. Payload(p) \in [1..n -> Bytes]
    BY <1>3, <1>4
  <1>6. Payload(p) \in Seq(Bytes)
    BY <1>2, <1>5, SeqDef
  <1>7. Len(Payload(p)) = n
    BY <1>2, <1>3, <1>6, LenProperties
  <1>8. \A b \in 1..n : Payload(p)[b] = ByteAt(p, k + b - 1)
    BY <1>3
  <1> QED
    BY <1>6, <1>7, <1>8 DEF n, k

\* What a write at a position leaves of the data.
LEMMA WrittenType ==
  ASSUME NEW data \in Seq(Bytes), NEW bytes \in Seq(Bytes), NEW pos \in Nat
  PROVE  /\ Written(data, pos, bytes) \in Seq(Bytes)
         /\ Len(Written(data, pos, bytes)) =
              (IF pos + Len(bytes) > Len(data) THEN pos + Len(bytes) ELSE Len(data))
         /\ \A b \in 1..Len(Written(data, pos, bytes)) :
              Written(data, pos, bytes)[b] =
                (IF b \in pos + 1..pos + Len(bytes) THEN bytes[b - pos]
                 ELSE IF b <= Len(data) THEN data[b] ELSE Hole)
  <1> DEFINE n == IF pos + Len(bytes) > Len(data) THEN pos + Len(bytes) ELSE Len(data)
             w == Written(data, pos, bytes)
             at(b) == IF b \in pos + 1..pos + Len(bytes) THEN bytes[b - pos]
                      ELSE IF b <= Len(data) THEN data[b] ELSE Hole
  <1>1. Len(data) \in Nat /\ Len(bytes) \in Nat
    BY LenProperties
  <1>2. n \in Nat
    BY <1>1
  <1>3. w = [b \in 1..n |-> at(b)]
    BY DEF Written
  <1>4. ASSUME NEW b \in 1..n
        PROVE  at(b) \in Bytes
    <2>1. CASE b \in pos + 1..pos + Len(bytes)
      <3>1. b - pos \in 1..Len(bytes)
        BY <1>1, <2>1
      <3> QED
        BY <2>1, <3>1, ElementOfSeq
    <2>2. CASE b \notin pos + 1..pos + Len(bytes) /\ b <= Len(data)
      <3>1. b \in 1..Len(data)
        BY <1>1, <1>2, <2>2
      <3> QED
        BY <2>2, <3>1, ElementOfSeq
    <2>3. CASE b \notin pos + 1..pos + Len(bytes) /\ ~ (b <= Len(data))
      BY <2>3 DEF Bytes
    <2> QED
      BY <2>1, <2>2, <2>3
  <1> HIDE DEF n, w, at
  <1>5. w \in [1..n -> Bytes]
    BY <1>3, <1>4
  <1>6. w \in Seq(Bytes)
    BY <1>2, <1>5, SeqDef
  <1>7. Len(w) = n
    BY <1>2, <1>5, <1>6, LenProperties
  <1>8. \A b \in 1..n : w[b] = at(b)
    BY <1>3
  <1> QED
    BY <1>6, <1>7, <1>8 DEF n, w, at

\* fseek is told a whole number, and ends at a place of the file.
LEMMA SoughtNat ==
  ASSUME NEW sp \in Sessions, NEW p \in Packets
  PROVE  Offset(sp, p) \in Int /\ Sought(sp, p) \in Nat
  <1>1. sp.rtp \in RtpStates(Ssrcs) /\ sp.pos \in Nat
    BY DEF Sessions
  <1>2. TimeStep(sp.rtp, Header(p)) \in Int
    BY <1>1, HeaderType, OpenedType
  <1>3. Offset(sp, p) \in Int
    BY <1>2 DEF Offset
  <1> QED
    BY <1>1, <1>3 DEF Sought

\* The session after a packet: the same match, the next place in the file.
LEMMA MovedType ==
  ASSUME NEW sp \in Sessions, NEW p \in Packets
  PROVE  /\ Moved(sp, p) \in Sessions
         /\ Moved(sp, p).rtp = Processed(sp.rtp, Header(p), PacketSize)
         /\ Moved(sp, p).pos = Sought(sp, p) + Len(Payload(p))
         /\ Moved(sp, p).file = sp.file
         /\ \A q : Matches(Moved(sp, p), q) = Matches(sp, q)
         /\ Moved(sp, p).ssrc = sp.ssrc
  <1> DEFINE r == Processed(sp.rtp, Header(p), PacketSize)
             n == Sought(sp, p) + Len(Payload(p))
  <1>1. r \in RtpStates(Ssrcs)
    <2>1. sp.rtp \in RtpStates(Ssrcs) /\ Header(p) \in Headers /\ PacketSize \in Nat
      BY HeaderType, Constants DEF Sessions
    <2> QED
      BY <2>1, ProcessedType
  <1>2. n \in Nat
    <2>1. Len(Payload(p)) \in Nat
      BY PayloadType, LenProperties
    <2> QED
      BY <2>1, SoughtNat
  <1>3. Moved(sp, p) = [sp EXCEPT !.rtp = r, !.pos = n]
    BY DEF Moved
  <1> HIDE DEF r, n
  <1>4. Moved(sp, p) \in Sessions
    BY <1>1, <1>2, <1>3 DEF Sessions
  <1>5. /\ Moved(sp, p).rtp = r /\ Moved(sp, p).pos = n
        /\ Moved(sp, p).file = sp.file /\ Moved(sp, p).ssrc = sp.ssrc
        /\ Moved(sp, p).type = sp.type /\ Moved(sp, p).sender = sp.sender
        /\ Moved(sp, p).freq = sp.freq
    BY <1>3 DEF Sessions
  <1> QED
    BY <1>4, <1>5 DEF Matches, r, n

\* The recording after a packet, field by field.
LEMMA ExtendedType ==
  ASSUME NEW f \in Recordings, NEW sp \in Sessions, NEW p \in Packets
  PROVE  /\ Extended(f, sp, p) \in Recordings
         /\ Extended(f, sp, p).data = Written(f.data, Sought(sp, p), Payload(p))
         /\ Extended(f, sp, p).safe = (IF Offset(sp, p) # 0 THEN f.data ELSE f.safe)
         /\ Extended(f, sp, p).packets = f.packets + 1
         /\ Extended(f, sp, p).smooth = (f.smooth /\ Follows(f, p))
         /\ Extended(f, sp, p).from = f.from /\ Extended(f, sp, p).attrs = f.attrs
         /\ Extended(f, sp, p).run = f.run /\ Extended(f, sp, p).name = f.name
  <1> DEFINE d == Written(f.data, Sought(sp, p), Payload(p))
             s == IF Offset(sp, p) # 0 THEN f.data ELSE f.safe
             m == f.smooth /\ Follows(f, p)
  <1>1. d \in Seq(Bytes)
    BY SoughtNat, PayloadType, WrittenType DEF Recordings
  <1>2. s \in Seq(Bytes)
    BY DEF Recordings
  <1>3. m \in BOOLEAN
    BY DEF Recordings, Follows
  <1>4. Extended(f, sp, p) = [f EXCEPT !.data = d, !.safe = s, !.packets = f.packets + 1, !.smooth = m]
    BY DEF Extended
  <1> HIDE DEF d, s, m
  <1>5. Extended(f, sp, p) \in Recordings
    <2> DEFINE n == f.packets + 1
    <2>1. n \in Nat
      BY DEF Recordings
    <2>2. Extended(f, sp, p) = [name |-> f.name, attrs |-> f.attrs, data |-> d, safe |-> s,
            from |-> f.from, packets |-> n, smooth |-> m, run |-> f.run]
      BY <1>4 DEF Recordings
    <2>3. /\ f.name \in FileNames /\ f.attrs \in FileAttributes
          /\ f.from \in Packets /\ f.run \in Nat
      BY DEF Recordings
    <2> HIDE DEF n
    <2> QED
      BY <1>1, <1>2, <1>3, <2>1, <2>2, <2>3 DEF Recordings
  <1>6. /\ Extended(f, sp, p).data = d /\ Extended(f, sp, p).safe = s
        /\ Extended(f, sp, p).packets = f.packets + 1 /\ Extended(f, sp, p).smooth = m
        /\ Extended(f, sp, p).from = f.from /\ Extended(f, sp, p).attrs = f.attrs
        /\ Extended(f, sp, p).run = f.run /\ Extended(f, sp, p).name = f.name
    BY <1>4 DEF Recordings
  <1> QED
    BY <1>5, <1>6 DEF d, s, m

\* Packets one session is for are of one stream and one frequency.
LEMMA SameStream ==
  ASSUME NEW sp \in Sessions, NEW p \in Packets, NEW q \in Packets,
         Matches(sp, p), Matches(sp, q),
         p.stream.type # "iq" => p.freq = 0, q.stream.type # "iq" => q.freq = 0
  PROVE  p.stream = q.stream /\ p.freq = q.freq
  <1>1. p.stream \in Streams /\ q.stream \in Streams
    BY DEF Packets
  <1>2. /\ p.stream.sender = q.stream.sender /\ p.stream.ssrc = q.stream.ssrc
        /\ p.stream.type = q.stream.type
    BY DEF Matches
  <1>3. p.stream = q.stream
    BY <1>1, <1>2, RecorderAssumption
  <1> QED
    BY <1>3 DEF Matches

\* A packet that follows in time, follows in number.
LEMMA NextNumber ==
  ASSUME NEW f \in Recordings, NEW p \in Packets, p.stream = f.from.stream,
         Apart(Latest(f), p), Apart(p, Latest(f)), Follows(f, p)
  PROVE  p.idx = f.from.idx + f.packets
  <1> DEFINE k == IF f.packets = 0 THEN 0 ELSE f.packets - 1
             size == PacketSize
             l == Latest(f)
             d == p.idx - l.idx
             e == l.idx - p.idx
  <1>1. /\ size \in Nat \ {0} /\ f.packets \in Nat /\ k \in Nat
        /\ f.from.idx \in Nat /\ f.from.first \in Nat /\ p.idx \in Nat /\ p.first \in Nat
        /\ f.from \in Packets
    BY Constants DEF Packets, Recordings
  <1>2. l = [f.from EXCEPT !.first = f.from.first + k * size, !.idx = f.from.idx + k]
    BY DEF Latest
  <1> HIDE DEF l, k
  <1>3. l.stream = f.from.stream /\ l.first = f.from.first + k * size /\ l.idx = f.from.idx + k
    BY <1>1, <1>2 DEF Packets
  <1>4. p.first = f.from.first + f.packets * size
    BY DEF Follows
  <1>5. p.first = IF f.packets = 0 THEN l.first ELSE l.first + size
    <2>1. CASE f.packets = 0
      BY <1>1, <1>3, <1>4, <2>1 DEF k
    <2>2. CASE f.packets # 0
      <3>1. k = f.packets - 1
        BY <2>2 DEF k
      <3>2. f.packets * size = k * size + size
        BY <1>1, <3>1
      <3>3. k * size \in Nat
        BY <1>1
      <3> QED
        BY <1>1, <1>3, <1>4, <2>2, <3>2, <3>3
    <2> QED
      BY <2>1, <2>2
  <1>6. l.first \in Nat /\ l.idx \in Nat /\ d \in Int /\ e \in Int
    BY <1>1, <1>3
  <1>7. /\ d > 0 => l.first + d * size <= p.first
        /\ e > 0 => p.first + e * size <= l.first
        /\ d = 0 => l.first = p.first
    <2>1. p.stream = l.stream /\ Apart(l, p) /\ Apart(p, l)
      BY <1>3 DEF l
    <2>2. /\ l.idx < p.idx => l.first + d * size <= p.first
          /\ l.idx = p.idx => l.first = p.first
      BY <2>1 DEF Apart
    <2>3. p.idx < l.idx => p.first + e * size <= l.first
      BY <2>1 DEF Apart
    <2>4. /\ d > 0 => l.idx < p.idx
          /\ e > 0 => p.idx < l.idx
          /\ d = 0 => l.idx = p.idx
      BY <1>1, <1>6
    <2> HIDE DEF d, e
    <2> QED
      BY <2>2, <2>3, <2>4
  <1> HIDE DEF d, e
  <1>8. ~ (e > 0)
    <2>1. e > 0 => e * size >= size
      BY <1>1, <1>6
    <2>2. e * size \in Int
      BY <1>1, <1>6
    <2> QED
      BY <1>1, <1>5, <1>6, <1>7, <2>1, <2>2
  <1>9. d > 0 => d * size >= size
    BY <1>1, <1>6
  <1>10. d > 1 => d * size >= size + size
    <2>1. d > 1 => (d - 1) * size >= size
      BY <1>1, <1>6
    <2>2. (d - 1) * size + size = d * size
      BY <1>1, <1>6
    <2> QED
      BY <1>1, <1>6, <2>1, <2>2
  <1>11. d * size \in Int
    BY <1>1, <1>6
  <1>12. d = IF f.packets = 0 THEN 0 ELSE 1
    <2>1. d >= 0
      BY <1>1, <1>6, <1>8 DEF d, e
    <2> QED
      BY <1>1, <1>5, <1>6, <1>7, <1>9, <1>10, <1>11, <2>1
  <1>13. l.idx + d = p.idx
    BY <1>1, <1>6 DEF d
  <1> QED
    BY <1>1, <1>3, <1>12, <1>13 DEF k

\* What a write gives a file is of its stream.
LEMMA ExtendedOwn ==
  ASSUME NEW f \in Recordings, NEW sp \in Sessions, NEW p \in Packets, FileSound(f),
         p.stream = f.from.stream, p.freq = f.from.freq
  PROVE  LET g == Extended(f, sp, p) IN
         /\ Len(g.data) \in Nat /\ Len(g.data) >= Len(f.data)
         /\ g.safe # <<>> => g.data # <<>>
         /\ \A b \in 1..Len(g.data) : g.data[b] # Hole =>
              g.data[b].stream = f.from.stream /\ g.data[b].freq = f.from.freq
  <1> DEFINE g == Extended(f, sp, p)
             pos == Sought(sp, p)
             new == Payload(p)
             n == PacketSize * SampleSize(p.stream.type)
             k == p.first * SampleSize(p.stream.type)
  <1>1. /\ f.data \in Seq(Bytes) /\ f.safe \in Seq(Bytes) /\ Len(f.data) \in Nat
        /\ pos \in Nat /\ new \in Seq(Bytes) /\ Len(new) = n /\ Len(new) \in Nat
        /\ \A b \in 1..n : new[b] = ByteAt(p, k + b - 1)
    BY SoughtNat, PayloadType, LenProperties DEF Recordings
  <1>2. /\ g.data = Written(f.data, pos, new)
        /\ g.safe = (IF Offset(sp, p) # 0 THEN f.data ELSE f.safe)
    BY ExtendedType
  <1>3. \A b \in 1..Len(f.data) : f.data[b] # Hole =>
          f.data[b].stream = f.from.stream /\ f.data[b].freq = f.from.freq
    BY DEF FileSound
  <1>4. \A b \in 1..n : new[b].stream = p.stream /\ new[b].freq = p.freq
    BY <1>1 DEF ByteAt
  <1> HIDE DEF g, pos, new, n, k
  <1>5. /\ Len(g.data) = (IF pos + Len(new) > Len(f.data) THEN pos + Len(new) ELSE Len(f.data))
        /\ \A b \in 1..Len(g.data) :
             g.data[b] = (IF b \in pos + 1..pos + Len(new) THEN new[b - pos]
                          ELSE IF b <= Len(f.data) THEN f.data[b] ELSE Hole)
    <2> DEFINE data == f.data
               w == Written(data, pos, new)
    <2>1. data \in Seq(Bytes) /\ new \in Seq(Bytes) /\ pos \in Nat
      BY <1>1
    <2> HIDE DEF data
    <2>2. /\ Len(w) = (IF pos + Len(new) > Len(data) THEN pos + Len(new) ELSE Len(data))
          /\ \A b \in 1..Len(w) :
               w[b] = (IF b \in pos + 1..pos + Len(new) THEN new[b - pos]
                       ELSE IF b <= Len(data) THEN data[b] ELSE Hole)
      BY <2>1, WrittenType
    <2> HIDE DEF w
    <2>3. g.data = w
      BY <1>2 DEF w, data
    <2> QED
      BY <2>2, <2>3 DEF data
  <1>6. Len(g.data) \in Nat /\ Len(g.data) >= Len(f.data)
    BY <1>1, <1>5
  <1>7. g.safe # <<>> => g.data # <<>>
    <2>1. f.safe # <<>> => f.data # <<>>
      BY DEF FileSound
    <2>2. f.data # <<>> => Len(f.data) > 0
      BY <1>1, EmptySeq
    <2>3. g.data = <<>> => Len(g.data) = 0
      OBVIOUS
    <2> QED
      BY <1>1, <1>2, <1>6, <2>1, <2>2, <2>3
  <1>8. ASSUME NEW b \in 1..Len(g.data), g.data[b] # Hole
        PROVE  g.data[b].stream = f.from.stream /\ g.data[b].freq = f.from.freq
    <2>1. CASE b \in pos + 1..pos + Len(new)
      <3>1. b - pos \in 1..n
        BY <1>1, <2>1
      <3>2. g.data[b] = new[b - pos]
        BY <1>5, <2>1
      <3> QED
        BY <1>4, <3>1, <3>2
    <2>2. CASE b \notin pos + 1..pos + Len(new)
      <3>1. b <= Len(f.data) /\ g.data[b] = f.data[b]
        BY <1>5, <1>8, <2>2
      <3>2. b \in 1..Len(f.data)
        BY <1>1, <1>6, <3>1
      <3> QED
        BY <1>3, <1>8, <3>1, <3>2
    <2> QED
      BY <2>1, <2>2
  <1> QED
    BY <1>6, <1>7, <1>8 DEF g

\* A session in step meets the packet that follows: nothing is missing, and it
\* is in step with the one after it.
LEMMA MovedInStep ==
  ASSUME NEW f \in Recordings, NEW sp \in Sessions, NEW p \in Packets,
         p.stream = f.from.stream, Matches(sp, p), InStep(sp, f), Follows(f, p),
         p.idx = f.from.idx + f.packets
  PROVE  LET n == f.packets + 1  r == Moved(sp, p).rtp IN
         /\ Offset(sp, p) = 0 /\ Sought(sp, p) = Len(f.data)
         /\ r.init /\ r.ssrc = sp.ssrc
         /\ r.seq = (f.from.idx + n) % SeqMod
         /\ r.timestamp = (Base + f.from.first + n * PacketSize) % TimeMod
  <1> DEFINE h == Header(p)
             k == f.packets * PacketSize
             i == p.idx
             t == Base + p.first
             r == Moved(sp, p).rtp
  <1>1. /\ SeqMod \in Nat \ {0} /\ TimeMod \in Nat \ {0} /\ PacketSize \in Nat \ {0}
        /\ f.packets \in Nat /\ f.from \in Packets /\ f.from.idx \in Nat
        /\ f.from.first \in Nat /\ p.first \in Nat /\ i \in Int /\ Base \in Nat
    BY Constants DEF Recordings, Packets
  <1>2. k \in Nat
    <2>1. f.packets \in Nat /\ PacketSize \in Nat
      BY <1>1
    <2> QED
      BY <2>1
  <1>3. p.first = f.from.first + k
    BY DEF Follows
  <1>4. t = Base + f.from.first + k /\ t \in Int
    BY <1>1, <1>2, <1>3
  <1>5. h \in Headers /\ h.ssrc = p.stream.ssrc /\ h.seq = i % SeqMod /\ h.timestamp = t % TimeMod
    BY HeaderType
  <1>6. sp.rtp \in RtpStates(Ssrcs) /\ sp.pos \in Nat /\ sp.ssrc = p.stream.ssrc
        /\ sp.pos = Len(f.data)
    BY DEF Sessions, Matches, InStep
  <1>7. sp.rtp.init => /\ sp.rtp.ssrc = h.ssrc /\ sp.rtp.seq = h.seq
                       /\ sp.rtp.timestamp = h.timestamp
    BY <1>4, <1>5, <1>6 DEF InStep
  <1>8. r = Processed(sp.rtp, h, PacketSize)
    BY MovedType
  <1> HIDE DEF h, k, i, t, r
  <1>9. /\ ~OldSequence(sp.rtp, h) /\ TimeStep(sp.rtp, h) = 0
        /\ r.init /\ r.ssrc = h.ssrc /\ r.seq = (h.seq + 1) % SeqMod
        /\ r.timestamp = (h.timestamp + PacketSize) % TimeMod
    <2>1. PacketSize \in Nat
      BY <1>1
    <2> QED
      BY <1>5, <1>6, <1>7, <1>8, <2>1, Expected
  <1>10. Offset(sp, p) = 0
    BY <1>9 DEF Offset, h
  <1>11. Sought(sp, p) = Len(f.data)
    BY <1>6, <1>10 DEF Sought
  <1>12. ((i % SeqMod) + 1) % SeqMod = (i + 1) % SeqMod
    <2>1. SeqMod \in Nat \ {0} /\ i \in Int /\ 1 \in Int
      BY <1>1 DEF i
    <2> QED
      BY <2>1, ModAdd
  <1>13. ((t % TimeMod) + PacketSize) % TimeMod = (t + PacketSize) % TimeMod
    <2>1. PacketSize \in Int
      BY <1>1
    <2> QED
      BY <1>1, <1>4, <2>1, ModAdd
  <1>14. i + 1 = f.from.idx + (f.packets + 1)
    BY <1>1 DEF i
  <1>15. t + PacketSize = Base + f.from.first + (f.packets + 1) * PacketSize
    <2>1. (f.packets + 1) * PacketSize = k + PacketSize
      BY <1>1 DEF k
    <2> QED
      BY <1>1, <1>2, <1>4, <2>1
  <1> QED
    BY <1>5, <1>6, <1>9, <1>10, <1>11, <1>12, <1>13, <1>14, <1>15 DEF r

\* A recording that is whole is whole with the packet that follows.
LEMMA ExtendedWhole ==
  ASSUME NEW f \in Recordings, NEW sp \in Sessions, NEW p \in Packets, Whole(f),
         p.stream = f.from.stream, p.freq = f.from.freq,
         Offset(sp, p) = 0, Sought(sp, p) = Len(f.data), Follows(f, p)
  PROVE  /\ Whole(Extended(f, sp, p))
         /\ Len(Extended(f, sp, p).data) = Len(f.data) + Len(Payload(p))
  <1> DEFINE g == Extended(f, sp, p)
             data == f.data
             old == Len(data)
             new == Payload(p)
             size == SampleSize(p.stream.type)
             n == PacketSize * size
             k == p.first * size
             k0 == f.from.first * size
  <1>1. /\ data \in Seq(Bytes) /\ f.safe \in Seq(Bytes) /\ old \in Nat
        /\ new \in Seq(Bytes) /\ Len(new) = n /\ Len(new) \in Nat
        /\ \A b \in 1..n : new[b] = ByteAt(p, k + b - 1)
        /\ Len(f.safe) \in Nat
    BY PayloadType, LenProperties DEF Recordings
  <1>2. size \in Nat
    BY SampleSizeNat
  <1>3. /\ g.data = Written(data, old, new) /\ g.safe = f.safe
        /\ g.packets = f.packets + 1 /\ g.from = f.from
    BY ExtendedType
  <1>4. /\ old = f.packets * n
        /\ \A b \in 1..old : data[b] = ByteAt(f.from, k0 + b - 1)
        /\ Len(f.safe) <= old /\ \A b \in 1..Len(f.safe) : f.safe[b] = data[b]
    BY DEF Whole
  <1>5. k = k0 + old
    <2> HIDE DEF size
    <2>1. p.first = f.from.first + f.packets * PacketSize
      BY DEF Follows
    <2>2. f.from.first \in Nat /\ f.packets \in Nat /\ PacketSize \in Nat
      BY Constants DEF Recordings, Packets
    <2>3. (f.from.first + f.packets * PacketSize) * size
            = f.from.first * size + f.packets * (PacketSize * size)
      BY <1>2, <2>2
    <2> QED
      BY <1>4, <2>1, <2>3
  <1>6. k0 \in Nat
    <2>1. f.from.first \in Nat
      BY DEF Recordings, Packets
    <2> HIDE DEF size
    <2> QED
      BY <1>2, <2>1
  <1>7. \A x : ByteAt(p, x) = ByteAt(f.from, x)
    BY DEF ByteAt
  <1>8. (f.packets + 1) * n = old + n
    <2>1. f.packets \in Nat /\ n \in Nat
      BY <1>1 DEF Recordings
    <2> HIDE DEF n
    <2> QED
      BY <1>4, <2>1
  <1> HIDE DEF g, data, old, new, n, k, k0
  <1>9. /\ Len(g.data) = (IF old + Len(new) > Len(data) THEN old + Len(new) ELSE Len(data))
        /\ \A b \in 1..Len(g.data) :
             g.data[b] = (IF b \in old + 1..old + Len(new) THEN new[b - old]
                          ELSE IF b <= Len(data) THEN data[b] ELSE Hole)
    <2> DEFINE w == Written(data, old, new)
    <2>1. /\ Len(w) = (IF old + Len(new) > Len(data) THEN old + Len(new) ELSE Len(data))
          /\ \A b \in 1..Len(w) :
               w[b] = (IF b \in old + 1..old + Len(new) THEN new[b - old]
                       ELSE IF b <= Len(data) THEN data[b] ELSE Hole)
      BY <1>1, WrittenType
    <2> HIDE DEF w
    <2>2. g.data = w
      BY <1>3 DEF w
    <2> QED
      BY <2>1, <2>2
  <1>10. old = Len(data)
    BY DEF old
  <1>11. Len(g.data) = old + n
    BY <1>1, <1>9, <1>10
  <1>12. ASSUME NEW b \in 1..old
         PROVE  g.data[b] = data[b]
    <2>1. b \in 1..Len(g.data) /\ b \notin old + 1..old + Len(new) /\ b <= Len(data)
      BY <1>1, <1>10, <1>11
    <2> QED
      BY <1>9, <2>1
  <1>13. ASSUME NEW b \in 1..Len(g.data)
         PROVE  g.data[b] = ByteAt(f.from, k0 + b - 1)
    <2>1. CASE b <= old
      <3>1. b \in 1..old
        BY <1>1, <1>11, <2>1
      <3> QED
        BY <1>4, <1>12, <3>1
    <2>2. CASE b > old
      <3>1. b \in old + 1..old + Len(new) /\ b - old \in 1..n
        BY <1>1, <1>11, <2>2
      <3>2. g.data[b] = ByteAt(p, k + (b - old) - 1)
        BY <1>1, <1>9, <3>1
      <3>3. k + (b - old) - 1 = k0 + b - 1
        BY <1>1, <1>5, <1>6, <3>1
      <3> QED
        BY <1>7, <3>2, <3>3
    <2>3. b \in Int /\ old \in Int
      BY <1>1, <1>11
    <2> QED
      BY <2>1, <2>2, <2>3
  <1>14. /\ Len(g.safe) <= Len(g.data)
         /\ \A b \in 1..Len(g.safe) : g.safe[b] = g.data[b]
    <2>1. Len(g.safe) <= Len(g.data)
      BY <1>1, <1>3, <1>4, <1>11
    <2>2. ASSUME NEW b \in 1..Len(g.safe)
          PROVE  g.safe[b] = g.data[b]
      <3>1. b \in 1..Len(f.safe) /\ b \in 1..old
        BY <1>1, <1>3, <1>4
      <3> QED
        BY <1>3, <1>4, <1>12, <3>1
    <2> QED
      BY <2>1, <2>2
  <1>15. /\ Len(g.data) = g.packets * n /\ g.from.stream.type = p.stream.type
         /\ \A b \in 1..Len(g.data) : g.data[b] = ByteAt(g.from, k0 + b - 1)
    BY <1>3, <1>8, <1>11, <1>13
  <1>16. Whole(g)
    BY <1>3, <1>14, <1>15 DEF Whole, n, k0
  <1> QED
    BY <1>1, <1>10, <1>11, <1>16 DEF g, data, new

-----------------------------------------------------------------------------
(* The steps of the streams and of the network *)

\* The packet a recording ends with is one of the stream and frequency it began with.
LEMMA LatestType ==
  ASSUME NEW f \in Recordings
  PROVE  Latest(f) \in Packets /\ Latest(f).stream = f.from.stream /\ Latest(f).freq = f.from.freq
  <1> DEFINE k == IF f.packets = 0 THEN 0 ELSE f.packets - 1
             a == f.from.first + k * PacketSize
             b == f.from.idx + k
  <1>1. f.from \in Packets /\ f.packets \in Nat /\ PacketSize \in Nat
    BY Constants DEF Recordings
  <1>2. k \in Nat /\ f.from.first \in Nat /\ f.from.idx \in Nat
    BY <1>1 DEF Packets
  <1>3. a \in Nat /\ b \in Nat
    <2> HIDE DEF k
    <2> QED
      BY <1>1, <1>2
  <1>4. Latest(f) = [f.from EXCEPT !.first = a, !.idx = b]
    BY DEF Latest
  <1> HIDE DEF a, b
  <1> QED
    BY <1>1, <1>3, <1>4 DEF Packets

\* What a session and its file are.
LEMMA SessionFile ==
  ASSUME Types, SessionsSound, NEW i \in DOMAIN sessions
  PROVE  /\ sessions[i] \in Sessions /\ i \in 1..Len(sessions) /\ Len(sessions) \in Nat
         /\ sessions[i].file # NoFile => /\ sessions[i].file \in DOMAIN files
                                         /\ files[sessions[i].file] \in Recordings
  <1>1. i \in 1..Len(sessions) /\ Len(sessions) \in Nat
    BY LenProperties DEF Types
  <1>2. sessions[i] \in Sessions
    BY <1>1, ElementOfSeq DEF Types
  <1>3. DOMAIN files = 1..Len(files) /\ files \in Seq(Recordings)
    BY LenProperties DEF Types
  <1>4. sessions[i].file # NoFile => sessions[i].file \in DOMAIN files
    BY DEF SessionsSound, SessionSound
  <1> QED
    BY <1>1, <1>2, <1>3, <1>4, ElementOfSeq

\* What a recording is.
LEMMA FileType ==
  ASSUME Types, NEW i \in DOMAIN files
  PROVE  files[i] \in Recordings /\ DOMAIN files = 1..Len(files) /\ Len(files) \in Nat
  <1>1. DOMAIN files = 1..Len(files) /\ files \in Seq(Recordings) /\ Len(files) \in Nat
    BY LenProperties DEF Types
  <1> QED
    BY <1>1, ElementOfSeq

\* All packets a session may have to follow are packets.
LEMMA KnownType ==
  ASSUME Types, SessionsSound
  PROVE  InHand \cup Lasts \subseteq Packets
  <1>1. InHand \subseteq Packets
    BY DEF Types, InHand
  <1>2. Lasts \subseteq Packets
    BY SessionFile, LatestType DEF Lasts, Undisturbed
  <1> QED
    BY <1>1, <1>2

\* The spacing of packets is that of those that are left.
LEMMA SpacingKept ==
  ASSUME Spacing, UNCHANGED <<clock, sent>>,
         InHand' \cup Lasts' \subseteq InHand \cup Lasts
  PROVE  Spacing'
  <1>1. \A p : Past(p)' = Past(p)
    BY DEF Past
  <1>2. \A p, q : Apart(p, q)' = Apart(p, q)
    BY DEF Apart
  <1> QED
    BY <1>1, <1>2 DEF Spacing

\* Nothing of the program changes, and the network holds what it did or less.
LEMMA OutsideStep ==
  ASSUME RInv, UNCHANGED recVars
  PROVE  /\ SessionsSound' /\ OwnFiles' /\ Stage' /\ FilesSound'
         /\ Lasts' = Lasts /\ Busy' = Busy
         /\ InHand' = net' \cup (IF Busy THEN {pkt} ELSE {})
  <1> USE DEF RInv, recVars
  <1>1. UNCHANGED <<files, pc, pkt, sessions, runs>>
    OBVIOUS
  <1>2. SessionsSound'
    BY <1>1 DEF SessionsSound, SessionSound
  <1>3. OwnFiles'
    BY <1>1 DEF OwnFiles
  <1>4. Stage'
    BY <1>1 DEF Stage
  <1>5. FilesSound'
    BY <1>1 DEF FilesSound
  <1>6. Busy' = Busy
    BY <1>1 DEF Busy
  <1>7. Lasts' = Lasts
    BY <1>1 DEF Lasts, Undisturbed
  <1> QED
    BY <1>1, <1>2, <1>3, <1>4, <1>5, <1>6, <1>7 DEF InHand

\* A packet sent is a packet apart from all that the sender has made before.
LEMMA SendStep ==
  ASSUME RInv, NEW s \in Streams, Send(s)
  PROVE  RInv'
  <1> DEFINE K == InHand \cup Lasts
  <1>4. PacketSize \in Nat \ {0} /\ Types /\ K \subseteq Packets
    BY Constants, KnownType DEF RInv
  <1>5. PICK q \in Packets :
          q = [stream |-> s, freq |-> tuned[s], first |-> clock[s], idx |-> sent[s]]
    BY <1>4 DEF Types, Packets
  <1>1. /\ UNCHANGED recVars /\ tuned' = tuned
        /\ sent' = [sent EXCEPT ![s] = @ + 1] /\ clock' = [clock EXCEPT ![s] = @ + PacketSize]
        /\ net' = net \/ net' = net \cup {q}
    BY <1>5 DEF Send
  <1>2. /\ SessionsSound' /\ OwnFiles' /\ Stage' /\ FilesSound'
        /\ Lasts' = Lasts /\ Busy' = Busy
        /\ InHand' = net' \cup (IF Busy THEN {pkt} ELSE {})
    BY <1>1, OutsideStep
  <1>3. InHand' \subseteq InHand \cup {q}
    BY <1>1, <1>2 DEF InHand
  <1>6. Types'
    <2>1. net' \in SUBSET Packets
      BY <1>1, <1>4, <1>5 DEF Types
    <2>2. sent' \in [Streams -> Nat] /\ clock' \in [Streams -> Nat]
      BY <1>1, <1>4 DEF Types
    <2>3. UNCHANGED <<files, pc, pkt, sessions, total, runs>>
      BY <1>1 DEF recVars
    <2> QED
      BY <1>1, <1>2, <1>4, <2>1, <2>2, <2>3 DEF Types
  <1>7. Plain'
    <2>1. \A r \in Streams : r.type # "iq" => tuned'[r] = 0
      BY <1>1 DEF RInv, Plain
    <2>2. q.stream.type # "iq" => q.freq = 0
      BY <1>5 DEF RInv, Plain
    <2> QED
      BY <1>3, <2>1, <2>2 DEF RInv, Plain
  <1>8. q.stream = s /\ q.first = clock[s] /\ q.idx = sent[s]
    BY <1>5
  <1>9. clock \in [Streams -> Nat] /\ sent \in [Streams -> Nat]
    BY <1>4 DEF Types
  <1>10. /\ sent'[s] = sent[s] + 1 /\ clock'[s] = clock[s] + PacketSize
         /\ \A r \in Streams : r # s => sent'[r] = sent[r] /\ clock'[r] = clock[r]
    BY <1>1, <1>9
  <1> HIDE DEF K
  <1>11. ASSUME NEW p \in K
         PROVE  Past(p)' /\ Apart(p, q) /\ Apart(q, p)
    <2>1. p \in Packets /\ p.stream \in Streams /\ p.idx \in Nat /\ p.first \in Nat /\ Past(p)
      BY <1>4 DEF RInv, Spacing, K, Packets
    <2>2. CASE p.stream # s
      BY <1>8, <1>10, <2>1, <2>2 DEF Past, Apart
    <2>3. CASE p.stream = s
      <3> DEFINE d == sent[s] - p.idx
      <3>1. d \in Int /\ d > 0 /\ p.first + d * PacketSize <= clock[s]
        BY <1>9, <2>1, <2>3 DEF Past
      <3>2. (sent[s] + 1) - p.idx = d + 1
        BY <1>9, <2>1
      <3>3. sent[s] \in Nat /\ clock[s] \in Nat
        BY <1>9
      <3>4. p.idx < sent[s]
        BY <3>1, <3>3, <2>1
      <3>5. Apart(p, q) /\ Apart(q, p)
        BY <1>8, <2>1, <2>3, <3>1, <3>3, <3>4 DEF Apart
      <3> HIDE DEF d
      <3>6. (d + 1) * PacketSize = d * PacketSize + PacketSize /\ d * PacketSize \in Int
        BY <1>4, <3>1
      <3>7. p.first + (d + 1) * PacketSize <= clock[s] + PacketSize
        BY <1>4, <2>1, <3>1, <3>3, <3>6
      <3>8. Past(p)'
        BY <1>10, <2>1, <2>3, <3>2, <3>3, <3>4, <3>7 DEF Past
      <3> QED
        BY <3>5, <3>8
    <2> QED
      BY <2>2, <2>3
  <1>12. Past(q)' /\ Apart(q, q)
    <2>1. sent[s] \in Nat /\ clock[s] \in Nat
      BY <1>9
    <2>2. (sent[s] + 1) - sent[s] = 1 /\ 1 * PacketSize = PacketSize
      BY <1>4, <2>1
    <2>3. Past(q)'
      BY <1>4, <1>8, <1>10, <2>1, <2>2 DEF Past
    <2> QED
      BY <1>8, <2>1, <2>3 DEF Apart
  <1>13. \A p, r : Apart(p, r)' = Apart(p, r)
    BY DEF Apart
  <1>14. \A p, r \in K : Apart(p, r)
    BY DEF RInv, Spacing, K
  <1>15. InHand' \cup Lasts' \subseteq K \cup {q}
    BY <1>2, <1>3 DEF K
  <1>16. \A p \in K \cup {q} : Past(p)'
    BY <1>11, <1>12
  <1>17. \A p, r \in K \cup {q} : Apart(p, r)'
    BY <1>11, <1>12, <1>13, <1>14
  <1>18. Spacing'
    BY <1>15, <1>16, <1>17 DEF Spacing
  <1> QED
    BY <1>2, <1>6, <1>7, <1>18 DEF RInv

\* Time goes on.
LEMMA PauseStep ==
  ASSUME RInv, NEW s \in Streams, Pause(s)
  PROVE  RInv'
  <1> DEFINE K == InHand \cup Lasts
  <1>1. /\ UNCHANGED recVars /\ UNCHANGED <<sent, tuned, net>>
        /\ clock' = [clock EXCEPT ![s] = @ + PacketSize]
    BY DEF Pause
  <1>2. /\ SessionsSound' /\ OwnFiles' /\ Stage' /\ FilesSound'
        /\ Lasts' = Lasts /\ Busy' = Busy /\ InHand' = InHand
    BY <1>1, OutsideStep DEF InHand
  <1>3. /\ PacketSize \in Nat \ {0} /\ Types /\ K \subseteq Packets
        /\ clock \in [Streams -> Nat] /\ sent \in [Streams -> Nat]
    BY Constants, KnownType DEF RInv, Types
  <1>4. clock' \in [Streams -> Nat] /\ \A r \in Streams : clock'[r] >= clock[r]
    BY <1>1, <1>3
  <1>5. Types'
    <2>1. UNCHANGED <<files, pc, pkt, sessions, total, runs>>
      BY <1>1 DEF recVars
    <2> QED
      BY <1>1, <1>2, <1>3, <1>4, <2>1 DEF Types
  <1>6. Plain'
    BY <1>1, <1>2 DEF RInv, Plain
  <1> HIDE DEF K
  <1>7. ASSUME NEW p \in K
        PROVE  Past(p)'
    <2>1. p.stream \in Streams /\ p.idx \in Nat /\ p.first \in Nat /\ Past(p)
      BY <1>3 DEF RInv, Spacing, K, Packets
    <2> DEFINE r == p.stream
               d == (sent[r] - p.idx) * PacketSize
    <2>2. d \in Int /\ p.first + d <= clock[r] /\ p.idx < sent[r]
      BY <1>3, <2>1 DEF Past
    <2>3. clock[r] \in Nat /\ clock'[r] \in Nat /\ clock'[r] >= clock[r]
      BY <1>3, <1>4, <2>1
    <2> HIDE DEF d
    <2>4. p.first + d <= clock'[r]
      BY <2>1, <2>2, <2>3
    <2> QED
      BY <1>1, <2>2, <2>4 DEF Past, d
  <1>8. \A p, r : Apart(p, r)' = Apart(p, r)
    BY DEF Apart
  <1>9. Spacing'
    BY <1>2, <1>7, <1>8 DEF RInv, Spacing, K
  <1> QED
    BY <1>2, <1>5, <1>6, <1>9 DEF RInv

\* A retune changes the frequency of the packets to come, and nothing recorded.
LEMMA RetuneStep ==
  ASSUME RInv, NEW s \in Streams, Retune(s)
  PROVE  RInv'
  <1>1. /\ UNCHANGED recVars /\ UNCHANGED <<clock, sent, net>> /\ s.type = "iq"
        /\ \E f \in Freqs : tuned' = [tuned EXCEPT ![s] = f]
    BY DEF Retune
  <1>2. /\ SessionsSound' /\ OwnFiles' /\ Stage' /\ FilesSound'
        /\ Lasts' = Lasts /\ Busy' = Busy /\ InHand' = InHand
    BY <1>1, OutsideStep DEF InHand
  <1>3. Types'
    <2>1. UNCHANGED <<files, pc, pkt, sessions, total, runs>>
      BY <1>1 DEF recVars
    <2>2. tuned' \in [Streams -> Freqs \cup {0}]
      BY <1>1 DEF RInv, Types
    <2> QED
      BY <1>1, <1>2, <2>1, <2>2 DEF RInv, Types
  <1>4. Plain'
    <2>1. \A r \in Streams : r.type # "iq" => tuned'[r] = tuned[r]
      BY <1>1 DEF RInv, Types
    <2> QED
      BY <1>2, <2>1 DEF RInv, Plain
  <1>5. Spacing'
    BY <1>1, <1>2, SpacingKept DEF RInv
  <1> QED
    BY <1>2, <1>3, <1>4, <1>5 DEF RInv

\* A packet lost leaves one fewer to account for.
LEMMA LoseStep ==
  ASSUME RInv, NEW p \in net, Lose(p)
  PROVE  RInv'
  <1>1. UNCHANGED recVars /\ UNCHANGED <<clock, sent, tuned>> /\ net' = net \ {p}
    BY DEF Lose
  <1>2. /\ SessionsSound' /\ OwnFiles' /\ Stage' /\ FilesSound'
        /\ Lasts' = Lasts /\ Busy' = Busy
        /\ InHand' = net' \cup (IF Busy THEN {pkt} ELSE {})
    BY <1>1, OutsideStep
  <1>3. InHand' \subseteq InHand
    BY <1>1, <1>2 DEF InHand
  <1>4. Types'
    <2>1. UNCHANGED <<files, pc, pkt, sessions, total, runs>>
      BY <1>1 DEF recVars
    <2> QED
      BY <1>1, <1>2, <2>1 DEF RInv, Types
  <1>5. Plain'
    BY <1>1, <1>3 DEF RInv, Plain
  <1>6. Spacing'
    BY <1>1, <1>2, <1>3, SpacingKept DEF RInv
  <1> QED
    BY <1>2, <1>4, <1>5, <1>6 DEF RInv

-----------------------------------------------------------------------------
(* The steps of iqrecord *)

\* iqrecord starts without sessions.
LEMMA StartStep ==
  ASSUME RInv, Start
  PROVE  RInv'
  <1>1. /\ pc = "down" /\ pc' = "recv" /\ runs' = runs + 1
        /\ UNCHANGED <<clock, sent, tuned, net, files, pkt, sessions, total>>
    BY DEF Start, netVars
  <1>2. sessions = <<>> /\ sessions' = <<>>
    BY <1>1 DEF RInv, Stage
  <1>3. DOMAIN sessions' = {} /\ DOMAIN sessions = {}
    BY <1>2, EmptySeq
  <1>4. ~Busy /\ ~Busy'
    BY <1>1 DEF Busy
  <1>5. InHand' = InHand /\ Lasts' = {}
    BY <1>1, <1>3, <1>4 DEF InHand, Lasts, Undisturbed
  <1>6. Types'
    BY <1>1, <1>4 DEF RInv, Types
  <1>7. Plain'
    BY <1>1, <1>5 DEF RInv, Plain
  <1>8. Spacing'
    BY <1>1, <1>5, SpacingKept DEF RInv
  <1>9. SessionsSound' /\ OwnFiles'
    BY <1>3 DEF SessionsSound, OwnFiles
  <1>10. Stage'
    BY <1>1 DEF Stage
  <1>11. FilesSound'
    BY <1>1 DEF RInv, FilesSound
  <1> QED
    BY <1>6, <1>7, <1>8, <1>9, <1>10, <1>11 DEF RInv

\* What is on disk of a file when the program has ended.
Left(f, all) == IF all THEN [f EXCEPT !.safe = f.data] ELSE f

\* What is left of a sound file, when the program ends, is sound.
LEMMA LeftSound ==
  ASSUME NEW f \in Recordings, NEW all \in BOOLEAN, FileSound(f)
  PROVE  /\ Left(f, all) \in Recordings /\ FileSound(Left(f, all))
         /\ Left(f, all).data = f.data /\ Left(f, all).run = f.run
  <1>1. CASE ~all
    BY <1>1 DEF Left
  <1>2. CASE all
    <2> DEFINE g == Left(f, all)
    <2>1. g = [name |-> f.name, attrs |-> f.attrs, data |-> f.data, safe |-> f.data,
               from |-> f.from, packets |-> f.packets, smooth |-> f.smooth, run |-> f.run]
      BY <1>2 DEF Left, Recordings
    <2>2. g \in Recordings
      BY <2>1 DEF Recordings
    <2>3. /\ g.data = f.data /\ g.safe = f.data /\ g.attrs = f.attrs /\ g.from = f.from
          /\ g.packets = f.packets /\ g.smooth = f.smooth /\ g.run = f.run
      BY <2>1
    <2>4. f.smooth => Whole(g)
      <3>1. Len(f.data) \in Nat
        BY LenProperties DEF Recordings
      <3> HIDE DEF g
      <3>2. f.smooth => Whole(f)
        BY DEF FileSound
      <3>3. Whole(f) => Whole(g)
        BY <2>3, <3>1 DEF Whole
      <3> QED
        BY <3>2, <3>3
    <2> HIDE DEF g
    <2>5. FileSound(g)
      BY <2>3, <2>4 DEF FileSound
    <2> QED
      BY <2>2, <2>3, <2>5 DEF g
  <1> QED
    BY <1>1, <1>2

\* However the program ends: the list of sessions goes, the files stay.
LEMMA DownStep ==
  ASSUME RInv, NEW how, Down(how), NEW W,
         files' = [i \in DOMAIN files |-> Left(files[i], i \in W)]
  PROVE  RInv'
  <1>1. /\ pc' = "down" /\ sessions' = <<>> /\ total' = 0 /\ net' = {}
        /\ UNCHANGED <<clock, sent, tuned, runs>>
    BY DEF Down
  <1>2. DOMAIN sessions' = {} /\ sessions' \in Seq(Sessions)
    BY <1>1, EmptySeq
  <1>3. ~Busy'
    BY <1>1 DEF Busy
  <1>4. InHand' = {} /\ Lasts' = {}
    BY <1>1, <1>2, <1>3 DEF InHand, Lasts, Undisturbed
  <1> DEFINE n == Len(files)
  <1>5. n \in Nat /\ DOMAIN files = 1..n
    BY LenProperties DEF RInv, Types
  <1>6. ASSUME NEW i \in DOMAIN files
        PROVE  Left(files[i], i \in W) \in Recordings /\ FileSound(Left(files[i], i \in W))
    <2>1. files[i] \in Recordings /\ FileSound(files[i])
      BY FileType DEF RInv, FilesSound
    <2> DEFINE x == i \in W
    <2>2. x \in BOOLEAN
      OBVIOUS
    <2> HIDE DEF x
    <2>3. Left(files[i], x) \in Recordings /\ FileSound(Left(files[i], x))
      BY <2>1, <2>2, LeftSound
    <2> QED
      BY <2>3 DEF x
  <1> HIDE DEF n
  <1>7. files' \in [1..n -> Recordings]
    BY <1>5, <1>6
  <1>8. files' \in Seq(Recordings)
    BY <1>5, <1>7, SeqDef
  <1>9. Types'
    BY <1>1, <1>2, <1>3, <1>8 DEF RInv, Types
  <1>10. Plain'
    BY <1>1, <1>4 DEF RInv, Plain
  <1>11. Spacing'
    BY <1>4 DEF Spacing
  <1>12. SessionsSound' /\ OwnFiles'
    BY <1>2 DEF SessionsSound, OwnFiles
  <1>13. Stage'
    BY <1>1 DEF Stage
  <1>14. FilesSound'
    BY <1>6 DEF FilesSound
  <1> QED
    BY <1>9, <1>10, <1>11, <1>12, <1>13, <1>14 DEF RInv

\* A packet is taken, and its session is in the list.
LEMMA ReceiveStep ==
  ASSUME RInv, NEW p \in net, Receive(p)
  PROVE  RInv'
  <1>1. /\ pc = "recv" /\ net' \subseteq net /\ pkt' = p
        /\ UNCHANGED <<clock, sent, tuned, files, total, runs>>
    BY DEF Receive
  <1>2. /\ Types /\ p \in Packets /\ sessions \in Seq(Sessions) /\ Len(sessions) \in Nat
        /\ DOMAIN sessions = 1..Len(sessions)
    BY LenProperties DEF RInv, Types
  <1>3. InHand' \subseteq InHand
    BY <1>1 DEF InHand, Busy
  <1>4. Plain'
    BY <1>1, <1>3 DEF RInv, Plain
  <1>5. FilesSound'
    BY <1>1 DEF RInv, FilesSound
  <1>6. net' \in SUBSET Packets
    BY <1>1, <1>2 DEF Types
  <1>7. CASE \E i \in DOMAIN sessions : Matches(sessions[i], p)
    <2>1. pc' = "write" /\ UNCHANGED sessions
      BY <1>7 DEF Receive
    <2>2. Types'
      BY <1>1, <1>2, <1>6, <2>1 DEF Types, Busy
    <2>3. Lasts' = Lasts
      BY <1>1, <2>1 DEF Lasts, Undisturbed
    <2>4. Spacing'
      BY <1>1, <1>3, <2>3, SpacingKept DEF RInv
    <2>5. SessionsSound'
      BY <1>1, <2>1 DEF RInv, SessionsSound, SessionSound
    <2>6. OwnFiles'
      BY <2>1 DEF RInv, OwnFiles
    <2>7. Stage'
      BY <1>1, <1>7, <2>1 DEF Stage
    <2> QED
      BY <1>4, <1>5, <2>2, <2>4, <2>5, <2>6, <2>7 DEF RInv
  <1>8. CASE ~ \E i \in DOMAIN sessions : Matches(sessions[i], p)
    <2> DEFINE n == Len(sessions)
    <2>1. PICK e : e = NewEntry(p)
      OBVIOUS
    <2>2. pc' = "listed" /\ sessions' = <<e>> \o sessions
      BY <1>8, <2>1 DEF Receive
    <2>3. /\ e.file = NoFile /\ e.pos = 0 /\ e.rtp = Unopened
          /\ e.ssrc = p.stream.ssrc /\ e.type = p.stream.type /\ e.sender = p.stream.sender
          /\ e.freq = p.freq
      BY <2>1 DEF NewEntry
    <2>4. e \in Sessions
      <3>1. Unopened \in RtpStates(Ssrcs)
        BY Constants DEF Unopened, RtpStates
      <3>2. p.stream \in Streams /\ p.freq \in Freqs \cup {0}
        BY <1>2 DEF Packets
      <3>3. /\ p.stream.ssrc \in Ssrcs /\ p.stream.type \in {s.type : s \in Streams}
            /\ p.stream.sender \in {s.sender : s \in Streams}
        BY <3>2 DEF Ssrcs
      <3>4. NoFile \in Nat /\ 0 \in Nat
        BY DEF NoFile
      <3> QED
        BY <2>1, <3>1, <3>2, <3>3, <3>4 DEF NewEntry, Sessions
    <2>5. <<e>> \in Seq(Sessions) /\ Len(<<e>>) = 1 /\ <<e>>[1] = e
      BY <2>4
    <2>6. /\ sessions' \in Seq(Sessions) /\ Len(sessions') = 1 + n
          /\ \A i \in 1..1 + n : sessions'[i] = IF i <= 1 THEN <<e>>[i] ELSE sessions[i - 1]
      BY <1>2, <2>2, <2>5, ConcatProperties
    <2>7. DOMAIN sessions' = 1..1 + n
      BY <2>6, LenProperties
    <2>8. sessions'[1] = e /\ \A i \in 2..1 + n : sessions'[i] = sessions[i - 1] /\ i - 1 \in 1..n
      BY <1>2, <2>5, <2>6
    <2> HIDE DEF n
    <2>9. ASSUME NEW i \in DOMAIN sessions', sessions'[i].file # NoFile
          PROVE  i \in 2..1 + n /\ i - 1 \in DOMAIN sessions /\ sessions'[i] = sessions[i - 1]
      <3>1. i # 1
        BY <2>3, <2>8, <2>9
      <3>2. i \in 2..1 + n
        BY <1>2, <2>7, <3>1 DEF n
      <3> QED
        BY <1>2, <2>8, <3>2 DEF n
    <2>10. Types'
      BY <1>1, <1>2, <1>6, <2>2, <2>6 DEF Types, Busy
    <2>11. Lasts' \subseteq Lasts
      BY <1>1, <2>9 DEF Lasts, Undisturbed
    <2>12. Spacing'
      BY <1>1, <1>3, <2>11, SpacingKept DEF RInv
    <2>13. SessionsSound'
      <3>1. SUFFICES ASSUME NEW i \in DOMAIN sessions', sessions'[i].file # NoFile
                     PROVE  SessionSound(i)'
        BY DEF SessionsSound, SessionSound
      <3>2. i - 1 \in DOMAIN sessions /\ sessions'[i] = sessions[i - 1]
        BY <2>9, <3>1
      <3>3. SessionSound(i - 1)
        BY <3>2 DEF RInv, SessionsSound
      <3> QED
        BY <1>1, <3>1, <3>2, <3>3 DEF SessionSound
    <2>14. OwnFiles'
      <3>1. SUFFICES ASSUME NEW i \in DOMAIN sessions', NEW j \in DOMAIN sessions',
                            i # j, sessions'[i].file # NoFile
                     PROVE  sessions'[i].file # sessions'[j].file
        BY DEF OwnFiles
      <3>2. CASE sessions'[j].file = NoFile
        BY <3>1, <3>2
      <3>3. CASE sessions'[j].file # NoFile
        <4>1. /\ i - 1 \in DOMAIN sessions /\ sessions'[i] = sessions[i - 1]
              /\ j - 1 \in DOMAIN sessions /\ sessions'[j] = sessions[j - 1]
              /\ i \in 2..1 + n /\ j \in 2..1 + n
          BY <2>9, <3>1, <3>3
        <4>2. i - 1 # j - 1
          BY <3>1, <4>1
        <4> QED
          BY <3>1, <4>1, <4>2 DEF RInv, OwnFiles
      <3> QED
        BY <3>2, <3>3
    <2>15. Stage'
      <3>1. sessions' # <<>>
        BY <1>2, <2>6, EmptySeq DEF n
      <3>2. Matches(e, p) /\ ~e.rtp.init
        BY <2>3 DEF Matches, Unopened
      <3> QED
        BY <1>1, <2>2, <2>3, <2>8, <3>1, <3>2 DEF Stage
    <2> QED
      BY <1>4, <1>5, <2>10, <2>12, <2>13, <2>14, <2>15 DEF RInv
  <1> QED
    BY <1>7, <1>8

\* The packet is given up with the session.
LEMMA OpenFileFailsStep ==
  ASSUME RInv, OpenFileFails
  PROVE  RInv'
  <1>1. /\ pc = "listed" /\ pc' = "recv"
        /\ UNCHANGED <<clock, sent, tuned, net, files, pkt, sessions, total, runs>>
    BY DEF OpenFileFails, netVars
  <1>2. InHand' \subseteq InHand /\ Lasts' = Lasts
    BY <1>1 DEF InHand, Busy, Lasts, Undisturbed
  <1>3. Types'
    BY <1>1 DEF RInv, Types, Busy
  <1>4. Plain'
    BY <1>1, <1>2 DEF RInv, Plain
  <1>5. Spacing'
    BY <1>1, <1>2, SpacingKept DEF RInv
  <1>6. SessionsSound'
    BY <1>1 DEF RInv, SessionsSound, SessionSound
  <1>7. OwnFiles'
    BY <1>1 DEF RInv, OwnFiles
  <1>8. Stage'
    BY <1>1 DEF Stage
  <1>9. FilesSound'
    BY <1>1 DEF RInv, FilesSound
  <1> QED
    BY <1>3, <1>4, <1>5, <1>6, <1>7, <1>8, <1>9 DEF RInv

\* What the name and the file of a new session are.
LEMMA EmptyFileType ==
  ASSUME RInv, pc = "listed", Free(pkt) # {}
  PROVE  LET e == EmptyFile(pkt, FirstFree(pkt)) IN
         /\ e \in Recordings /\ e.name \notin Names /\ e.data = <<>> /\ e.safe = <<>>
         /\ e.from = pkt /\ e.packets = 0 /\ e.run = runs /\ FileSound(e)
         /\ Latest(e) = pkt /\ e.name = Name(pkt, FirstFree(pkt))
  <1> DEFINE n == FirstFree(pkt)
  <1>1. n \in Nat /\ Name(pkt, n) \notin Names
    BY FirstFreeIsFree
  <1>2. pkt \in Packets /\ runs \in Nat /\ pkt.stream \in Streams
    BY DEF RInv, Types, Busy, Packets
  <1> HIDE DEF n
  <1>3. PICK e : e = EmptyFile(pkt, n)
    OBVIOUS
  <1>4. /\ e = [name |-> Name(pkt, n), attrs |-> NoAttributes, data |-> <<>>, safe |-> <<>>,
                from |-> pkt, packets |-> 0, smooth |-> TRUE, run |-> runs]
    BY <1>3 DEF EmptyFile
  <1>5. e \in Recordings
    <2>1. Name(pkt, n) \in FileNames
      BY <1>1, <1>2 DEF Name, FileNames, Packets, Ssrcs
    <2>2. NoAttributes \in FileAttributes /\ <<>> \in Seq(Bytes) /\ 0 \in Nat /\ TRUE \in BOOLEAN
      BY EmptySeq DEF FileAttributes
    <2> QED
      BY <1>2, <1>4, <2>1, <2>2 DEF Recordings
  <1>6. /\ e.name = Name(pkt, n) /\ e.data = <<>> /\ e.safe = <<>> /\ e.from = pkt
        /\ e.packets = 0 /\ e.run = runs
    BY <1>4
  <1>7. FileSound(e)
    <2>1. Len(e.data) = 0 /\ Len(e.safe) = 0 /\ 1..0 = {}
      BY <1>6, EmptySeq
    <2> DEFINE k == PacketSize * SampleSize(e.from.stream.type)
    <2>2. k \in Nat
      <3> DEFINE s == SampleSize(e.from.stream.type)
      <3>1. s \in Nat
        BY SampleSizeNat
      <3> HIDE DEF s
      <3>2. PacketSize * s \in Nat
        BY <3>1, Constants
      <3> QED
        BY <3>2 DEF s
    <2>3. e.packets * k = 0
      <3> HIDE DEF k
      <3> QED
        BY <1>6, <2>2
    <2>4. Whole(e)
      BY <2>1, <2>3 DEF Whole
    <2>5. pkt.stream.type # "iq" => pkt.freq = 0
      BY DEF RInv, Plain, InHand, Busy
    <2> QED
      BY <1>6, <2>1, <2>4, <2>5 DEF FileSound
  <1>8. Latest(e) = pkt
    <2>1. 0 * PacketSize = 0 /\ pkt.first \in Nat /\ pkt.idx \in Nat
      BY <1>2, Constants DEF Packets
    <2>2. Latest(e) = [pkt EXCEPT !.first = pkt.first + 0 * PacketSize, !.idx = pkt.idx + 0]
      BY <1>6 DEF Latest
    <2>3. pkt.first + 0 * PacketSize = pkt.first /\ pkt.idx + 0 = pkt.idx
      BY <2>1
    <2> QED
      BY <1>2, <2>2, <2>3 DEF Packets
  <1> QED
    BY <1>1, <1>3, <1>5, <1>6, <1>7, <1>8 DEF n

\* create_session: the new file begins with the packet in hand, under a name nothing has.
LEMMA OpenFileStep ==
  ASSUME RInv, OpenFile
  PROVE  RInv'
  <1>1. /\ pc = "listed" /\ pc' = "opened" /\ Free(pkt) # {}
        /\ UNCHANGED <<clock, sent, tuned, net, pkt, total, runs>>
    BY DEF OpenFile, netVars
  <1> DEFINE m == Len(files) + 1
             n == Len(sessions)
  <1>2. /\ Types /\ files \in Seq(Recordings) /\ m \in Nat \ {0} /\ DOMAIN files = 1..m - 1
        /\ sessions \in Seq(Sessions) /\ n \in Nat /\ DOMAIN sessions = 1..n
        /\ Len(files) \in Nat
    BY LenProperties DEF RInv, Types
  <1>3. PICK e \in Recordings :
          /\ e = EmptyFile(pkt, FirstFree(pkt))
          /\ e.name \notin Names /\ e.data = <<>> /\ e.from = pkt /\ e.packets = 0
          /\ e.run = runs /\ FileSound(e) /\ Latest(e) = pkt
          /\ e.name = Name(pkt, FirstFree(pkt))
    BY <1>1, EmptyFileType
  <1>4. files' = Append(files, e)
    BY <1>2, <1>3, OpenedLast DEF OpenFile
  <1>5. sessions' = [sessions EXCEPT ![1].file = m]
    <2>1. SE!SelectInSeq(Append(files, e), LAMBDA g : g.name = e.name) = m
      BY <1>2, <1>3, OpenedLast
    <2>2. sessions' = [sessions EXCEPT ![1].file =
                         SE!SelectInSeq(files', LAMBDA g : g.name = e.name)]
      BY <1>3 DEF OpenFile
    <2> QED
      BY <1>4, <2>1, <2>2
  <1>6. /\ sessions # <<>> /\ Matches(sessions[1], pkt) /\ sessions[1].file = NoFile
        /\ sessions[1].pos = 0 /\ ~sessions[1].rtp.init
    BY <1>1 DEF RInv, Stage
  <1> HIDE DEF m, n
  <1>7. 1 \in 1..n
    <2>1. n # 0
      BY <1>2, <1>6, EmptySeq DEF n
    <2> QED
      BY <1>2, <2>1
  <1>8. PICK sp \in Sessions : sp = sessions[1]
    BY <1>2, <1>7, ElementOfSeq DEF n
  <1>9. PICK new : new = [sp EXCEPT !.file = m]
    OBVIOUS
  <1>10. /\ new \in Sessions /\ new.file = m /\ new.pos = sp.pos /\ new.rtp = sp.rtp
         /\ new.ssrc = sp.ssrc /\ new.type = sp.type /\ new.sender = sp.sender
         /\ new.freq = sp.freq
    BY <1>2, <1>9 DEF Sessions
  <1>11. sessions' = [sessions EXCEPT ![1] = new]
    BY <1>5, <1>8, <1>9
  <1>12. sessions \in [1..n -> Sessions]
    BY <1>2, LenProperties DEF n
  <1>13. /\ sessions' \in [1..n -> Sessions] /\ sessions'[1] = new
         /\ \A i \in 1..n : i # 1 => sessions'[i] = sessions[i]
    BY <1>7, <1>10, <1>11, <1>12
  <1>14. /\ files' \in Seq(Recordings) /\ Len(files') = m /\ files'[m] = e
         /\ \A i \in 1..m - 1 : files'[i] = files[i]
    BY <1>2, <1>3, <1>4, AppendProperties DEF m
  <1>15. DOMAIN files' = 1..m
    BY <1>14, LenProperties
  <1>16. sessions' \in Seq(Sessions) /\ DOMAIN sessions' = 1..n
    BY <1>2, <1>13, SeqDef
  <1>17. Types'
    BY <1>1, <1>2, <1>14, <1>16 DEF Types, Busy
  <1>18. InHand' = InHand /\ pkt \in InHand
    BY <1>1 DEF InHand, Busy
  <1>19. Plain'
    BY <1>1, <1>18 DEF RInv, Plain
  <1>20. ASSUME NEW i \in 1..n, i # 1, sessions[i].file # NoFile
         PROVE  /\ sessions'[i] = sessions[i] /\ sessions[i].file \in 1..m - 1
                /\ files'[sessions[i].file] = files[sessions[i].file]
    BY <1>2, <1>13, <1>14, <1>20, SessionFile DEF RInv
  <1>21. InHand' \cup Lasts' \subseteq InHand \cup Lasts
    <2>1. SUFFICES ASSUME NEW i \in DOMAIN sessions', sessions'[i].file # NoFile,
                          files'[sessions'[i].file].smooth
                   PROVE  Latest(files'[sessions'[i].file]) \in InHand \cup Lasts
      BY <1>18 DEF Lasts, Undisturbed
    <2>2. CASE i = 1
      BY <1>3, <1>10, <1>13, <1>14, <1>18, <2>2
    <2>3. CASE i # 1
      BY <1>2, <1>13, <1>16, <1>20, <2>1, <2>3 DEF Lasts, Undisturbed
    <2> QED
      BY <2>2, <2>3
  <1>22. Spacing'
    BY <1>1, <1>21, SpacingKept DEF RInv
  <1>23. SessionsSound'
    <2>1. SUFFICES ASSUME NEW i \in DOMAIN sessions', sessions'[i].file # NoFile
                   PROVE  SessionSound(i)'
      BY DEF SessionsSound, SessionSound
    <2>2. CASE i = 1
      <3>1. Matches(new, pkt)
        BY <1>6, <1>8, <1>10 DEF Matches
      <3>2. Len(e.data) = 0
        BY <1>3, EmptySeq
      <3>3. InStep(new, e)
        BY <1>3, <1>6, <1>8, <1>10, <3>2 DEF InStep
      <3>4. m \in 1..m
        BY <1>2
      <3> QED
        BY <1>1, <1>3, <1>10, <1>13, <1>14, <1>15, <2>2, <3>1, <3>3, <3>4 DEF SessionSound
    <2>3. CASE i # 1
      <3>1. i \in 1..n /\ i \in DOMAIN sessions
        BY <1>2, <1>16 DEF n
      <3>2. /\ sessions'[i] = sessions[i] /\ sessions[i].file \in 1..m - 1
            /\ files'[sessions[i].file] = files[sessions[i].file]
        BY <1>13, <1>20, <2>1, <2>3, <3>1
      <3>3. SessionSound(i) /\ sessions[i].file \in 1..m
        BY <1>2, <3>1, <3>2 DEF RInv, SessionsSound
      <3> QED
        BY <1>1, <1>15, <2>1, <2>3, <3>2, <3>3 DEF SessionSound
    <2> QED
      BY <2>2, <2>3
  <1>24. OwnFiles'
    <2>1. SUFFICES ASSUME NEW i \in DOMAIN sessions', NEW j \in DOMAIN sessions',
                          i # j, sessions'[i].file # NoFile
                   PROVE  sessions'[i].file # sessions'[j].file
      BY DEF OwnFiles
    <2>2. i \in 1..n /\ j \in 1..n /\ i \in DOMAIN sessions /\ j \in DOMAIN sessions
      BY <1>2, <1>16 DEF n
    <2>3. m # NoFile
      BY <1>2 DEF NoFile
    <2>4. CASE i = 1
      BY <1>2, <1>10, <1>13, <1>20, <2>1, <2>2, <2>3, <2>4
    <2>5. CASE j = 1
      BY <1>2, <1>10, <1>13, <1>20, <2>1, <2>2, <2>3, <2>5
    <2>6. CASE i # 1 /\ j # 1
      BY <1>13, <2>1, <2>2, <2>6 DEF RInv, OwnFiles
    <2> QED
      BY <2>4, <2>5, <2>6
  <1>25. Stage'
    <2>1. sessions' # <<>>
      <3>1. 1 \in DOMAIN sessions' /\ DOMAIN <<>> = {}
        BY <1>7, <1>16
      <3> QED
        BY <3>1
    <2>2. Matches(new, pkt) /\ new.file # NoFile
      BY <1>2, <1>6, <1>8, <1>10 DEF Matches, NoFile
    <2> QED
      BY <1>1, <1>3, <1>10, <1>13, <1>14, <2>1, <2>2 DEF Stage
  <1>26. FilesSound'
    <2>1. SUFFICES ASSUME NEW i \in 1..m
                   PROVE  FileSound(files'[i])
      BY <1>15 DEF FilesSound
    <2>2. CASE i = m
      BY <1>3, <1>14, <2>2
    <2>3. CASE i # m
      <3>1. i \in 1..m - 1
        BY <1>2, <2>3
      <3> QED
        BY <1>2, <1>14, <3>1 DEF RInv, FilesSound, m
    <2> QED
      BY <2>2, <2>3
  <1> QED
    BY <1>17, <1>19, <1>22, <1>23, <1>24, <1>25, <1>26 DEF RInv

\* The attributes are those of the packet the file was opened for.
LEMMA WriteAttributesStep ==
  ASSUME RInv, WriteAttributes
  PROVE  RInv'
  <1>1. /\ pc = "opened" /\ pc' = "write"
        /\ UNCHANGED <<clock, sent, tuned, net, pkt, sessions, total, runs>>
    BY DEF WriteAttributes, netVars
  <1>2. /\ Types /\ files \in Seq(Recordings) /\ DOMAIN files = 1..Len(files) /\ Len(files) \in Nat
        /\ sessions \in Seq(Sessions) /\ DOMAIN sessions = 1..Len(sessions)
        /\ Len(sessions) \in Nat /\ pkt \in Packets /\ pkt \in InHand
    BY <1>1, LenProperties DEF RInv, Types, Busy, InHand
  <1>3. /\ sessions # <<>> /\ Matches(sessions[1], pkt) /\ sessions[1].file # NoFile
        /\ files[sessions[1].file].from = pkt /\ files[sessions[1].file].data = <<>>
    BY <1>1 DEF RInv, Stage
  <1>4. 1 \in DOMAIN sessions
    <2>1. Len(sessions) # 0
      BY <1>2, <1>3, EmptySeq
    <2> QED
      BY <1>2, <2>1
  <1>5. PICK n \in DOMAIN files : n = sessions[1].file
    BY <1>2, <1>3, <1>4, SessionFile DEF RInv
  <1>6. PICK f \in Recordings : f = files[n]
    BY <1>2, <1>5, FileType
  <1>7. PICK a : a = Attributes(pkt)
    OBVIOUS
  <1>8. PICK g : g = [f EXCEPT !.attrs = a]
    OBVIOUS
  <1>9. files' = [files EXCEPT ![n] = g]
    <2>1. Head(sessions) = sessions[1]
      BY <1>2, <1>3
    <2> QED
      BY <1>2, <1>5, <1>6, <1>7, <1>8, <2>1 DEF WriteAttributes
  <1>10. a \in FileAttributes
    <2>1. /\ pkt.stream \in Streams /\ pkt.freq \in Freqs \cup {0}
      BY <1>2 DEF Packets
    <2> QED
      BY <1>7, <2>1 DEF Attributes, FileAttributes
  <1>11. /\ g \in Recordings /\ g.attrs = a /\ g.from = f.from /\ g.packets = f.packets
         /\ g.smooth = f.smooth /\ g.run = f.run /\ g.data = f.data /\ g.safe = f.safe
    <2>1. g = [name |-> f.name, attrs |-> a, data |-> f.data, safe |-> f.safe,
               from |-> f.from, packets |-> f.packets, smooth |-> f.smooth, run |-> f.run]
      BY <1>8 DEF Recordings
    <2>2. g \in Recordings
      BY <1>10, <2>1 DEF Recordings
    <2> QED
      BY <2>1, <2>2
  <1>12. files' \in [1..Len(files) -> Recordings]
    BY <1>2, <1>5, <1>9, <1>11, LenProperties
  <1>13. files' \in Seq(Recordings) /\ DOMAIN files' = DOMAIN files
    BY <1>2, <1>12, SeqDef
  <1>14. files'[n] = g /\ \A i \in DOMAIN files : i # n => files'[i] = files[i]
    BY <1>2, <1>9
  <1>15. Types'
    BY <1>1, <1>2, <1>13 DEF Types, Busy
  <1>16. InHand' = InHand
    BY <1>1 DEF InHand, Busy
  <1>17. Plain'
    BY <1>1, <1>16 DEF RInv, Plain
  <1>18. \A i \in DOMAIN files : /\ Latest(files'[i]) = Latest(files[i])
                                 /\ files'[i].smooth = files[i].smooth
                                 /\ files'[i].run = files[i].run
                                 /\ files'[i].from = files[i].from
                                 /\ files'[i].data = files[i].data
                                 /\ files'[i].packets = files[i].packets
    BY <1>6, <1>11, <1>14 DEF Latest
  <1>19. Lasts' = Lasts
    BY <1>1, <1>18, SessionFile DEF RInv, Lasts, Undisturbed
  <1>20. Spacing'
    BY <1>1, <1>16, <1>19, SpacingKept DEF RInv
  <1>21. SessionsSound'
    <2>1. SUFFICES ASSUME NEW i \in DOMAIN sessions, sessions[i].file # NoFile
                   PROVE  SessionSound(i)'
      BY <1>1 DEF SessionsSound, SessionSound
    <2>2. PICK k \in DOMAIN files : k = sessions[i].file
      BY <2>1, SessionFile DEF RInv
    <2>3. /\ files[k].run = runs /\ Matches(sessions[i], files[k].from)
          /\ i = 1 \/ files[k].attrs = Attributes(files[k].from)
          /\ files[k].smooth => InStep(sessions[i], files[k])
      BY <2>1, <2>2 DEF RInv, SessionsSound, SessionSound
    <2>4. files'[k].attrs = Attributes(files'[k].from)
      <3>1. CASE i = 1
        BY <1>3, <1>5, <1>6, <1>7, <1>11, <1>14, <2>2, <3>1
      <3>2. CASE i # 1
        <4>1. k # n
          BY <1>4, <1>5, <2>1, <2>2, <3>2 DEF RInv, OwnFiles
        <4> QED
          BY <1>14, <2>2, <2>3, <3>2, <4>1
      <3> QED
        BY <3>1, <3>2
    <2>5. files'[k].smooth => InStep(sessions[i], files'[k])
      BY <1>18, <2>2, <2>3 DEF InStep
    <2> QED
      BY <1>1, <1>13, <1>18, <2>2, <2>3, <2>4, <2>5 DEF SessionSound
  <1>22. OwnFiles'
    BY <1>1 DEF RInv, OwnFiles
  <1>23. Stage'
    <2>1. Matches(sessions[1], pkt)
      BY <1>3
    <2> QED
      BY <1>1, <1>4, <2>1 DEF Stage
  <1>24. FilesSound'
    <2>1. SUFFICES ASSUME NEW i \in DOMAIN files
                   PROVE  FileSound(files'[i])
      BY <1>13 DEF FilesSound
    <2>2. CASE i = n
      <3>1. FileSound(f) /\ f.from = pkt /\ f.data = <<>>
        BY <1>3, <1>5, <1>6 DEF RInv, FilesSound
      <3>2. f.smooth => Whole(g)
        BY <1>11, <3>1 DEF FileSound, Whole
      <3>3. FileSound(g)
        BY <1>11, <3>1, <3>2 DEF FileSound
      <3> QED
        BY <1>14, <2>2, <3>3
    <2>3. CASE i # n
      BY <1>14, <2>3 DEF RInv, FilesSound
    <2> QED
      BY <2>2, <2>3
  <1> QED
    BY <1>15, <1>17, <1>20, <1>21, <1>22, <1>23, <1>24 DEF RInv

\* The packet is written, and its session knows what should follow.
LEMMA RecordStep ==
  ASSUME RInv, Record
  PROVE  RInv' /\ \A i \in DOMAIN files :
                    /\ i \in DOMAIN files' /\ Len(files[i].data) \in Nat
                    /\ Len(files'[i].data) >= Len(files[i].data)
                    /\ files[i].run # runs => files'[i] = files[i]
  <1>1. /\ pc = "write" /\ pc' = "recv" /\ total' = total + PacketSize
        /\ UNCHANGED <<clock, sent, tuned, net, pkt, runs>>
    BY DEF Record, netVars
  <1>2. /\ Types /\ files \in Seq(Recordings) /\ DOMAIN files = 1..Len(files) /\ Len(files) \in Nat
        /\ sessions \in Seq(Sessions) /\ DOMAIN sessions = 1..Len(sessions)
        /\ Len(sessions) \in Nat
    BY LenProperties DEF RInv, Types
  <1>3. PICK p \in Packets : p = pkt
    BY <1>1 DEF RInv, Types, Busy
  <1>4. p \in InHand
    BY <1>1, <1>3 DEF InHand, Busy
  <1>5. PICK m \in DOMAIN sessions : m = Mine /\ Matches(sessions[m], p) /\ sessions[m] \in Sessions
    BY <1>1, <1>2, <1>3, MineMatches DEF RInv, Stage
  <1>6. PICK sp \in Sessions : sp = sessions[m]
    BY <1>5
  <1>7. sp.file # NoFile
    BY <1>5, <1>6 DEF Record
  <1>8. PICK n \in DOMAIN files : n = sp.file
    BY <1>6, <1>7, SessionFile DEF RInv
  <1>9. PICK f \in Recordings : f = files[n]
    BY <1>2, <1>8, FileType
  <1>10. PICK g : g = Extended(f, sp, p)
    OBVIOUS
  <1>11. PICK new : new = Moved(sp, p)
    OBVIOUS
  <1>12. files' = [files EXCEPT ![n] = g]
    BY <1>2, <1>3, <1>5, <1>6, <1>8, <1>9, <1>10 DEF Record
  <1>13. sessions' = [sessions EXCEPT ![m] = new]
    BY <1>2, <1>3, <1>5, <1>6, <1>11 DEF Record
  <1>14. /\ g \in Recordings /\ g.packets = f.packets + 1 /\ g.smooth = (f.smooth /\ Follows(f, p))
         /\ g.from = f.from /\ g.attrs = f.attrs /\ g.run = f.run
    BY <1>10, ExtendedType
  <1>15. /\ new \in Sessions /\ new.file = n /\ new.ssrc = sp.ssrc
         /\ \A q : Matches(new, q) = Matches(sp, q)
         /\ new.pos = Sought(sp, p) + Len(Payload(p))
    BY <1>8, <1>11, MovedType
  <1>16. files' \in [1..Len(files) -> Recordings] /\ sessions' \in [1..Len(sessions) -> Sessions]
    BY <1>2, <1>5, <1>8, <1>12, <1>13, <1>14, <1>15, LenProperties
  <1>17. /\ files' \in Seq(Recordings) /\ DOMAIN files' = DOMAIN files
         /\ sessions' \in Seq(Sessions) /\ DOMAIN sessions' = DOMAIN sessions
    <2>1. files' \in Seq(Recordings)
      BY <1>2, <1>16, SeqDef
    <2>2. sessions' \in Seq(Sessions)
      BY <1>2, <1>16, SeqDef
    <2> QED
      BY <1>2, <1>16, <2>1, <2>2
  <1>18. /\ files'[n] = g /\ \A i \in DOMAIN files : i # n => files'[i] = files[i]
         /\ sessions'[m] = new /\ \A i \in DOMAIN sessions : i # m => sessions'[i] = sessions[i]
    BY <1>2, <1>12, <1>13
  <1>19. /\ f.run = runs /\ Matches(sp, f.from) /\ f.attrs = Attributes(f.from)
         /\ f.smooth => InStep(sp, f)
    BY <1>1, <1>6, <1>7, <1>8, <1>9 DEF RInv, SessionsSound, SessionSound
  <1>20. FileSound(f) /\ f.from \in Packets
    BY <1>8, <1>9 DEF RInv, FilesSound, Recordings
  <1>21. p.stream = f.from.stream /\ p.freq = f.from.freq
    <2>1. p.stream.type # "iq" => p.freq = 0
      BY <1>4 DEF RInv, Plain
    <2>2. f.from.stream.type # "iq" => f.from.freq = 0
      BY <1>20 DEF FileSound
    <2>3. Matches(sp, p) /\ Matches(sp, f.from)
      BY <1>5, <1>6, <1>19
    <2> QED
      BY <1>20, <2>1, <2>2, <2>3, SameStream
  <1>22. ASSUME g.smooth
         PROVE  p.idx = f.from.idx + f.packets /\ Follows(f, p) /\ f.smooth
    <2>1. f.smooth /\ Follows(f, p)
      BY <1>14, <1>22
    <2>2. Latest(f) \in Lasts
      BY <1>6, <1>7, <1>8, <1>9, <2>1 DEF Lasts, Undisturbed
    <2>3. Apart(Latest(f), p) /\ Apart(p, Latest(f))
      BY <1>4, <2>2 DEF RInv, Spacing
    <2> QED
      BY <1>21, <2>1, <2>3, NextNumber
  <1>23. ASSUME g.smooth
         PROVE  /\ InStep(new, g) /\ Whole(g) /\ Latest(g) = p
    <2>1. p.idx = f.from.idx + f.packets /\ Follows(f, p) /\ f.smooth
      BY <1>22, <1>23
    <2>2. Matches(sp, p) /\ InStep(sp, f) /\ Whole(f)
      BY <1>5, <1>6, <1>19, <1>20, <2>1 DEF FileSound
    <2>3. /\ Offset(sp, p) = 0 /\ Sought(sp, p) = Len(f.data)
          /\ new.rtp.init /\ new.rtp.ssrc = sp.ssrc
          /\ new.rtp.seq = (f.from.idx + (f.packets + 1)) % SeqMod
          /\ new.rtp.timestamp = (Base + f.from.first + (f.packets + 1) * PacketSize) % TimeMod
      BY <1>11, <1>21, <2>1, <2>2, MovedInStep
    <2>4. Whole(g) /\ Len(g.data) = Len(f.data) + Len(Payload(p))
      BY <1>10, <1>21, <2>1, <2>2, <2>3, ExtendedWhole
    <2>5. f.packets \in Nat /\ f.packets + 1 # 0
      BY DEF Recordings
    <2>6. InStep(new, g)
      BY <1>14, <1>15, <2>3, <2>4, <2>5 DEF InStep
    <2>7. Latest(g) = p
      <3>1. (f.packets + 1) - 1 = f.packets
        BY <2>5
      <3>2. Latest(g) = [f.from EXCEPT !.first = f.from.first + f.packets * PacketSize,
                                       !.idx = f.from.idx + f.packets]
        BY <1>14, <2>5, <3>1 DEF Latest
      <3>3. Latest(g) = [f.from EXCEPT !.first = p.first, !.idx = p.idx]
        BY <2>1, <3>2 DEF Follows
      <3> QED
        BY <1>20, <1>21, <3>3 DEF Packets
    <2> QED
      BY <2>4, <2>6, <2>7
  <1>24. /\ Len(g.data) \in Nat /\ Len(g.data) >= Len(f.data) /\ FileSound(g)
    <2>1. /\ Len(g.data) \in Nat /\ Len(g.data) >= Len(f.data)
          /\ g.safe # <<>> => g.data # <<>>
          /\ \A b \in 1..Len(g.data) : g.data[b] # Hole =>
               g.data[b].stream = f.from.stream /\ g.data[b].freq = f.from.freq
      BY <1>10, <1>20, <1>21, ExtendedOwn
    <2>2. f.from.stream.type # "iq" => f.from.freq = 0
      BY <1>20 DEF FileSound
    <2>3. g.smooth => Whole(g)
      BY <1>23
    <2>4. FileSound(g)
      BY <1>14, <1>19, <2>1, <2>2, <2>3 DEF FileSound
    <2> QED
      BY <2>1, <2>4
  <1>25. Types'
    BY <1>1, <1>2, <1>17, Constants DEF Types, Busy
  <1>26. InHand' \subseteq InHand
    BY <1>1 DEF InHand, Busy
  <1>27. Plain'
    BY <1>1, <1>26 DEF RInv, Plain
  <1>28. ASSUME NEW i \in DOMAIN sessions, i # m, sessions[i].file # NoFile
         PROVE  /\ sessions'[i] = sessions[i] /\ sessions[i].file \in DOMAIN files
                /\ sessions[i].file # n /\ files'[sessions[i].file] = files[sessions[i].file]
    <2>1. sessions[i].file \in DOMAIN files
      BY <1>28, SessionFile DEF RInv
    <2>2. sessions[i].file # n
      BY <1>6, <1>7, <1>8, <1>28 DEF RInv, OwnFiles
    <2> QED
      BY <1>18, <1>28, <2>1, <2>2
  <1>29. InHand' \cup Lasts' \subseteq InHand \cup Lasts
    <2>1. SUFFICES ASSUME NEW i \in DOMAIN sessions', sessions'[i].file # NoFile,
                          files'[sessions'[i].file].smooth
                   PROVE  Latest(files'[sessions'[i].file]) \in InHand \cup Lasts
      BY <1>26 DEF Lasts, Undisturbed
    <2>2. CASE i = m
      BY <1>4, <1>15, <1>18, <1>23, <2>1, <2>2
    <2>3. CASE i # m
      <3>1. i \in DOMAIN sessions /\ sessions'[i] = sessions[i]
        BY <1>17, <1>18, <2>3
      <3> QED
        BY <1>28, <2>1, <2>3, <3>1 DEF Lasts, Undisturbed
    <2> QED
      BY <2>2, <2>3
  <1>30. Spacing'
    BY <1>1, <1>29, SpacingKept DEF RInv
  <1>31. SessionsSound'
    <2>1. SUFFICES ASSUME NEW i \in DOMAIN sessions, sessions'[i].file # NoFile
                   PROVE  SessionSound(i)'
      BY <1>17 DEF SessionsSound, SessionSound
    <2>2. CASE i = m
      BY <1>1, <1>14, <1>15, <1>17, <1>18, <1>19, <1>23, <2>2 DEF SessionSound
    <2>3. CASE i # m
      <3>1. sessions[i].file # NoFile /\ sessions'[i] = sessions[i]
        BY <1>18, <2>1, <2>3
      <3>2. sessions[i].file \in DOMAIN files /\ files'[sessions[i].file] = files[sessions[i].file]
        BY <1>28, <2>3, <3>1
      <3>3. SessionSound(i)
        BY DEF RInv, SessionsSound
      <3> QED
        BY <1>1, <1>17, <3>1, <3>2, <3>3 DEF SessionSound
    <2> QED
      BY <2>2, <2>3
  <1>32. OwnFiles'
    <2>1. \A i \in DOMAIN sessions : sessions'[i].file = sessions[i].file
      BY <1>6, <1>8, <1>15, <1>18
    <2> QED
      BY <1>17, <2>1 DEF RInv, OwnFiles
  <1>33. Stage'
    BY <1>1 DEF Stage
  <1>34. FilesSound'
    BY <1>17, <1>18, <1>24 DEF RInv, FilesSound
  <1>35. RInv'
    BY <1>25, <1>27, <1>30, <1>31, <1>32, <1>33, <1>34 DEF RInv
  <1>36. ASSUME NEW i \in DOMAIN files
         PROVE  /\ i \in DOMAIN files' /\ Len(files[i].data) \in Nat
                /\ Len(files'[i].data) >= Len(files[i].data)
                /\ files[i].run # runs => files'[i] = files[i]
    <2>1. Len(files[i].data) \in Nat
      <3>1. files[i].data \in Seq(Bytes)
        BY <1>2, FileType DEF Recordings
      <3> QED
        BY <3>1, LenProperties
    <2>2. CASE i = n
      BY <1>9, <1>17, <1>18, <1>19, <1>24, <2>1, <2>2
    <2>3. CASE i # n
      BY <1>17, <1>18, <2>1, <2>3
    <2> QED
      BY <2>2, <2>3
  <1> QED
    BY <1>35, <1>36

\* The ways the program ends, and what they leave on disk.
LEMMA EndStep ==
  ASSUME RInv, Signal \/ DurationOver \/ NoName \/ Killed \/ Dies
  PROVE  \E how \in {"exit", "killed"} : \E W \in SUBSET DOMAIN files :
           /\ Down(how)
           /\ \A i \in W : files[i].run = runs
           /\ how = "exit" => \A i \in DOMAIN files : files[i].run = runs => i \in W
           /\ files' = [i \in DOMAIN files |-> Left(files[i], i \in W)]
  <1>1. CASE Signal \/ DurationOver \/ NoName
    <2> DEFINE W == {i \in DOMAIN files : files[i].run = runs}
    <2>1. Down("exit") /\ Clean
      BY <1>1 DEF Signal, DurationOver, NoName
    <2>2. files' = [i \in DOMAIN files |-> Left(files[i], i \in W)]
      BY <2>1 DEF Clean, Flushed, Left
    <2> QED
      BY <2>1, <2>2
  <1>2. CASE Killed \/ Dies
    <2>1. PICK W \in SUBSET Unwritten : LeftBy(W) /\ Down("killed")
      BY <1>2 DEF Killed, Dies
    <2>2. files' = [i \in DOMAIN files |-> Left(files[i], i \in W)]
      BY <2>1 DEF LeftBy, Left
    <2> QED
      BY <2>1, <2>2 DEF Unwritten
  <1> QED
    BY <1>1, <1>2

\* Every step of the streams, the network and iqrecord.
LEMMA RecorderStep ==
  ASSUME RInv, RecorderNext
  PROVE  RInv'
  <1>1. ASSUME NEW s \in Streams, Send(s) \/ Pause(s) \/ Retune(s)
        PROVE  RInv'
    BY <1>1, SendStep, PauseStep, RetuneStep
  <1>2. ASSUME NEW p \in net, Lose(p) \/ Receive(p)
        PROVE  RInv'
    BY <1>2, LoseStep, ReceiveStep
  <1>3. CASE Start \/ OpenFile \/ OpenFileFails \/ WriteAttributes \/ Record
    BY <1>3, StartStep, OpenFileStep, OpenFileFailsStep, WriteAttributesStep, RecordStep
  <1>4. CASE Signal \/ DurationOver \/ NoName \/ Killed \/ Dies
    BY <1>4, EndStep, DownStep
  <1> QED
    BY <1>1, <1>2, <1>3, <1>4 DEF RecorderNext

\* Nothing else changes what is recorded.
LEMMA RecorderUnchanged ==
  ASSUME RInv, UNCHANGED recorderVars
  PROVE  RInv'
  <1>1. UNCHANGED recVars /\ UNCHANGED netVars
    BY DEF recorderVars
  <1>2. /\ SessionsSound' /\ OwnFiles' /\ Stage' /\ FilesSound'
        /\ Lasts' = Lasts /\ Busy' = Busy /\ InHand' = InHand
    BY <1>1, OutsideStep DEF InHand, netVars
  <1>3. Types'
    BY <1>1, <1>2 DEF RInv, Types, recVars, netVars
  <1>4. Plain'
    BY <1>1, <1>2 DEF RInv, Plain, netVars
  <1>5. Spacing'
    BY <1>1, <1>2, SpacingKept DEF RInv, netVars
  <1> QED
    BY <1>2, <1>3, <1>4, <1>5 DEF RInv

\* In the beginning there is nothing sent and nothing recorded.
LEMMA RecorderBegins ==
  ASSUME RecorderInit
  PROVE  RInv
  <1>1. /\ clock = [s \in Streams |-> 0] /\ sent = [s \in Streams |-> 0]
        /\ tuned = [s \in Streams |-> IF s.type = "iq" THEN CHOOSE f \in Freqs : TRUE ELSE 0]
        /\ net = {} /\ files = <<>> /\ pc = "down" /\ sessions = <<>> /\ total = 0 /\ runs = 0
    BY DEF RecorderInit
  <1>2. DOMAIN sessions = {} /\ DOMAIN files = {}
    BY <1>1
  <1>3. InHand = {} /\ Lasts = {} /\ ~Busy
    BY <1>1, <1>2 DEF InHand, Lasts, Undisturbed, Busy
  <1>4. Types
    <2>1. (CHOOSE f \in Freqs : TRUE) \in Freqs
      BY RecorderAssumption
    <2>2. tuned \in [Streams -> Freqs \cup {0}]
      BY <1>1, <2>1
    <2>3. files \in Seq(Recordings)
      BY <1>1, EmptySeq
    <2>4. sessions \in Seq(Sessions)
      BY <1>1, EmptySeq
    <2> QED
      BY <1>1, <1>3, <2>2, <2>3, <2>4 DEF Types
  <1>5. Plain
    BY <1>1, <1>3 DEF Plain
  <1>6. Spacing
    BY <1>3 DEF Spacing
  <1>7. SessionsSound /\ OwnFiles /\ FilesSound
    BY <1>2 DEF SessionsSound, OwnFiles, FilesSound
  <1>8. Stage
    BY <1>1 DEF Stage
  <1> QED
    BY <1>4, <1>5, <1>6, <1>7, <1>8 DEF RInv

\* A step of the specification is one of the recorder, or leaves it alone.
LEMMA Sides ==
  ASSUME [Next]_vars
  PROVE  RecorderNext \/ UNCHANGED recorderVars
  BY DEF Next, Recording, vars, Open, SendBlock, EndFile, Exit, Idle, Command

-----------------------------------------------------------------------------
(* What a recording promises *)

\* The invariant of iqrecord: types, the spacing of packets, and sessions and
\* files that agree.
THEOREM Inductive == Spec => []RInv
  <1>1. Init => RInv
    BY RecorderBegins DEF Init
  <1>2. RInv /\ [Next]_vars => RInv'
    BY Sides, RecorderStep, RecorderUnchanged
  <1> QED
    BY <1>1, <1>2, PTL DEF Spec

\* Every file holds samples of the stream and the frequency in its attributes
\* (lookup of the session, choice of the name, iqrecord.c:140-300).
THEOREM OwnSamplesThm == Spec => []OwnSamples
  <1>1. RInv => OwnSamples
    <2> SUFFICES ASSUME RInv, NEW i \in DOMAIN files, NEW b \in DOMAIN files[i].data,
                        files[i].data[b] # Hole
                 PROVE  /\ files[i].data[b].stream = files[i].from.stream
                        /\ files[i].data[b].freq = files[i].attrs.freq
      BY DEF OwnSamples
    <2>1. FileSound(files[i]) /\ files[i].data \in Seq(Bytes)
      BY FileType DEF RInv, FilesSound, Recordings
    <2>2. b \in 1..Len(files[i].data) /\ files[i].data # <<>>
      BY <2>1, LenProperties
    <2>3. /\ files[i].data[b].stream = files[i].from.stream
          /\ files[i].data[b].freq = files[i].from.freq
          /\ files[i].attrs = Attributes(files[i].from)
      BY <2>1, <2>2 DEF FileSound
    <2> QED
      BY <2>3 DEF Attributes
  <1> QED
    BY <1>1, Inductive, PTL

\* The file of a session without gaps, repetitions or overtaking is the stream,
\* byte for byte (the seek by what rtp_process returns, iqrecord.c:232-300).
THEOREM WholeIfUndisturbedThm == Spec => []WholeIfUndisturbed
  <1>1. RInv => WholeIfUndisturbed
    <2> SUFFICES ASSUME RInv, NEW i \in DOMAIN files, files[i].smooth
                 PROVE  LET f == files[i]  size == SampleSize(f.from.stream.type) IN
                        /\ Len(f.data) = f.packets * PacketSize * size
                        /\ \A b \in DOMAIN f.data :
                             f.data[b] = ByteAt(f.from, f.from.first * size + b - 1)
                        /\ SE!IsPrefix(f.safe, f.data)
      BY DEF WholeIfUndisturbed
    <2>1. PICK f \in Recordings : f = files[i]
      BY FileType DEF RInv
    <2>2. FileSound(f) /\ f.smooth
      BY <2>1 DEF RInv, FilesSound
    <2>3. Whole(f)
      BY <2>2 DEF FileSound
    <2> DEFINE size == SampleSize(f.from.stream.type)
    <2>4. /\ size \in Nat /\ PacketSize \in Nat /\ f.packets \in Nat
          /\ f.data \in Seq(Bytes) /\ f.safe \in Seq(Bytes)
          /\ DOMAIN f.data = 1..Len(f.data) /\ Len(f.data) \in Nat /\ Len(f.safe) \in Nat
      BY SampleSizeNat, Constants, LenProperties DEF Recordings
    <2>5. f.packets * (PacketSize * size) = f.packets * PacketSize * size
      <3> HIDE DEF size
      <3> QED
        BY <2>4
    <2>6. SE!IsPrefix(f.safe, f.data)
      <3> DEFINE n == Len(f.safe)
                 a == SubSeq(f.safe, 1, n)
                 c == SubSeq(f.data, 1, n)
      <3>1. n <= Len(f.data) /\ \A b \in 1..n : f.safe[b] = f.data[b]
        BY <2>3 DEF Whole
      <3>2. /\ \A b \in 1..n : f.safe[b] \in Bytes
            /\ \A b \in 1..n : f.data[b] \in Bytes
        BY <2>4, <3>1, ElementOfSeq
      <3>3. n \in Nat /\ n \in Int /\ 1 \in Int
        BY <2>4
      <3> HIDE DEF n
      <3>4. /\ a \in Seq(Bytes) /\ Len(a) = (IF 1 <= n THEN n - 1 + 1 ELSE 0)
            /\ \A b \in 1..n - 1 + 1 : a[b] = f.safe[1 + b - 1]
        BY <3>2, <3>3, SubSeqProperties
      <3>5. /\ c \in Seq(Bytes) /\ Len(c) = (IF 1 <= n THEN n - 1 + 1 ELSE 0)
            /\ \A b \in 1..n - 1 + 1 : c[b] = f.data[1 + b - 1]
        BY <3>2, <3>3, SubSeqProperties
      <3>6. Len(a) = n /\ Len(c) = n /\ \A b \in 1..n : a[b] = f.safe[b] /\ c[b] = f.data[b]
        BY <3>3, <3>4, <3>5
      <3> HIDE DEF a, c
      <3>7. \A b \in 1..n : a[b] = c[b]
        BY <3>1, <3>6
      <3>8. a \in [1..n -> Bytes] /\ c \in [1..n -> Bytes]
        BY <3>4, <3>5, <3>6, LenProperties
      <3>9. a = c
        <4> DEFINE I == 1..n
        <4>1. a \in [I -> Bytes] /\ c \in [I -> Bytes] /\ \A b \in I : a[b] = c[b]
          BY <3>7, <3>8
        <4> HIDE DEF I
        <4>2. a = [b \in I |-> a[b]] /\ c = [b \in I |-> c[b]]
          BY <4>1
        <4>3. [b \in I |-> a[b]] = [b \in I |-> c[b]]
          BY <4>1, Zenon
        <4> QED
          BY <4>2, <4>3
      <3> QED
        BY <3>1, <3>9 DEF SE!IsPrefix, a, c, n
    <2>7. \A b \in DOMAIN f.data : f.data[b] = ByteAt(f.from, f.from.first * size + b - 1)
      BY <2>3, <2>4 DEF Whole
    <2>8. Len(f.data) = f.packets * PacketSize * size
      BY <2>3, <2>5 DEF Whole
    <2> QED
      BY <2>1, <2>6, <2>7, <2>8
  <1> QED
    BY <1>1, Inductive, PTL

\* No step empties or shortens a recording, touches one of an earlier run, or
\* ends the program in order without all that was recorded being on disk
\* (iqrecord.c:232-243, 309-323).
THEOREM RecordingsStayThm == Spec => RecordingsStay
  <1>1. ASSUME RInv, [Next]_vars
        PROVE  [EarlierRecordingsStay /\ EndKeepsAll]_recorderVars
    <2>1. SUFFICES ASSUME RecorderNext
                   PROVE  EarlierRecordingsStay /\ EndKeepsAll
      BY <1>1, Sides
    <2>2. ASSUME NEW i \in DOMAIN files
          PROVE  Len(files[i].data) \in Nat /\ files[i] \in Recordings
      <3>1. files[i] \in Recordings
        BY <1>1, FileType DEF RInv
      <3> QED
        BY <3>1, LenProperties DEF Recordings
    <2>3. CASE UNCHANGED <<files, pc>> \/ (UNCHANGED files /\ pc' \in {"recv", "listed", "write"})
      BY <2>2, <2>3 DEF EarlierRecordingsStay, EndKeepsAll
    <2>4. CASE OpenFile
      <3>1. files \in Seq(Recordings) /\ DOMAIN files = 1..Len(files)
        BY <1>1, LenProperties DEF RInv, Types
      <3>2. pc = "listed" /\ pc' = "opened" /\ Free(pkt) # {}
        BY <2>4 DEF OpenFile
      <3>3. PICK e \in Recordings : e = EmptyFile(pkt, FirstFree(pkt)) /\ e.name \notin Names
        BY <1>1, <3>2, EmptyFileType
      <3>4. files' = Append(files, e)
        BY <2>4, <3>1, <3>3, OpenedLast DEF OpenFile
      <3>5. \A i \in DOMAIN files : files'[i] = files[i]
        BY <3>1, <3>4, AppendProperties
      <3> QED
        BY <2>2, <3>2, <3>5 DEF EarlierRecordingsStay, EndKeepsAll
    <2>5. CASE WriteAttributes
      <3> DEFINE n == Head(sessions).file
      <3>1. pc = "opened" /\ pc' = "write" /\ files' = [files EXCEPT ![n].attrs = Attributes(pkt)]
        BY <2>5 DEF WriteAttributes
      <3>2. /\ sessions # <<>> /\ sessions[1].file # NoFile /\ sessions \in Seq(Sessions)
            /\ DOMAIN sessions = 1..Len(sessions) /\ Len(sessions) \in Nat
        BY <1>1, <3>1, LenProperties DEF RInv, Stage, Types
      <3>3. 1 \in DOMAIN sessions /\ n = sessions[1].file
        <4>1. Len(sessions) # 0
          BY <3>2, EmptySeq
        <4> QED
          BY <3>2, <4>1
      <3>4. files[n].run = runs
        BY <1>1, <3>2, <3>3 DEF RInv, SessionsSound, SessionSound
      <3> HIDE DEF n
      <3>5. ASSUME NEW i \in DOMAIN files
            PROVE  /\ files'[i].data = files[i].data
                   /\ files[i].run # runs => files'[i] = files[i]
        BY <2>2, <3>1, <3>4 DEF Recordings
      <3> QED
        BY <2>2, <3>1, <3>5 DEF EarlierRecordingsStay, EndKeepsAll
    <2>6. CASE Record
      BY <1>1, <2>6, RecordStep DEF EarlierRecordingsStay, EndKeepsAll, Record
    <2>7. CASE Signal \/ DurationOver \/ NoName \/ Killed \/ Dies
      <3>1. PICK how \in {"exit", "killed"}, W \in SUBSET DOMAIN files :
              /\ Down(how)
              /\ \A i \in W : files[i].run = runs
              /\ how = "exit" => \A i \in DOMAIN files : files[i].run = runs => i \in W
              /\ files' = [i \in DOMAIN files |-> Left(files[i], i \in W)]
        BY <1>1, <2>7, EndStep
      <3>2. ended' = how
        BY <3>1 DEF Down
      <3>3. ASSUME NEW i \in DOMAIN files
            PROVE  /\ files'[i].data = files[i].data
                   /\ files[i].run # runs => files'[i] = files[i]
                   /\ ended' = "exit" /\ files[i].run = runs => files'[i].safe = files[i].data
        <4>1. files'[i] = IF i \in W THEN [files[i] EXCEPT !.safe = files[i].data] ELSE files[i]
          BY <3>1 DEF Left
        <4> QED
          BY <2>2, <3>1, <3>2, <4>1 DEF Recordings
      <3> QED
        BY <2>2, <3>3 DEF EarlierRecordingsStay, EndKeepsAll
    <2>8. CASE \/ \E s \in Streams : Send(s) \/ Pause(s) \/ Retune(s)
               \/ \E p \in net : Lose(p)
      BY <2>3, <2>8 DEF Send, Pause, Retune, Lose, recVars
    <2>9. CASE \E p \in net : Receive(p)
      BY <2>3, <2>9 DEF Receive
    <2>10. CASE Start \/ OpenFileFails
      BY <2>3, <2>10 DEF Start, OpenFileFails
    <2> QED
      BY <2>1, <2>4, <2>5, <2>6, <2>7, <2>8, <2>9, <2>10 DEF RecorderNext
  <1> QED
    BY <1>1, Inductive, PTL DEF Spec, RecordingsStay

-----------------------------------------------------------------------------
(* The reports *)

Told == [Fields -> Int]

\* Whoever has heard all reports since the last full one knows what was said.
Reported ==
  /\ commands \in Nat /\ counter \in 0..Interval /\ row \in Nat
  /\ heard \in Told /\ state \in Told
  /\ row > Interval - counter => heard = state

\* The counter of full reports goes from Interval down to zero and round.
LEMMA CountDownStep ==
  ASSUME counter \in 0..Interval, Interval \in Nat
  PROVE  CountDown(counter) = (IF counter = 0 THEN Interval ELSE counter - 1)
         /\ CountDown(0) = Interval
  BY DEF CountDown

\* A report, in full or not.
LEMMA ReportStep ==
  ASSUME Reported, NEW cmds \in Nat, NEW full \in BOOLEAN, Report(cmds, full),
         commands' = cmds, Len(out) \in Nat,
         counter = 0 => full,
         counter' = IF full THEN Interval ELSE counter - 1
  PROVE  Reported'
  <1> DEFINE now == [commands |-> cmds, packets |-> Len(out)]
             said == {f \in Fields : full \/ now[f] # state[f]}
  <1>1. now \in Told /\ DOMAIN now = Fields
    BY DEF Told, Fields
  <1>2. /\ state' = now
        /\ \/ heard' = [f \in Fields |-> IF f \in said THEN now[f] ELSE heard[f]] /\ row' = row + 1
           \/ heard' = heard /\ row' = 0
    BY DEF Report
  <1>3. Interval \in Nat /\ counter \in 0..Interval /\ row \in Nat /\ heard \in Told /\ state \in Told
    BY Constants DEF Reported
  <1>4. counter' \in 0..Interval
    <2>1. CASE full
      BY <1>3, <2>1
    <2>2. CASE ~full
      BY <1>3, <2>2
    <2> QED
      BY <2>1, <2>2
  <1>5. said \subseteq Fields /\ \A f \in Fields : f \notin said => ~full /\ now[f] = state[f]
    OBVIOUS
  <1> HIDE DEF now, said
  <1>6. CASE heard' = heard /\ row' = 0
    BY <1>1, <1>2, <1>3, <1>4, <1>6 DEF Reported
  <1>7. CASE heard' = [f \in Fields |-> IF f \in said THEN now[f] ELSE heard[f]] /\ row' = row + 1
    <2>1. heard' \in Told
      BY <1>1, <1>3, <1>7 DEF Told
    <2>2. row' \in Nat
      BY <1>3, <1>7
    <2>3. ASSUME row' > Interval - counter'
          PROVE  heard' = now
      <3>1. \A f \in Fields : heard'[f] = now[f]
        <4>1. CASE full
          BY <1>5, <1>7, <4>1
        <4>2. CASE ~full
          <5>1. row > Interval - counter
            BY <1>3, <1>7, <2>3, <4>2
          <5>2. heard = state
            BY <5>1 DEF Reported
          <5> QED
            BY <1>5, <1>7, <5>2
        <4> QED
          BY <4>1, <4>2
      <3>2. heard' = [f \in Fields |-> heard'[f]] /\ now = [f \in Fields |-> now[f]]
        BY <1>1, <2>1 DEF Told
      <3> QED
        BY <3>1, <3>2
    <2> QED
      BY <1>1, <1>2, <1>4, <2>1, <2>2, <2>3 DEF Reported
  <1> QED
    BY <1>2, <1>6, <1>7

-----------------------------------------------------------------------------
(* The replay *)

Blocks == [seq : 0..SeqMod - 1, timestamp : 0..TimeMod - 1,
           rate : {DefaultRate, 48000} \cup {s.rate : s \in Streams},
           file : Nat, nth : Nat, bytes : Seq(Bytes)]

PlayTypes ==
  /\ playing \in Int /\ offset \in Nat /\ played \in Nat
  /\ rate \in {DefaultRate, 48000} \cup {s.rate : s \in Streams}
  /\ out \in Seq(Blocks)

\* Nothing is recorded while files are played.
Frozen == played > 0 => RecordedAll

\* The file being played.
AtFile ==
  playing > NoFile => /\ playing \in DOMAIN files /\ played > 0
                      /\ rate = Attribute(files[playing])

\* Headers made so far: one for each block, and one for each file that ended.
Made == Len(out) + played - (IF playing > NoFile THEN 1 ELSE 0)

Numbered ==
  /\ seq = Made % SeqMod
  /\ timestamp = (BlockSize * Made) % TimeMod
  /\ \A k \in DOMAIN out :
       /\ out[k].seq = (k + out[k].nth - 2) % SeqMod
       /\ out[k].timestamp = (BlockSize * (k + out[k].nth - 2)) % TimeMod

\* The first byte of a block is the one at this place of its file.
BeginsAt(b, at) == /\ b.file \in DOMAIN files
                   /\ at \in Nat /\ at < Len(files[b.file].safe)
                   /\ Head(b.bytes) = files[b.file].safe[at + 1]

\* Blocks of a file are a block apart, as is the one that is read next.
Placed ==
  /\ \A k \in DOMAIN out : out[k].nth \in 1..played
  /\ \A k, n \in DOMAIN out : k <= n => out[k].nth <= out[n].nth
  /\ \A k, n \in DOMAIN out : k <= n /\ out[k].nth = out[n].nth =>
       /\ out[k].file = out[n].file /\ out[n].rate = Attribute(files[out[n].file])
       /\ \E at \in Nat : /\ BeginsAt(out[k], at)
                          /\ BeginsAt(out[n], at + BlockBytes * (n - k))
  /\ \A k \in DOMAIN out : playing > NoFile /\ out[k].nth = played =>
       /\ out[k].file = playing
       /\ \E at \in Nat :
            /\ BeginsAt(out[k], at)
            /\ \/ offset = at + BlockBytes * (Len(out) + 1 - k)
               \/ offset >= Len(files[playing].safe)

PInv == PlayTypes /\ Frozen /\ AtFile /\ Numbered /\ Placed

IInv == RInv /\ Reported /\ PInv

\* When all is recorded, nothing of the recorder's side moves.
LEMMA NothingMoves ==
  ASSUME RecordedAll, RecorderNext
  PROVE  FALSE
  <1>1. pc = "down" /\ ~Matters /\ ~ (runs < MaxRuns)
    <2>1. MaxRuns \in Nat
      BY RecorderAssumption
    <2> QED
      BY <2>1 DEF RecordedAll, Matters
  <1>2. ~ \E s \in Streams : Send(s) \/ Pause(s) \/ Retune(s)
    BY <1>1 DEF Send, Pause, Retune
  <1>3. ~ \E p \in net : Lose(p) \/ Receive(p)
    BY <1>1 DEF Lose, Receive
  <1>4. ~ (Start \/ OpenFile \/ OpenFileFails \/ WriteAttributes \/ Record)
    BY <1>1 DEF Start, OpenFile, OpenFileFails, WriteAttributes, Record
  <1>5. ~ (Signal \/ DurationOver \/ NoName \/ Killed \/ Dies)
    BY <1>1 DEF Signal, DurationOver, NoName, Killed, Dies
  <1> QED
    BY <1>2, <1>3, <1>4, <1>5 DEF RecorderNext

\* What iqplay has sent is a sequence of blocks.
LEMMA OutType ==
  ASSUME PInv
  PROVE  /\ Len(out) \in Nat /\ DOMAIN out = 1..Len(out) /\ out \in Seq(Blocks)
         /\ \A k \in DOMAIN out : out[k] \in Blocks
  BY LenProperties, ElementOfSeq DEF PInv, PlayTypes

\* Headers and blocks are those before.
LEMMA NumberedKept ==
  ASSUME Numbered, UNCHANGED <<seq, timestamp, out>>, Made' = Made
  PROVE  Numbered'
  BY DEF Numbered

\* iqrecord's steps leave the replay alone, which has not begun.
LEMMA RecordingWhilePlaying ==
  ASSUME RInv, PInv, Recording(RecorderNext), RInv'
  PROVE  PInv'
  <1>1. UNCHANGED <<playing, offset, rate, seq, timestamp, out, played>>
    BY DEF Recording, playVars
  <1>2. played = 0
    <2>1. RecorderNext
      BY DEF Recording
    <2>2. played \in Nat /\ (played > 0 => RecordedAll)
      BY DEF PInv, PlayTypes, Frozen
    <2> QED
      BY <2>1, <2>2, NothingMoves
  <1>3. DOMAIN out = {}
    <2>1. \A k \in DOMAIN out : out[k].nth \in 1..played
      BY DEF PInv, Placed
    <2> QED
      BY <1>2, <2>1
  <1>4. ~ (playing > NoFile)
    BY <1>2 DEF PInv, AtFile
  <1>5. PlayTypes'
    BY <1>1 DEF PInv, PlayTypes
  <1>6. Frozen' /\ AtFile'
    BY <1>1, <1>2, <1>4 DEF Frozen, AtFile
  <1>7. Numbered'
    BY <1>1, NumberedKept DEF PInv, Made
  <1>8. Placed'
    BY <1>1, <1>3 DEF Placed
  <1> QED
    BY <1>5, <1>6, <1>7, <1>8 DEF PInv

\* The files do not change while they are played.
LEMMA SameFiles ==
  ASSUME UNCHANGED recorderVars
  PROVE  UNCHANGED <<files, pc, runs>> /\ RecordedAll' = RecordedAll
  BY DEF recorderVars, recVars, RecordedAll

\* Where a block begins depends on nothing but the files.
LEMMA BeginsAtSame ==
  ASSUME UNCHANGED files
  PROVE  \A b, at : BeginsAt(b, at)' = BeginsAt(b, at)
  BY DEF BeginsAt

\* Whatever leaves recordings and replay alone keeps the replay's invariant.
LEMMA PlayIdle ==
  ASSUME PInv, UNCHANGED recorderVars, UNCHANGED playVars
  PROVE  PInv'
  <1>1. UNCHANGED <<playing, offset, rate, seq, timestamp, out, played, files>>
        /\ RecordedAll' = RecordedAll
    BY SameFiles DEF playVars
  <1>2. PlayTypes' /\ Frozen' /\ AtFile'
    BY <1>1 DEF PInv, PlayTypes, Frozen, AtFile
  <1>3. Numbered'
    BY <1>1, NumberedKept DEF PInv, Made
  <1>4. Placed'
    BY <1>1 DEF PInv, Placed, BeginsAt
  <1> QED
    BY <1>2, <1>3, <1>4 DEF PInv

\* The attribute of a file that was recorded is one the program may read.
LEMMA RateType ==
  ASSUME RInv, NEW i \in DOMAIN files
  PROVE  Attribute(files[i]) \in {DefaultRate, 48000} \cup {s.rate : s \in Streams}
  <1>1. files[i] \in Recordings
    BY FileType DEF RInv
  <1>2. files[i].attrs \in FileAttributes
    BY <1>1 DEF Recordings
  <1> QED
    BY <1>2 DEF Attribute, FileAttributes

\* playfile: the next block begins at the first byte of the file opened.
LEMMA OpenStep ==
  ASSUME RInv, PInv, NEW i \in DOMAIN files, Open(i)
  PROVE  PInv'
  <1>1. /\ RecordedAll /\ playing = NoFile
        /\ playing' = i /\ offset' = 0 /\ rate' = Attribute(files[i]) /\ played' = played + 1
        /\ UNCHANGED <<seq, timestamp, out, files>> /\ RecordedAll' = RecordedAll
    BY SameFiles DEF Open
  <1>2. /\ i \in Nat \ {0} /\ played \in Nat /\ DOMAIN out = 1..Len(out) /\ Len(out) \in Nat
        /\ NoFile = 0
    BY FileType, OutType DEF RInv, PInv, PlayTypes, NoFile
  <1>3. PlayTypes'
    BY <1>1, <1>2, RateType DEF PInv, PlayTypes
  <1>4. Frozen' /\ AtFile'
    BY <1>1, <1>2 DEF Frozen, AtFile
  <1>5. Made' = Made
    BY <1>1, <1>2 DEF Made
  <1>6. Numbered'
    BY <1>1, <1>5, NumberedKept DEF PInv
  <1>7. \A k \in DOMAIN out : out[k].nth \in 1..played
    BY DEF PInv, Placed
  <1>8. \A k \in DOMAIN out : out[k].nth \in 1..played' /\ out[k].nth # played'
    BY <1>1, <1>2, <1>7
  <1>9. Placed'
    BY <1>1, <1>8 DEF PInv, Placed, BeginsAt
  <1> QED
    BY <1>3, <1>4, <1>6, <1>9 DEF PInv

\* The next header.
LEMMA HeaderStep ==
  ASSUME PInv, NextHeader
  PROVE  /\ Made \in Nat
         /\ seq' = (Made + 1) % SeqMod /\ timestamp' = (BlockSize * (Made + 1)) % TimeMod
  <1>1. PICK m \in Nat : m = Made
    <2>1. Len(out) \in Nat /\ played \in Nat /\ (playing > NoFile => played > 0)
      BY OutType DEF PInv, PlayTypes, AtFile
    <2>2. Made \in Nat
      <3> DEFINE a == Len(out)
      <3>1. a \in Nat
        BY <2>1
      <3> HIDE DEF a
      <3>2. Made = a + played - (IF playing > NoFile THEN 1 ELSE 0)
        BY DEF Made, a
      <3>3. CASE playing > NoFile
        BY <2>1, <3>1, <3>2, <3>3
      <3>4. CASE ~ (playing > NoFile)
        BY <2>1, <3>1, <3>2, <3>4
      <3> QED
        BY <3>3, <3>4
    <2> QED
      BY <2>2
  <1>2. SeqMod \in Nat \ {0} /\ TimeMod \in Nat \ {0} /\ BlockSize \in Nat /\ 1 \in Int
    BY Constants
  <1>3. seq = m % SeqMod /\ timestamp = (BlockSize * m) % TimeMod
    BY <1>1 DEF PInv, Numbered
  <1> DEFINE t == BlockSize * m
  <1>4. t \in Int /\ BlockSize * (m + 1) = t + BlockSize
    BY <1>2
  <1> HIDE DEF t
  <1>5. ((m % SeqMod) + 1) % SeqMod = (m + 1) % SeqMod
    <2>1. m \in Int
      OBVIOUS
    <2> QED
      BY <1>2, <2>1, ModAdd
  <1>6. ((t % TimeMod) + BlockSize) % TimeMod = (t + BlockSize) % TimeMod
    <2>1. BlockSize \in Int
      BY <1>2
    <2> QED
      BY <1>2, <1>4, <2>1, ModAdd
  <1> QED
    BY <1>1, <1>3, <1>4, <1>5, <1>6 DEF NextHeader, t

\* The end of a file: a header is used up, and no block goes with it.
LEMMA EndFileStep ==
  ASSUME RInv, PInv, EndFile
  PROVE  PInv'
  <1>1. /\ playing > NoFile /\ playing' = NoFile /\ NextHeader
        /\ UNCHANGED <<offset, rate, out, played, files>> /\ RecordedAll' = RecordedAll
    BY SameFiles DEF EndFile
  <1>2. /\ played \in Nat /\ Len(out) \in Nat /\ NoFile = 0 /\ playing \in Int
    BY OutType DEF PInv, PlayTypes, NoFile
  <1>3. Made' = Made + 1
    BY <1>1, <1>2 DEF Made
  <1>4. seq' = (Made + 1) % SeqMod /\ timestamp' = (BlockSize * (Made + 1)) % TimeMod
    BY <1>1, HeaderStep
  <1>5. Numbered'
    BY <1>1, <1>3, <1>4 DEF PInv, Numbered
  <1>6. PlayTypes'
    BY <1>1, <1>2 DEF PInv, PlayTypes
  <1>7. Frozen' /\ AtFile'
    BY <1>1, <1>2 DEF PInv, Frozen, AtFile
  <1>8. Placed'
    BY <1>1, <1>2 DEF PInv, Placed, BeginsAt
  <1> QED
    BY <1>5, <1>6, <1>7, <1>8 DEF PInv

\* Nothing is left to play.
LEMMA ExitStep ==
  ASSUME RInv, PInv, Exit
  PROVE  PInv'
  <1>1. /\ playing = NoFile /\ playing' = Exited
        /\ UNCHANGED <<offset, rate, seq, timestamp, out, played, files>>
        /\ RecordedAll' = RecordedAll /\ NoFile = 0 /\ Exited = -1
    BY SameFiles DEF Exit, NoFile, Exited
  <1>2. Made' = Made
    BY <1>1 DEF Made
  <1>3. Numbered'
    BY <1>1, <1>2, NumberedKept DEF PInv
  <1>4. PlayTypes'
    BY <1>1 DEF PInv, PlayTypes
  <1>5. Frozen' /\ AtFile'
    BY <1>1 DEF PInv, Frozen, AtFile
  <1>6. Placed'
    BY <1>1 DEF PInv, Placed, BeginsAt
  <1> QED
    BY <1>3, <1>4, <1>5, <1>6 DEF PInv

\* What pipefill finds: some bytes, up to a block.
LEMMA FilledIs ==
  ASSUME RInv, PInv, playing > NoFile, Filled # <<>>
  PROVE  LET n == Len(files[playing].safe) IN
         /\ n \in Nat /\ offset < n /\ Filled \in Seq(Bytes)
         /\ Head(Filled) = files[playing].safe[offset + 1]
         /\ \/ offset + Len(Filled) = offset + BlockBytes
            \/ offset + Len(Filled) = n
         /\ offset + Len(Filled) \in Nat /\ BlockBytes \in Nat
  <1>1. playing \in DOMAIN files /\ offset \in Nat
    BY DEF PInv, AtFile, PlayTypes
  <1>2. PICK s \in Seq(Bytes) : s = files[playing].safe
    BY <1>1, FileType DEF RInv, Recordings
  <1>3. BlockBytes \in Nat \ {0}
    BY Constants DEF BlockBytes
  <1> DEFINE n == Len(s)
             k == offset + BlockBytes
             e == IF k < n THEN k ELSE n
             m == offset + 1
  <1>4. n \in Nat /\ k \in Nat
    BY <1>1, <1>3, LenProperties
  <1>5. Filled = SubSeq(s, m, e)
    BY <1>2 DEF Filled
  <1>6. m \in Int /\ e \in Int /\ m \in Nat /\ 1 <= m /\ e <= n
    BY <1>1, <1>4
  <1>7. \A i \in m..e : s[i] \in Bytes
    <2>1. \A i \in m..e : i \in 1..n
      BY <1>4, <1>6
    <2> QED
      BY <2>1, ElementOfSeq
  <1> HIDE DEF n, k, e, m
  <1>8. /\ SubSeq(s, m, e) \in Seq(Bytes)
        /\ Len(SubSeq(s, m, e)) = (IF m <= e THEN e - m + 1 ELSE 0)
        /\ \A i \in 1..e - m + 1 : SubSeq(s, m, e)[i] = s[m + i - 1]
    BY <1>6, <1>7, SubSeqProperties
  <1>9. m <= e
    <2>1. SUFFICES ASSUME ~ (m <= e) PROVE FALSE
      OBVIOUS
    <2>2. Filled \in Seq(Bytes) /\ Len(Filled) = 0
      BY <1>5, <1>8, <2>1
    <2> QED
      BY <2>2, EmptySeq
  <1>10. Len(Filled) = e - m + 1 /\ Filled[1] = s[m] /\ Filled \in Seq(Bytes)
    <2>1. 1 \in 1..e - m + 1 /\ m + 1 - 1 = m
      BY <1>6, <1>9
    <2> QED
      BY <1>5, <1>8, <1>9, <2>1
  <1>11. offset + Len(Filled) = e
    BY <1>1, <1>6, <1>10 DEF m
  <1>12. offset < n /\ e \in Nat
    BY <1>1, <1>4, <1>6, <1>9 DEF m
  <1>13. Head(Filled) = Filled[1]
    BY <1>10
  <1>14. e = offset + BlockBytes \/ e = n
    BY DEF e, k
  <1> QED
    BY <1>2, <1>3, <1>4, <1>10, <1>11, <1>12, <1>13, <1>14 DEF n, m

\* A block sent is numbered by the headers made, and begins where the one before ended.
LEMMA SendBlockStep ==
  ASSUME RInv, PInv, SendBlock
  PROVE  PInv'
  <1> DEFINE n == Len(out) + 1
  <1>1. /\ playing > NoFile /\ Filled # <<>> /\ NextHeader
        /\ offset' = offset + Len(Filled)
        /\ UNCHANGED <<playing, rate, played, files>> /\ RecordedAll' = RecordedAll
    BY SameFiles DEF SendBlock
  <1>2. PICK b : b = [seq |-> seq, timestamp |-> timestamp, rate |-> rate,
                      file |-> playing, nth |-> played, bytes |-> Filled]
    OBVIOUS
  <1>3. out' = Append(out, b)
    BY <1>2 DEF SendBlock
  <1>4. /\ b.seq = seq /\ b.timestamp = timestamp /\ b.rate = rate
        /\ b.file = playing /\ b.nth = played /\ b.bytes = Filled
    BY <1>2
  <1>5. /\ playing \in DOMAIN files /\ played \in Nat \ {0} /\ offset \in Nat
        /\ rate = Attribute(files[playing]) /\ playing \in Nat
        /\ rate \in {DefaultRate, 48000} \cup {s.rate : s \in Streams}
        /\ n \in Nat \ {0} /\ DOMAIN out = 1..Len(out) /\ out \in Seq(Blocks) /\ Len(out) \in Nat
        /\ NoFile = 0
    BY <1>1, OutType, FileType DEF RInv, PInv, AtFile, PlayTypes, NoFile
  <1>6. PICK size \in Nat :
          /\ size = Len(files[playing].safe)
          /\ offset < size /\ Filled \in Seq(Bytes)
          /\ Head(Filled) = files[playing].safe[offset + 1]
          /\ offset' = offset + BlockBytes \/ offset' = size
          /\ offset' \in Nat /\ BlockBytes \in Nat
    BY <1>1, FilledIs
  <1>7. SeqMod \in Nat \ {0} /\ TimeMod \in Nat \ {0} /\ BlockSize \in Nat
    BY Constants
  <1>8. /\ Made \in Nat /\ seq' = (Made + 1) % SeqMod
        /\ timestamp' = (BlockSize * (Made + 1)) % TimeMod
    BY <1>1, HeaderStep
  <1>9. seq = Made % SeqMod /\ timestamp = (BlockSize * Made) % TimeMod
    BY DEF PInv, Numbered
  <1>10. b \in Blocks
    <2>1. seq \in 0..SeqMod - 1
      BY <1>7, <1>8, <1>9, ModRange
    <2>2. timestamp \in 0..TimeMod - 1
      <3> DEFINE t == BlockSize * Made
      <3>1. t \in Int
        BY <1>7, <1>8
      <3> HIDE DEF t
      <3>2. t % TimeMod \in 0..TimeMod - 1
        BY <1>7, <3>1, ModRange
      <3> QED
        BY <1>9, <3>2 DEF t
    <2> QED
      BY <1>2, <1>5, <1>6, <2>1, <2>2 DEF Blocks
  <1>11. /\ out' \in Seq(Blocks) /\ Len(out') = n /\ out'[n] = b
         /\ \A k \in DOMAIN out : out'[k] = out[k]
    BY <1>3, <1>5, <1>10, AppendProperties
  <1>12. DOMAIN out' = 1..n
    BY <1>11, LenProperties
  <1>13. PlayTypes'
    BY <1>1, <1>5, <1>6, <1>11 DEF PlayTypes
  <1>14. Frozen' /\ AtFile'
    BY <1>1 DEF PInv, Frozen, AtFile
  <1>15. Made = n + played - 2 /\ Made' = Made + 1
    BY <1>1, <1>5, <1>11 DEF Made
  <1>16. ASSUME NEW k \in DOMAIN out'
         PROVE  k \in DOMAIN out \/ k = n
    BY <1>5, <1>12, <1>16
  <1> HIDE DEF n
  <1>17. Numbered'
    <2>1. /\ out'[n].seq = (n + out'[n].nth - 2) % SeqMod
          /\ out'[n].timestamp = (BlockSize * (n + out'[n].nth - 2)) % TimeMod
      BY <1>4, <1>9, <1>11, <1>15
    <2>2. seq' = Made' % SeqMod /\ timestamp' = (BlockSize * Made') % TimeMod
      BY <1>8, <1>15
    <2>3. ASSUME NEW k \in DOMAIN out'
          PROVE  /\ out'[k].seq = (k + out'[k].nth - 2) % SeqMod
                 /\ out'[k].timestamp = (BlockSize * (k + out'[k].nth - 2)) % TimeMod
      <3>1. CASE k = n
        BY <2>1, <3>1
      <3>2. CASE k \in DOMAIN out
        BY <1>11, <3>2 DEF PInv, Numbered
      <3> QED
        BY <1>16, <3>1, <3>2
    <2> QED
      BY <2>2, <2>3 DEF Numbered
  <1>18. \A c, at : BeginsAt(c, at)' = BeginsAt(c, at)
    BY <1>1, BeginsAtSame
  <1>19. BeginsAt(b, offset)
    BY <1>4, <1>5, <1>6 DEF BeginsAt
  <1>20. ASSUME NEW k \in DOMAIN out, out[k].nth = played
         PROVE  /\ out[k].file = playing
                /\ \E at \in Nat : BeginsAt(out[k], at) /\ offset = at + BlockBytes * (n - k)
    <2>1. /\ out[k].file = playing
          /\ \E at \in Nat :
               /\ BeginsAt(out[k], at)
               /\ \/ offset = at + BlockBytes * (Len(out) + 1 - k)
                  \/ offset >= Len(files[playing].safe)
      BY <1>1, <1>20 DEF PInv, Placed
    <2>2. ~ (offset >= Len(files[playing].safe))
      BY <1>5, <1>6
    <2> QED
      BY <2>1, <2>2 DEF n
  <1>21. \A k \in DOMAIN out : out[k].nth \in 1..played
    BY DEF PInv, Placed
  <1>22. Placed'
    <2>1. \A k \in DOMAIN out' : out'[k].nth \in 1..played'
      BY <1>1, <1>4, <1>5, <1>11, <1>16, <1>21
    <2>2. ASSUME NEW k \in DOMAIN out', NEW j \in DOMAIN out', k <= j
          PROVE  out'[k].nth <= out'[j].nth
      <3>1. CASE j = n
        BY <1>1, <1>4, <1>5, <1>11, <2>1, <3>1
      <3>2. CASE j # n
        <4>1. k \in DOMAIN out /\ j \in DOMAIN out
          BY <1>5, <1>12, <2>2, <3>2 DEF n
        <4> QED
          BY <1>11, <2>2, <4>1 DEF PInv, Placed
      <3> QED
        BY <3>1, <3>2
    <2>3. ASSUME NEW k \in DOMAIN out', NEW j \in DOMAIN out', k <= j, out'[k].nth = out'[j].nth
          PROVE  /\ out'[k].file = out'[j].file
                 /\ out'[j].rate = Attribute(files[out'[j].file])
                 /\ \E at \in Nat : /\ BeginsAt(out'[k], at)
                                    /\ BeginsAt(out'[j], at + BlockBytes * (j - k))
      <3>1. CASE j = n /\ k = n
        <4>1. n - n = 0 /\ BlockBytes * 0 = 0 /\ offset + 0 = offset
          BY <1>5, <1>6
        <4>2. BeginsAt(b, offset + BlockBytes * (n - n))
          BY <1>19, <4>1
        <4> QED
          BY <1>4, <1>5, <1>11, <1>19, <3>1, <4>2
      <3>2. CASE j = n /\ k # n
        <4>1. k \in DOMAIN out /\ out[k].nth = played /\ out'[k] = out[k]
          BY <1>4, <1>11, <1>16, <2>3, <3>2
        <4>2. PICK at \in Nat : BeginsAt(out[k], at) /\ offset = at + BlockBytes * (n - k)
          BY <1>20, <4>1
        <4> QED
          BY <1>4, <1>5, <1>11, <1>19, <1>20, <3>2, <4>1, <4>2
      <3>3. CASE j # n
        <4>1. k \in DOMAIN out /\ j \in DOMAIN out
          BY <1>5, <1>12, <2>3, <3>3 DEF n
        <4> QED
          BY <1>11, <2>3, <4>1 DEF PInv, Placed
      <3> QED
        BY <3>1, <3>2, <3>3
    <2>4. ASSUME NEW k \in DOMAIN out', out'[k].nth = played
          PROVE  /\ out'[k].file = playing
                 /\ \E at \in Nat :
                      /\ BeginsAt(out'[k], at)
                      /\ \/ offset' = at + BlockBytes * (n + 1 - k)
                         \/ offset' >= Len(files[playing].safe)
      <3>1. offset' = size => offset' >= Len(files[playing].safe)
        BY <1>6
      <3>2. CASE k = n
        <4>1. n + 1 - n = 1 /\ BlockBytes * 1 = BlockBytes
          BY <1>5, <1>6
        <4>2. offset' = offset + BlockBytes * (n + 1 - n) \/ offset' = size
          BY <1>6, <4>1
        <4> QED
          BY <1>4, <1>5, <1>11, <1>19, <3>1, <3>2, <4>2
      <3>3. CASE k # n
        <4>1. k \in DOMAIN out /\ out'[k] = out[k] /\ k \in Nat
          BY <1>5, <1>11, <1>16, <3>3
        <4>2. PICK at \in Nat : BeginsAt(out[k], at) /\ offset = at + BlockBytes * (n - k)
          BY <1>20, <2>4, <4>1
        <4> DEFINE d == n - k
        <4>3. d \in Int /\ n + 1 - k = d + 1
          BY <1>5, <4>1
        <4> HIDE DEF d
        <4>4. BlockBytes * (d + 1) = BlockBytes * d + BlockBytes /\ BlockBytes * d \in Int
          BY <1>6, <4>3
        <4>5. offset + BlockBytes = at + BlockBytes * (n + 1 - k)
          BY <1>6, <4>2, <4>3, <4>4 DEF d
        <4>6. offset' = at + BlockBytes * (n + 1 - k) \/ offset' >= Len(files[playing].safe)
          BY <1>6, <3>1, <4>5
        <4>7. out[k].file = playing
          BY <1>20, <2>4, <4>1
        <4> QED
          BY <4>1, <4>2, <4>6, <4>7
      <3> QED
        BY <3>2, <3>3
    <2>5. playing' = playing /\ played' = played /\ files' = files /\ Len(out') = n
      BY <1>1, <1>11
    <2> QED
      BY <1>18, <2>1, <2>2, <2>3, <2>4, <2>5 DEF Placed
  <1> QED
    BY <1>13, <1>14, <1>17, <1>22 DEF PInv

-----------------------------------------------------------------------------
(* What a replay and its reports promise *)

\* In the beginning nothing has been reported or played.
LEMMA PlayerBegins ==
  ASSUME PlayerInit, RecorderInit
  PROVE  Reported /\ PInv
  <1>1. /\ playing = 0 /\ offset = 0 /\ rate = DefaultRate /\ seq = 0 /\ timestamp = 0
        /\ out = <<>> /\ played = 0 /\ commands = 0 /\ counter = 0
        /\ heard = NotSaid /\ state = NotSaid /\ row = 0 /\ NoFile = 0
    BY DEF PlayerInit, NoFile
  <1>2. DOMAIN out = {} /\ Len(out) = 0 /\ out \in Seq(Blocks)
    BY <1>1, EmptySeq
  <1>3. /\ SeqMod \in Nat \ {0} /\ TimeMod \in Nat \ {0} /\ BlockSize \in Nat /\ Interval \in Nat
        /\ 0 % SeqMod = 0 /\ 0 % TimeMod = 0
    BY Constants, ModSmall
  <1>4. NotSaid \in Told
    BY DEF NotSaid, Told
  <1>5. Reported
    BY <1>1, <1>3, <1>4 DEF Reported
  <1>6. PlayTypes /\ Frozen /\ AtFile /\ Placed
    BY <1>1, <1>2 DEF PlayTypes, Frozen, AtFile, Placed
  <1>7. Made = 0 /\ BlockSize * 0 = 0
    BY <1>1, <1>2, <1>3 DEF Made
  <1>8. Numbered
    BY <1>1, <1>2, <1>3, <1>7 DEF Numbered
  <1> QED
    BY <1>5, <1>6, <1>8 DEF PInv

\* The reports are the same when nothing is reported.
LEMMA ReportedKept ==
  ASSUME Reported, UNCHANGED ncmdVars
  PROVE  Reported'
  BY DEF Reported, ncmdVars

\* Every step keeps the whole invariant.
LEMMA PlayerStep ==
  ASSUME IInv, [Next]_vars
  PROVE  IInv'
  <1>1. RInv /\ Reported /\ PInv
    BY DEF IInv
  <1>2. RInv'
    BY <1>1, Sides, RecorderStep, RecorderUnchanged
  <1>3. CASE Recording(RecorderNext)
    BY <1>1, <1>2, <1>3, RecordingWhilePlaying, ReportedKept DEF IInv, Recording
  <1>4. ASSUME NEW i \in DOMAIN files, Open(i)
        PROVE  IInv'
    BY <1>1, <1>2, <1>4, OpenStep, ReportedKept DEF IInv, Open
  <1>5. CASE SendBlock
    BY <1>1, <1>2, <1>5, SendBlockStep, ReportedKept DEF IInv, SendBlock
  <1>6. CASE EndFile
    BY <1>1, <1>2, <1>6, EndFileStep, ReportedKept DEF IInv, EndFile
  <1>7. CASE Exit
    BY <1>1, <1>2, <1>7, ExitStep, ReportedKept DEF IInv, Exit
  <1>8. commands \in Nat /\ counter \in 0..Interval /\ Interval \in Nat /\ Len(out) \in Nat
    BY <1>1, Constants, OutType DEF Reported
  <1>9. CASE Idle
    <2> DEFINE full == counter = 0
    <2>1. /\ Report(commands, full) /\ counter' = CountDown(counter) /\ commands' = commands
          /\ UNCHANGED recorderVars /\ UNCHANGED playVars
      BY <1>9 DEF Idle
    <2>2. counter' = IF full THEN Interval ELSE counter - 1
      BY <1>8, <2>1, CountDownStep
    <2>3. full \in BOOLEAN /\ (counter = 0 => full)
      OBVIOUS
    <2> HIDE DEF full
    <2>4. Reported'
      BY <1>1, <1>8, <2>1, <2>2, <2>3, ReportStep
    <2> QED
      BY <1>1, <1>2, <2>1, <2>4, PlayIdle DEF IInv
  <1>10. CASE Command
    <2>1. PICK n \in Nat : n = commands + 1
      BY <1>8
    <2>2. /\ Report(n, TRUE) /\ counter' = CountDown(0) /\ commands' = n
          /\ UNCHANGED recorderVars /\ UNCHANGED playVars
      BY <1>10, <2>1 DEF Command, Report
    <2>3. counter' = IF TRUE THEN Interval ELSE counter - 1
      BY <1>8, <2>2, CountDownStep
    <2>4. Reported'
      BY <1>1, <1>8, <2>2, <2>3, ReportStep
    <2> QED
      BY <1>1, <1>2, <2>2, <2>4, PlayIdle DEF IInv
  <1>11. CASE UNCHANGED vars
    <2>1. UNCHANGED recorderVars /\ UNCHANGED playVars /\ UNCHANGED ncmdVars
      BY <1>11 DEF vars
    <2> QED
      BY <1>1, <1>2, <2>1, PlayIdle, ReportedKept DEF IInv
  <1> QED
    BY <1>3, <1>4, <1>5, <1>6, <1>7, <1>9, <1>10, <1>11 DEF Next

\* The whole invariant: recordings, reports, and where each block of a replay
\* begins and what its header counts.
THEOREM PlayerInductive == Spec => []IInv
  <1>1. Init => IInv
    BY RecorderBegins, PlayerBegins DEF Init, IInv
  <1>2. IInv /\ [Next]_vars => IInv'
    BY PlayerStep
  <1> QED
    BY <1>1, <1>2, PTL DEF Spec

\* Whoever has heard Interval + 1 reports in a row knows what the last one
\* could tell (ncmd and compact_packet, iqplay.c:275-359).
THEOREM HearerKnowsThm == Spec => []HearerKnows
  <1>1. IInv => HearerKnows
    <2> SUFFICES ASSUME IInv, row > Interval
                 PROVE  heard = state
      BY DEF HearerKnows
    <2>1. counter \in 0..Interval /\ Interval \in Nat /\ row \in Nat
      BY Constants DEF IInv, Reported
    <2>2. row > Interval - counter
      BY <2>1
    <2> QED
      BY <2>2 DEF IInv, Reported
  <1> QED
    BY <1>1, PlayerInductive, PTL

\* A difference of wrapped numbers that is less than half the modulus.
LEMMA WrappedDifference ==
  ASSUME NEW m \in Nat \ {0}, NEW a \in Int, NEW b \in Int, a - b >= 0, 2 * (a - b) < m
  PROVE  Signed((a % m) - (b % m), m) = a - b
  <1> DEFINE x == (a % m) - (b % m)
             d == a - b
  <1>1. a % m \in Int /\ b % m \in Int /\ d \in Int
    BY ModRange
  <1>2. x \in Int
    BY <1>1
  <1>3. x % m = d % m
    BY ModSubtract
  <1>4. x % m \in 0..m - 1
    BY <1>2, ModRange
  <1>5. -m <= 2 * d /\ 2 * d < m
    BY <1>1
  <1> HIDE DEF x, d
  <1>6. Signed(x, m) = SignedOf(x % m, m)
    BY <1>4 DEF Signed, SignedOf
  <1>7. SignedOf(d % m, m) = d
    BY <1>1, <1>5, SignedExact
  <1> QED
    BY <1>3, <1>6, <1>7 DEF x, d

\* A block of an undisturbed I/Q recording begins with the sample of its place,
\* at the stream's own rate.
LEMMA BlockOf ==
  ASSUME RInv, NEW b, NEW at \in Nat, BeginsAt(b, at),
         files[b.file].smooth, files[b.file].from.stream.type = "iq"
  PROVE  LET f == files[b.file] IN
         /\ Head(b.bytes).at = f.from.first * SampleSize("iq") + at
         /\ f.from.first * SampleSize("iq") \in Nat
         /\ Attribute(f) = f.from.stream.rate
  <1>1. b.file \in DOMAIN files
    BY DEF BeginsAt
  <1>2. PICK f \in Recordings : f = files[b.file]
    BY <1>1, FileType
    DEF RInv
  <1>3. FileSound(f) /\ f.smooth
    BY <1>1, <1>2 DEF RInv, FilesSound
  <1>4. Whole(f)
    BY <1>3 DEF FileSound
  <1>5. f.safe \in Seq(Bytes) /\ Len(f.safe) \in Nat /\ Len(f.data) \in Nat
    BY LenProperties DEF Recordings
  <1>6. at + 1 \in 1..Len(f.safe) /\ Head(b.bytes) = f.safe[at + 1]
    BY <1>2, <1>5 DEF BeginsAt
  <1> DEFINE k == f.from.first * SampleSize("iq")
             byte == ByteAt(f.from, k + (at + 1) - 1)
  <1>7. f.safe[at + 1] = byte
    <2>1. at + 1 \in 1..Len(f.data) /\ f.safe[at + 1] = f.data[at + 1]
      BY <1>4, <1>5, <1>6 DEF Whole
    <2>2. f.data[at + 1] = byte
      BY <1>2, <1>4, <2>1 DEF Whole
    <2> QED
      BY <2>1, <2>2
  <1>8. k \in Nat
    <2> DEFINE s == SampleSize("iq")
    <2>1. s \in Nat /\ f.from.first \in Nat
      BY SampleSizeNat DEF Recordings, Packets
    <2> HIDE DEF s
    <2>2. f.from.first * s \in Nat
      BY <2>1
    <2> QED
      BY <2>2 DEF s
  <1>9. Head(b.bytes).at = k + (at + 1) - 1
    BY <1>6, <1>7 DEF ByteAt
  <1> HIDE DEF k
  <1>10. Head(b.bytes).at = k + at
    BY <1>8, <1>9
  <1>11. Attribute(f) = f.from.stream.rate
    <2>1. f.safe # <<>>
      BY <1>5, <1>6, EmptySeq
    <2>2. f.attrs = Attributes(f.from)
      BY <1>3, <2>1 DEF FileSound
    <2>3. Attributes(f.from).samprate = f.from.stream.rate
      BY <1>2 DEF Attributes
    <2>4. Attributes(f.from) # NoAttributes
      <3>1. "none" \in DOMAIN NoAttributes /\ "none" \notin DOMAIN Attributes(f.from)
        BY DEF NoAttributes, Attributes
      <3> QED
        BY <3>1
    <2> QED
      BY <2>2, <2>3, <2>4 DEF Attribute
  <1> QED
    BY <1>2, <1>8, <1>10, <1>11 DEF k

\* Timestamps keep step with sequence numbers, and within an undisturbed I/Q
\* recording with the time of the stream, at its own rate (playfile).
THEOREM ReplayKeepsTimeThm == Spec => []ReplayKeepsTime
  <1>1. IInv => ReplayKeepsTime
    <2> SUFFICES ASSUME IInv, NEW k \in DOMAIN out, NEW n \in DOMAIN out, k <= n,
                        2 * Between(k, n) < SeqMod,
                        2 * (BlockSize * Between(k, n)) < TimeMod
                 PROVE  LET f == files[out[k].file]
                            elapsed == Signed(out[n].timestamp - out[k].timestamp, TimeMod) IN
                        /\ elapsed = BlockSize * Signed(out[n].seq - out[k].seq, SeqMod)
                        /\ out[k].nth = out[n].nth /\ f.smooth /\ f.from.stream.type = "iq" =>
                             /\ 4 * elapsed = Head(out[n].bytes).at - Head(out[k].bytes).at
                             /\ out[n].rate = f.from.stream.rate
      BY DEF ReplayKeepsTime
    <2>1. RInv /\ PInv
      BY DEF IInv
    <2>2. k \in Nat /\ n \in Nat
      BY <2>1, OutType
    <2>3. /\ out[k].nth \in Nat /\ out[n].nth \in Nat /\ out[k].nth <= out[n].nth
      <3>1. out[k].nth \in 1..played /\ out[n].nth \in 1..played /\ played \in Nat
        BY <2>1 DEF PInv, PlayTypes, Placed
      <3>2. out[k].nth <= out[n].nth
        BY <2>1 DEF PInv, Placed
      <3> QED
        BY <3>1, <3>2
    <2>4. SeqMod \in Nat \ {0} /\ TimeMod \in Nat \ {0} /\ BlockSize \in Nat
      BY Constants
    <2> DEFINE a == k + out[k].nth - 2
               b == n + out[n].nth - 2
               d == Between(k, n)
    <2>5. a \in Int /\ b \in Int /\ d \in Nat /\ b - a = d
      BY <2>2, <2>3 DEF Between
    <2>6. /\ out[k].seq = a % SeqMod /\ out[n].seq = b % SeqMod
          /\ out[k].timestamp = (BlockSize * a) % TimeMod
          /\ out[n].timestamp = (BlockSize * b) % TimeMod
      BY <2>1 DEF PInv, Numbered
    <2> HIDE DEF a, b, d
    <2>7. Signed(out[n].seq - out[k].seq, SeqMod) = d
      <3>1. 2 * d < SeqMod
        BY DEF d
      <3>2. b - a >= 0 /\ 2 * (b - a) < SeqMod
        BY <2>5, <3>1
      <3>3. Signed((b % SeqMod) - (a % SeqMod), SeqMod) = b - a
        BY <2>4, <2>5, <3>2, WrappedDifference
      <3> QED
        BY <2>5, <2>6, <3>3
    <2> DEFINE p == BlockSize * a
               q == BlockSize * b
               e == BlockSize * d
    <2>8. p \in Int /\ q \in Int /\ e \in Nat /\ q - p = e
      <3>1. BlockSize * (a + d) = BlockSize * a + BlockSize * d
        BY <2>4, <2>5
      <3>2. b = a + d
        BY <2>5
      <3>3. p \in Int /\ q \in Int /\ e \in Nat
        BY <2>4, <2>5
      <3>4. q = p + e
        BY <3>1, <3>2
      <3> HIDE DEF p, q, e
      <3> QED
        BY <3>3, <3>4
    <2>9. 2 * e < TimeMod
      BY DEF d
    <2> HIDE DEF p, q, e
    <2>10. Signed(out[n].timestamp - out[k].timestamp, TimeMod) = e
      <3>1. q - p >= 0 /\ 2 * (q - p) < TimeMod
        BY <2>8, <2>9
      <3>2. Signed((q % TimeMod) - (p % TimeMod), TimeMod) = q - p
        BY <2>4, <2>8, <3>1, WrappedDifference
      <3> QED
        BY <2>6, <2>8, <3>2 DEF p, q
    <2>11. ASSUME out[k].nth = out[n].nth, files[out[k].file].smooth,
                  files[out[k].file].from.stream.type = "iq"
           PROVE  /\ 4 * e = Head(out[n].bytes).at - Head(out[k].bytes).at
                  /\ out[n].rate = files[out[k].file].from.stream.rate
      <3>1. PICK at \in Nat : /\ BeginsAt(out[k], at)
                              /\ BeginsAt(out[n], at + BlockBytes * (n - k))
        BY <2>1, <2>11 DEF PInv, Placed
      <3>2. out[k].file = out[n].file /\ out[n].rate = Attribute(files[out[n].file])
        BY <2>1, <2>11 DEF PInv, Placed
      <3>3. d = n - k
        BY <2>2, <2>3, <2>11 DEF d, Between
      <3>4. BlockBytes * (n - k) = 4 * e
        BY <2>4, <2>5, <3>3 DEF BlockBytes, e
      <3> DEFINE f == files[out[k].file]
                 s == f.from.first * SampleSize("iq")
                 z == at + BlockBytes * (n - k)
      <3>5. z = at + 4 * e /\ z \in Nat
        BY <2>8, <3>4
      <3>6. Head(out[k].bytes).at = s + at /\ s \in Nat
        BY <2>1, <2>11, <3>1, BlockOf
      <3>7. Head(out[n].bytes).at = s + z /\ Attribute(f) = f.from.stream.rate
        <4> HIDE DEF z
        <4>1. BeginsAt(out[n], z)
          BY <3>1 DEF z
        <4> QED
          BY <2>1, <2>11, <3>2, <3>5, <4>1, BlockOf
      <3> HIDE DEF s, z
      <3> QED
        BY <2>8, <3>2, <3>5, <3>6, <3>7
    <2> QED
      BY <2>7, <2>10, <2>11 DEF e
  <1> QED
    BY <1>1, PlayerInductive, PTL
=============================================================================
