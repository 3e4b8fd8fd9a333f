--------------------------- MODULE PacketReceiver ---------------------------
(***************************************************************************)
(* packet: AX.25 frames out of the audio of FM receivers.                  *)
(*                                                                         *)
(* Transmitters send frames between flags, with a zero stuffed after five  *)
(* ones; every bit is a change of tone (0) or none (1).  Their audio comes *)
(* as RTP, one SSRC each, over a network that loses, repeats and delays.   *)
(* The input thread finds the session and cuts the audio into the blocks   *)
(* of a filter; the session's decoder thread takes the filter's latest     *)
(* block, finds flags and frames in it, and sends what has a good CRC as   *)
(* RTP of its own.                                                         *)
(*                                                                         *)
(* Time is counted in bits: the tone of a bit is one element of the audio. *)
(* The CRC is taken to be ideal: it is good for what was sent as a frame.  *)
(***************************************************************************)
EXTENDS RtpState, Sequences, FiniteSets

SE == INSTANCE SequencesExt

CONSTANTS
  Streams,     \* SSRCs
  Frames,      \* what may be sent
  Bits,        \* the bits of each frame, with its CRC, in whole octets
  Sends,       \* the sequence of frames each stream's transmitter sends
  PacketBits,  \* bits in an RTP packet
  BlockBits,   \* 25: bits in a block of the filter
  Window,      \* bound: bits by which a packet may be overtaken
  MaxTroubles  \* bound: tones garbled, packets lost and repeated, blocks that
               \*   the decoder misses

ASSUME PacketAssumption ==
  /\ {PacketBits, BlockBits} \subseteq Nat \ {0}
  /\ {Window, MaxTroubles} \subseteq Nat
  /\ PacketBits <= BlockBits
  /\ Bits \in [Frames -> Seq({0, 1})]
  /\ Sends \in [Streams -> Seq(Frames)]

VARIABLES
  sent,     \* bits of its line each stream has sent
  net,      \* audio packets in flight
  troubles, \* so far
  sessions, \* Session: SSRCs, the last created first
  rtpIn,    \* each session's rtp_state_in
  input,    \* what is in the filter's input, up to input_pointer
  block,    \* the filter's latest block, and how many there have been
  taken,    \* the block the decoder took last; -1 before it is ready
  dec,      \* the decoder's registers
  rtpOut,   \* rtp_state_out: seq, timestamp
  out,      \* history: packets sent, with the frame they hold
  due       \* history: frames the decoder has had whole and undisturbed

radioVars == <<sent, net>>
inputVars == <<sessions, rtpIn, input, block>>
decodeVars == <<taken, dec, rtpOut, out, due>>
packetVars == <<radioVars, troubles, inputVars, decodeVars>>

-----------------------------------------------------------------------------
(* Transmitters *)

Flag == <<0, 1, 1, 1, 1, 1, 1, 0>>

\* Ones at the end of a sequence of bits.
Ones(bits) ==
  LET zeros == {i \in DOMAIN bits : bits[i] = 0} IN
  Len(bits) - (IF zeros = {} THEN 0 ELSE CHOOSE i \in zeros : \A j \in zeros : j <= i)

Stuff(line, bit) == IF bit = 1 /\ Ones(line) = 4 THEN line \o <<1, 0>> ELSE Append(line, bit)
Stuffed(bits) == SE!FoldLeft(Stuff, <<>>, bits)

\* The line up to the k-th frame's opening flag; one flag between two frames.
Before(s) ==
  LET Upto[k \in 1..Len(Sends[s]) + 1] ==
        IF k = 1 THEN <<1>> ELSE Upto[k - 1] \o Flag \o Stuffed(Bits[Sends[s][k - 1]])
  IN Upto
Line(s) == Before(s)[Len(Sends[s]) + 1] \o Flag \o <<1, 1, 1>>

\* The tones: a zero is a change.
Change(tones, bit) ==
  Append(tones, IF tones = <<>> THEN bit
                ELSE IF bit = 0 THEN 1 - tones[Len(tones)] ELSE tones[Len(tones)])
Tones == [s \in Streams |-> SE!FoldLeft(Change, <<>>, Line(s))]

\* Where the flag before frame k begins, and where the flag after it ends.
Opening(s, k) == Len(Before(s)[k]) + 1
Closing(s, k) == Len(Before(s)[k + 1]) + Len(Flag)

Trouble == troubles < MaxTroubles /\ troubles' = troubles + 1

\* The next audio packet, one of its tones garbled or none.
Transmit(s) ==
  LET last == IF sent[s] + PacketBits < Len(Tones[s]) THEN sent[s] + PacketBits ELSE Len(Tones[s])
      clear == [i \in 1..last - sent[s] |->
                  [at |-> sent[s] + i, tone |-> Tones[s][sent[s] + i], good |-> TRUE]] IN
  /\ sent[s] < Len(Tones[s])
  /\ \A p \in net : p.ssrc = s => p.first + Window >= sent[s]
  /\ sent' = [sent EXCEPT ![s] = last]
  /\ \E tones \in {clear} \cup
         {[clear EXCEPT ![i].tone = 1 - @, ![i].good = FALSE] : i \in DOMAIN clear} :
       /\ net' = net \cup {[ssrc |-> s, seq |-> (sent[s] \div PacketBits) % SeqMod,
                            first |-> sent[s], tones |-> tones]}
       /\ IF tones = clear THEN UNCHANGED troubles ELSE Trouble
  /\ UNCHANGED <<inputVars, decodeVars>>

Lose(p) == Trouble /\ net' = net \ {p} /\ UNCHANGED <<sent, inputVars, decodeVars>>

-----------------------------------------------------------------------------
(* input, make_session *)

PacketInit ==
  /\ sent = [s \in Streams |-> 0] /\ net = {} /\ troubles = 0
  /\ sessions = <<>>
  /\ rtpIn = [s \in Streams |-> Unopened]
  /\ input = [s \in Streams |-> <<>>]
  /\ block = [s \in Streams |-> [number |-> 0, tones |-> <<>>]]
  /\ taken = [s \in Streams |-> -1]
  /\ dec = [s \in Streams |-> [last |-> 0, ones |-> 0, flagsync |-> FALSE, frame |-> <<>>,
                              at |-> 0, clean |-> 1, frames |-> <<>>]]
  /\ rtpOut = [s \in Streams |-> [seq |-> 0, timestamp |-> 0]]
  /\ out = <<>> /\ due = [s \in Streams |-> {}]

HeaderOf(p) == [ssrc |-> p.ssrc, seq |-> p.seq, timestamp |-> p.first % TimeMod]

\* skipped_samples < 0
Dropped(p) == ~Good(rtpIn[p.ssrc], HeaderOf(p))

\* The decoder has not had the filter's latest block.
Pending(s) == block[s].number > 0 /\ taken[s] # block[s].number

\* A packet, perhaps not for the last time.  It fills one block at most
\* (PacketBits <= BlockBits).
Receive(p) ==
  LET s == p.ssrc
      all == input[s] \o p.tones
      full == ~Dropped(p) /\ Len(all) >= BlockBits IN
  /\ net' \in {net, net \ {p}}
  /\ troubles' = troubles + (IF net' = net THEN 1 ELSE 0) + (IF full /\ Pending(s) THEN 1 ELSE 0)
  /\ troubles' <= MaxTroubles
  /\ sessions' = IF s \in SE!ToSet(sessions) THEN sessions ELSE <<s>> \o sessions
  /\ rtpIn' = [rtpIn EXCEPT ![s] = Processed(@, HeaderOf(p), Len(p.tones))]
  /\ IF full
     THEN /\ block' = [block EXCEPT ![s] = [number |-> @.number + 1,
                                            tones |-> SubSeq(all, 1, BlockBits)]]
          /\ input' = [input EXCEPT ![s] = SubSeq(all, BlockBits + 1, Len(all))]
     ELSE /\ UNCHANGED block
          /\ Dropped(p) => UNCHANGED input
          /\ ~Dropped(p) => input' = [input EXCEPT ![s] = all]
  /\ UNCHANGED <<sent, decodeVars>>

-----------------------------------------------------------------------------
(* decode_task *)

\* create_filter_output: block 0 is not waited for.
StartDecoder(s) ==
  /\ s \in SE!ToSet(sessions) /\ taken[s] = -1
  /\ taken' = [taken EXCEPT ![s] = 0]
  /\ UNCHANGED <<radioVars, troubles, inputVars, dec, rtpOut, out, due>>

\* The frame without the first seven bits of the flag, in whole octets.
Finished(frame) == SubSeq(frame, 1, ((Len(frame) - 7) \div 8) * 8)

CrcGood(frame) == \E f \in Frames : Bits[f] = frame

\* A zero after six ones: a flag.
AtFlag(d) ==
  [d EXCEPT !.frames = IF d.flagsync /\ Len(d.frame) >= 7 /\ CrcGood(Finished(d.frame))
                       THEN Append(@, Finished(d.frame)) ELSE @,
            !.frame = <<>>, !.flagsync = TRUE]

InFrame(d, bit) == IF d.flagsync THEN [d EXCEPT !.frame = Append(@, bit)] ELSE d

\* Mutant: the stuffed zero is kept.
ZeroKept(d) == [IF d.ones = 6 THEN AtFlag(d) ELSE InFrame(d, 0) EXCEPT !.ones = 0]

\* Five ones before it: a stuffed zero.  More than six: the end of an abort.
Zero(d) ==
  [IF d.ones = 6 THEN AtFlag(d) ELSE IF d.ones < 5 THEN InFrame(d, 0) ELSE d EXCEPT !.ones = 0]

\* Seven in a row: an abort.
One(d) ==
  [IF d.ones = 6 THEN [d EXCEPT !.frame = <<>>, !.flagsync = FALSE] ELSE InFrame(d, 1)
     EXCEPT !.ones = @ + 1]

\* History: from where on all tones have come, in order and right.
Heard(d, t) ==
  [d EXCEPT !.at = t.at, !.last = t.tone,
            !.clean = IF ~t.good THEN t.at + 1 ELSE IF t.at # d.at + 1 THEN t.at ELSE @]

Bit(d, t) == Heard(IF d.at > 0 /\ t.tone # d.last THEN Zero(d) ELSE One(d), t)

\* History: the frames that end in this block, from flag to flag undisturbed.
NowDue(s, before, after) ==
  {k \in 1..Len(Sends[s]) :
     Closing(s, k) \in before.at + 1..after.at /\ after.clean < Opening(s, k)}

FrameOf(bits) == CHOOSE f \in Frames : Bits[f] = bits

\* What the frames of one block are sent as.
Packets(s, frames) ==
  [k \in DOMAIN frames |->
     [ssrc |-> s, seq |-> (rtpOut[s].seq + k - 1) % SeqMod,
      timestamp |-> (rtpOut[s].timestamp
                       + Len(SE!FlattenSeq(SubSeq(frames, 1, k - 1))) \div 8) % TimeMod,
      frame |-> FrameOf(frames[k])]]

\* The registers after each bit of the latest block.
DecodedUpto(s) ==
  LET after[n \in 0..BlockBits] ==
        IF n = 0 THEN dec[s] ELSE Bit(after[n - 1], block[s].tones[n])
  IN  after

\* execute_filter_output takes the latest block.
Decode(s) ==
  LET after == DecodedUpto(s)[BlockBits]
      d == [after EXCEPT !.frames = <<>>]
      frames == after.frames IN
  /\ taken[s] # -1 /\ Pending(s)
  /\ taken' = [taken EXCEPT ![s] = block[s].number]
  /\ dec' = [dec EXCEPT ![s] = d]
  /\ rtpOut' = [rtpOut EXCEPT ![s] =
       [seq |-> (@.seq + Len(frames)) % SeqMod,
        timestamp |-> (@.timestamp + Len(SE!FlattenSeq(frames)) \div 8) % TimeMod]]
  /\ out' = out \o Packets(s, frames)
  /\ due' = [due EXCEPT ![s] = @ \cup NowDue(s, dec[s], d)]
  /\ UNCHANGED <<radioVars, troubles, inputVars>>

-----------------------------------------------------------------------------
(* What packet promises *)

OutOf(s) == SelectSeq(out, LAMBDA p : p.ssrc = s)

\* Frames of a stream are sent in the order they were transmitted, none twice
\* and none that was not, though audio is lost, garbled, repeated or overtaken;
\* and every frame the decoder has had whole, from its opening to its closing
\* flag, is sent, whatever came before: noise, half a frame, a lost packet
\* (decode_task).
FramesInOrder ==
  \A s \in Streams : \E where \in SUBSET (1..Len(Sends[s])) :
    /\ Cardinality(where) = Len(OutOf(s))
    /\ due[s] \subseteq where
    /\ \A k \in where :
         OutOf(s)[Cardinality({j \in where : j <= k})].frame = Sends[s][k]
=============================================================================
