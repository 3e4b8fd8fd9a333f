----------------------------- MODULE PcmStream -----------------------------
(***************************************************************************)
(* The PCM stream from `radio' to a receiver: send_mono_output in audio.c, *)
(* which leaves out silence and cuts a block of audio into packets, a      *)
(* network that loses, duplicates and reorders, and the Opus transcoder    *)
(* (input and send_samples in opus.c), which gathers the samples into      *)
(* frames.  send_stereo_output does the same with pairs of samples.        *)
(*                                                                         *)
(* A sample is its place in the audio that the demodulator made; the       *)
(* receiver sees the sequence number modulo SeqMod and the timestamp       *)
(* modulo TimeMod.                                                         *)
(***************************************************************************)
EXTENDS RtpState, Sequences

CONSTANTS
  PacketMax,     \* PCM_BUFSIZE: samples in the largest packet
  BlockLen,      \* olen: samples the demodulator makes of one filter block
  FrameSize,     \* Opus_frame_size
  ResetFrames,   \* 4: missing frames after which opus resets its encoder
  Discontinuous, \* opus was started with -x: silent frames are not sent
  Window,        \* packets by which the network may delay a packet
  MaxGap,        \* packets in a row that the network may lose
  MaxBlocks,     \* bound: blocks of audio
  MaxSilence,    \* bound: samples of silence in a row
  MaxCopies,     \* bound: extra copies of packets that the network makes
  MaxFailures    \* bound: calls of send() that fail in radio

ASSUME PcmAssumption ==
  /\ {PacketMax, BlockLen, FrameSize, ResetFrames, Window} \subseteq Nat \ {0}
  /\ {MaxGap, MaxBlocks, MaxSilence, MaxCopies, MaxFailures} \subseteq Nat
  /\ Discontinuous \in BOOLEAN
  /\ 2 * Window <= SeqMod     \* no packet is late by half the sequence numbers,
  /\ 2 * MaxSilence < TimeMod \* and no silence lasts half the time there is

VARIABLES
  produced,  \* samples of audio made so far and dealt with
  size,      \* samples of the current block still to be dealt with
  out,       \* demod->output: rtp.timestamp, rtp.seq (both unwrapped), silent
  quiet,     \* history: samples of silence left out just now, in a row
  failures,  \* calls of send() that have failed
  net,       \* packets in flight
  lost,      \* packets the network has just lost, in a row
  copies,    \* extra copies the network has made
  rtp,       \* opus: sp->rtp_state_in
  buffer,    \* opus: sp->audio_buffer
  silence,   \* opus: sp->silence, the next frame gets the marker
  last,      \* history: the packet opus accepted last
  spurt,     \* history: first sample since opus reset the encoder
  left,      \* history: the last frame was left out as silent
  coded      \* history: the frames encoded from the last packet that completed
             \*   any: their samples, markers, `spurt', and `left' before each

radioVars == <<produced, size, out, quiet, failures>>
netVars   == <<net, lost, copies>>
opusVars  == <<rtp, buffer, silence, last, spurt, left, coded>>
vars      == <<radioVars, netVars, opusVars>>

MaxAudio == MaxBlocks * BlockLen
Place    == 0..MaxAudio - 1
Nothing  == -1

\* The last two fields are history: where the samples belong, and the samples
\* of silence left out just before them.
Packet == [idx: 0..MaxAudio, stamp: 0..MaxAudio, len: 1..PacketMax, marker: BOOLEAN,
           at: Place, quiet: 0..MaxSilence]
NoPacket == [idx |-> Nothing, stamp |-> 0, len |-> 0, marker |-> FALSE, at |-> 0,
             quiet |-> 0]

\* What a receiver sees of a packet.
Header(p) == [ssrc |-> 0, seq |-> p.idx % SeqMod, timestamp |-> p.stamp % TimeMod]

End(p) == p.at + p.len

NoFrame == [samples |-> <<>>, marker |-> <<>>, spurt |-> Nothing, left |-> <<>>]

\* The frames that were last encoded.
CodedOK == coded \in [samples: Seq(Place), marker: Seq(BOOLEAN),
                      spurt: Place \cup {Nothing}, left: Seq(BOOLEAN)]

TypeOK ==
  /\ produced \in 0..MaxAudio /\ size \in 0..BlockLen
  /\ out \in [timestamp: 0..MaxAudio, seq: 0..MaxAudio, silent: BOOLEAN]
  /\ quiet \in 0..MaxSilence
  /\ failures \in 0..MaxFailures
  /\ net \subseteq Packet /\ lost \in 0..MaxGap /\ copies \in 0..MaxCopies
  /\ rtp \in RtpStates({0})
  /\ buffer \in Seq(Place) /\ Len(buffer) < FrameSize
  /\ silence \in BOOLEAN
  /\ last \in Packet \cup {NoPacket}
  /\ spurt \in Place \cup {Nothing}
  /\ left \in BOOLEAN
  /\ CodedOK

Init ==
  /\ produced = 0 /\ size = 0
  /\ out = [timestamp |-> 0, seq |-> 0, silent |-> FALSE]
  /\ quiet = 0 /\ failures = 0
  /\ net = {} /\ lost = 0 /\ copies = 0
  /\ rtp = Unopened
  /\ buffer = <<>> /\ silence = FALSE
  /\ last = NoPacket /\ spurt = Nothing /\ left = FALSE /\ coded = NoFrame

-----------------------------------------------------------------------------
(* radio *)

\* The demodulator has a block of audio and calls send_mono_output.
StartBlock ==
  /\ size = 0
  /\ produced + BlockLen <= MaxAudio
  /\ size' = BlockLen
  /\ UNCHANGED <<produced, out, quiet, failures, netVars, opusVars>>

Chunk == IF size < PacketMax THEN size ELSE PacketMax

\* Mutant: the timestamp counts what is sent.
SuppressUncounted ==
  /\ size > 0
  /\ quiet + Chunk <= MaxSilence
  /\ out' = [out EXCEPT !.silent = TRUE]
  /\ quiet' = quiet + Chunk
  /\ produced' = produced + Chunk
  /\ size' = size - Chunk
  /\ UNCHANGED <<failures, netVars, opusVars>>

\* "If packet is all zeroes, don't send it but still increase the timestamp".
Suppress ==
  /\ size > 0
  /\ quiet + Chunk <= MaxSilence
  /\ out' = [out EXCEPT !.timestamp = @ + Chunk, !.silent = TRUE]
  /\ quiet' = quiet + Chunk
  /\ produced' = produced + Chunk
  /\ size' = size - Chunk
  /\ UNCHANGED <<failures, netVars, opusVars>>

\* Whether or not it gets out, a packet takes its sequence number and its time.
Sent == [timestamp |-> out.timestamp + Chunk, seq |-> out.seq + 1, silent |-> FALSE]

SendChunk ==
  /\ size > 0
  /\ \A p \in net : out.seq - p.idx < Window
  /\ \/ /\ net' = net \cup {[idx |-> out.seq, stamp |-> out.timestamp,
                             len |-> Chunk, marker |-> out.silent,
                             at |-> produced, quiet |-> quiet]}
        /\ lost' = 0
     \/ /\ lost < MaxGap
        /\ lost' = lost + 1
        /\ UNCHANGED net
  /\ out' = Sent
  /\ produced' = produced + Chunk
  /\ size' = size - Chunk
  /\ quiet' = 0
  /\ UNCHANGED <<failures, copies, opusVars>>

\* send() fails: the rest of the block is given up, without taking its time.
FailChunk ==
  /\ size > 0
  /\ failures < MaxFailures
  /\ failures' = failures + 1
  /\ out' = Sent
  /\ produced' = produced + size
  /\ size' = 0
  /\ quiet' = 0
  /\ UNCHANGED <<netVars, opusVars>>

-----------------------------------------------------------------------------
(* opus *)

\* The network delivers p, in any order, and may keep a copy.
Deliver(p) ==
  \/ net' = net \ {p} /\ UNCHANGED <<lost, copies>>
  \/ copies < MaxCopies /\ copies' = copies + 1 /\ UNCHANGED <<net, lost>>

Reject(p) ==
  /\ ~Good(rtp, Header(p))
  /\ rtp' = Processed(rtp, Header(p), p.len)
  /\ UNCHANGED <<buffer, silence, last, spurt, left, coded>>

\* "reset encoder state after 4 frames of complete silence or a RTP marker bit".
Resets(p) == p.marker \/ TimeStep(rtp, Header(p)) > ResetFrames * FrameSize

Gathered(p) == buffer \o [i \in 1..p.len |-> p.at + i - 1]

\* Frames that the packet completes: several, when frames are short.
Frames(p) == Len(Gathered(p)) \div FrameSize

SpurtWith(p) == IF Resets(p) THEN p.at ELSE spurt

\* Not enough for a frame yet.
Gather(p) ==
  /\ Good(rtp, Header(p))
  /\ Frames(p) = 0
  /\ rtp' = Processed(rtp, Header(p), p.len)
  /\ buffer' = Gathered(p)
  /\ silence' = (silence \/ Resets(p))
  /\ spurt' = SpurtWith(p)
  /\ last' = p
  /\ UNCHANGED <<left, coded>>

\* Which frames are left out as silent; a failure of send() changes nothing.
Choices(p) == [1..Frames(p) -> IF Discontinuous THEN BOOLEAN ELSE {FALSE}]

\* A frame takes the marker that waits; if it is left out, the next is marked.
FramesOf(p, silent) ==
  [samples |-> SubSeq(Gathered(p), 1, Frames(p) * FrameSize),
   marker  |-> [k \in 1..Frames(p) |-> IF k = 1 THEN silence \/ Resets(p) ELSE silent[k - 1]],
   spurt   |-> SpurtWith(p),
   left    |-> [k \in 1..Frames(p) |-> IF k = 1 THEN left ELSE silent[k - 1]]]

\* Mutant: what is left over starts the next frame twice.
EncodeKept(p) ==
  /\ Good(rtp, Header(p))
  /\ Frames(p) > 0
  /\ rtp' = Processed(rtp, Header(p), p.len)
  /\ \E silent \in Choices(p) :
       /\ coded' = FramesOf(p, silent)
       /\ silence' = silent[Frames(p)] /\ left' = silent[Frames(p)]
  /\ buffer' = SubSeq(Gathered(p), Frames(p) * FrameSize, Len(Gathered(p)))
  /\ spurt' = SpurtWith(p)
  /\ last' = p

\* send_samples, sample by sample: each time the buffer is full a frame is
\* complete; the rest of the packet stays.
Encode(p) ==
  /\ Good(rtp, Header(p))
  /\ Frames(p) > 0
  /\ rtp' = Processed(rtp, Header(p), p.len)
  /\ \E silent \in Choices(p) :
       /\ coded' = FramesOf(p, silent)
       /\ silence' = silent[Frames(p)] /\ left' = silent[Frames(p)]
  /\ buffer' = SubSeq(Gathered(p), Frames(p) * FrameSize + 1, Len(Gathered(p)))
  /\ spurt' = SpurtWith(p)
  /\ last' = p

Input(p) ==
  /\ Reject(p) \/ Gather(p) \/ Encode(p)
  /\ Deliver(p)
  /\ UNCHANGED radioVars

-----------------------------------------------------------------------------
SendOutput == StartBlock \/ Suppress \/ SendChunk \/ FailChunk

Next == SendOutput \/ \E p \in net : Input(p)

Spec == Init /\ [][Next]_vars
-----------------------------------------------------------------------------
(* Properties *)

\* When no sequence number is missing, the step of the timestamp is exactly the
\* silence left out, and the marker flags it ("The RTP timestamp indicates how
\* many silent samples were suppressed", README.md:283); failed and lost packets
\* never pass for silence.
GapIsSilence ==
  [][ last # NoPacket /\ last' # last /\ last'.idx = last.idx + 1 =>
        /\ TimeStep(rtp, Header(last')) = last'.quiet
        /\ last'.at - End(last) = last'.quiet
        /\ last'.marker <=> last'.quiet > 0 ]_vars

\* Opus frames hold the samples in the order of the audio, none of them twice.
SamplesInOrder ==
  LET all == coded.samples \o buffer
  IN  \A i, j \in DOMAIN all : i < j => all[i] < all[j]

\* A frame carries the marker if and only if it holds the first sample of a new
\* talk spurt, or follows a frame that was left out as silent (opus.c:510-514,
\* 533-534).  It may also hold the end of the previous spurt.
SpurtIsMarked ==
  \A k \in DOMAIN coded.marker :
    coded.marker[k] <=>
      \/ coded.left[k]
      \/ \E i \in DOMAIN coded.samples :
           (k - 1) * FrameSize < i /\ i <= k * FrameSize /\ coded.samples[i] = coded.spurt

\* The Opus stream says what the PCM stream said: the same audio in the same
\* order, with the same beginnings of talk spurts, whatever the network loses,
\* repeats or reorders, wherever frames are cut and however many a packet completes
\* (opus.c:386-423, 496-538).
FramesSound == SamplesInOrder /\ SpurtIsMarked
=============================================================================
