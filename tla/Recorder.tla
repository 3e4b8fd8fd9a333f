------------------------------ MODULE Recorder ------------------------------
(***************************************************************************)
(* iqrecord: RTP streams from the network, one file per stream.            *)
(*                                                                         *)
(* A stream is what one sender emits under one SSRC; its packets carry the *)
(* frequency of the moment if they are of the I/Q type.  The network       *)
(* loses, duplicates and reorders.  The program keeps a list of sessions   *)
(* and hands the position of its file whatever rtp_process returns; it     *)
(* ends by itself, by a signal between any two steps, or dies.             *)
(*                                                                         *)
(* A file is a sequence of bytes, each known by the stream, the frequency  *)
(* and the place in the stream's time it comes from.                       *)
(***************************************************************************)
EXTENDS RtpState, Sequences, FiniteSets

SE == INSTANCE SequencesExt

CONSTANTS
  Streams,     \* [sender, ssrc, type, rate] records
  Freqs,       \* frequencies of the front ends; 0 is none
  PacketSize,  \* samples in a packet
  Base,        \* timestamp of every stream's first sample
  MaxNames,    \* the 100 names tried for a file
  Duration,    \* -d, in samples
  MaxSent,     \* bound: packets of each stream
  MaxNet,      \* bound: packets in flight
  MaxTroubles, \* bound: packets lost, repeated, overtaken; files not opened;
               \*   recorder killed
  MaxRuns      \* bound: runs of iqrecord

ASSUME RecorderAssumption ==
  /\ {PacketSize, MaxNames, Duration} \subseteq Nat \ {0}
  /\ {Base, MaxNet, MaxTroubles, MaxRuns} \subseteq Nat
  /\ MaxSent \in [Streams -> Nat]
  /\ Freqs # {}
  /\ \A s, t \in Streams :   \* a stream is known by its sender, SSRC and type
       s.sender = t.sender /\ s.ssrc = t.ssrc /\ s.type = t.type => s = t

VARIABLES
  clock,    \* samples each stream has got through
  sent,     \* packets each stream has sent
  tuned,    \* each stream's frequency: 0 unless it is I/Q
  net,      \* packets in flight to the program
  troubles, \* so far
  files,    \* in the order they were opened: name, attributes (once written),
            \*   data, data known to be on disk, and the history of the session
  pc,       \* input_loop: "down", "recv", "listed", "opened", "write"
  pkt,      \* the packet being recorded
  sessions, \* Sessions, the last created first
  total,    \* t, in samples
  runs,     \* runs of the program
  ended     \* how the last one ended: "none", "exit", "killed"

netVars == <<clock, sent, tuned, net>>
recVars == <<files, pc, pkt, sessions, total, runs, ended>>
recorderVars == <<netVars, recVars, troubles>>

Channels(type) == CASE type = "mono" -> 1 [] type \in {"stereo", "iq"} -> 2 [] OTHER -> 0
SampleSize(type) == 2 * Channels(type)

Hole == [hole |-> TRUE]

NoFile == 0
NoAttributes == [none |-> TRUE]
NoPacket == [none |-> TRUE]

RecorderInit ==
  /\ clock = [s \in Streams |-> 0] /\ sent = [s \in Streams |-> 0]
  /\ tuned = [s \in Streams |-> IF s.type = "iq" THEN CHOOSE f \in Freqs : TRUE ELSE 0]
  /\ net = {} /\ troubles = 0
  /\ files = <<>> /\ pc = "down" /\ pkt = NoPacket /\ sessions = <<>>
  /\ total = 0 /\ runs = 0 /\ ended = "none"

Trouble == troubles < MaxTroubles /\ troubles' = troubles + 1

-----------------------------------------------------------------------------
(* Streams and the network *)

\* Bound: nothing more happens when nothing will be recorded.
Matters == pc # "down" \/ runs < MaxRuns

\* What is sent while the program is down goes nowhere.
Send(s) ==
  /\ Matters /\ sent[s] < MaxSent[s] /\ Cardinality(net) < MaxNet
  /\ sent' = [sent EXCEPT ![s] = @ + 1]
  /\ clock' = [clock EXCEPT ![s] = @ + PacketSize]
  /\ net' = IF pc = "down" THEN net
            ELSE net \cup {[stream |-> s, freq |-> tuned[s], first |-> clock[s], idx |-> sent[s]]}
  /\ UNCHANGED <<tuned, troubles, recVars>>

\* Silence: the time goes on without packets.
Pause(s) ==
  /\ s.type # "iq" /\ Matters /\ sent[s] \in 1..MaxSent[s] - 1 /\ Trouble
  /\ clock' = [clock EXCEPT ![s] = @ + PacketSize]
  /\ UNCHANGED <<sent, tuned, net, recVars>>

\* The front end is tuned; its stream goes on.
Retune(s) ==
  /\ s.type = "iq" /\ Matters /\ sent[s] \in 1..MaxSent[s] - 1 /\ Trouble
  /\ \E f \in Freqs \ {tuned[s]} : tuned' = [tuned EXCEPT ![s] = f]
  /\ UNCHANGED <<clock, sent, net, recVars>>

Lose(p) ==
  /\ Matters /\ Trouble
  /\ net' = net \ {p}
  /\ UNCHANGED <<clock, sent, tuned, recVars>>

Header(p) == [ssrc |-> p.stream.ssrc, seq |-> p.idx % SeqMod,
              timestamp |-> (Base + p.first) % TimeMod]

ByteAt(p, at) == [stream |-> p.stream, freq |-> p.freq, at |-> at]

\* The samples of a packet, byte for byte.
Payload(p) ==
  LET size == SampleSize(p.stream.type) IN
  [b \in 1..PacketSize * size |-> ByteAt(p, p.first * size + b - 1)]

-----------------------------------------------------------------------------
(* main, input_loop *)

Start ==
  /\ pc = "down" /\ runs < MaxRuns
  /\ runs' = runs + 1
  /\ pc' = "recv" /\ ended' = "none"
  /\ UNCHANGED <<netVars, troubles, files, pkt, sessions, total>>

\* Mutant: one file for all frequencies.
MatchesAnyFreq(sp, p) ==
  sp.ssrc = p.stream.ssrc /\ sp.type = p.stream.type /\ sp.sender = p.stream.sender

Matches(sp, p) ==
  /\ sp.ssrc = p.stream.ssrc /\ sp.type = p.stream.type /\ sp.sender = p.stream.sender
  /\ p.stream.type = "iq" => sp.freq = p.freq

NewEntry(p) ==
  [ssrc |-> p.stream.ssrc, type |-> p.stream.type, sender |-> p.stream.sender,
   freq |-> p.freq, rtp |-> Unopened, file |-> NoFile, pos |-> 0]

\* A packet is received, perhaps not for the last time; its session is in the
\* list afterwards.
Receive(p) ==
  /\ pc = "recv" /\ total < Duration
  /\ \/ net' = net \ {p} /\ UNCHANGED troubles
     \/ net' = net /\ Trouble
  /\ pkt' = p
  /\ IF \E i \in DOMAIN sessions : Matches(sessions[i], p)
     THEN pc' = "write" /\ UNCHANGED sessions
     ELSE pc' = "listed" /\ sessions' = <<NewEntry(p)>> \o sessions
  /\ UNCHANGED <<clock, sent, tuned, files, total, runs, ended>>

\* The entry the search finds.
Mine == SE!SelectInSeq(sessions, LAMBDA sp : Matches(sp, pkt))

Name(p, suffix) ==
  [freq |-> p.freq, ssrc |-> p.stream.ssrc, suffix |-> suffix]

Names == {files[i].name : i \in DOMAIN files}
Free(p) == {n \in 0..MaxNames - 1 : Name(p, n) \notin Names}

SuffixZero(p) == 0

\* The first name that no file has.
FirstFree(p) == CHOOSE n \in Free(p) : \A m \in Free(p) : n <= m

EmptyFile(p, suffix) ==
  [name |-> Name(p, suffix), attrs |-> NoAttributes, data |-> <<>>, safe |-> <<>>,
   from |-> p, packets |-> 0, smooth |-> TRUE, run |-> runs]

\* fopen "w+" makes the file, or empties the one of that name.
FilesWith(f) ==
  IF f.name \in Names
  THEN [files EXCEPT ![SE!SelectInSeq(files, LAMBDA g : g.name = f.name)] = f]
  ELSE Append(files, f)

OpenFile ==
  /\ pc = "listed" /\ Free(pkt) # {}
  /\ files' = FilesWith(EmptyFile(pkt, FirstFree(pkt)))
  /\ sessions' = [sessions EXCEPT ![1].file =
                    SE!SelectInSeq(files', LAMBDA g : g.name = Name(pkt, FirstFree(pkt)))]
  /\ pc' = "opened"
  /\ UNCHANGED <<netVars, troubles, pkt, total, runs, ended>>

\* fopen fails: the packet is given up, and the session stays without a file.
OpenFileFails ==
  /\ pc = "listed" /\ Free(pkt) # {} /\ Trouble
  /\ pc' = "recv"
  /\ UNCHANGED <<netVars, files, pkt, sessions, total, runs, ended>>

\* attrprintf, what playback reads of it.
Attributes(p) ==
  [samprate |-> IF p.stream.type = "iq" THEN p.stream.rate ELSE 48000,
   format |-> IF p.stream.type = "iq" THEN "s16le" ELSE "s16be",
   freq |-> p.freq]

WriteAttributes ==
  /\ pc = "opened"
  /\ files' = [files EXCEPT ![Head(sessions).file].attrs = Attributes(pkt)]
  /\ pc' = "write"
  /\ UNCHANGED <<netVars, troubles, pkt, sessions, total, runs, ended>>

\* fwrite at a position, past the end if need be.
Written(data, pos, bytes) ==
  [b \in 1..(IF pos + Len(bytes) > Len(data) THEN pos + Len(bytes) ELSE Len(data)) |->
     IF b \in pos + 1..pos + Len(bytes) THEN bytes[b - pos]
     ELSE IF b <= Len(data) THEN data[b] ELSE Hole]

\* What rtp_process returns, and the seek it is used for: samples, as bytes.
Offset(sp, p) ==
  IF OldSequence(sp.rtp, Header(p)) THEN -1 ELSE TimeStep(sp.rtp, Header(p))
Sought(sp, p) == IF sp.pos + Offset(sp, p) < 0 THEN sp.pos ELSE sp.pos + Offset(sp, p)

\* A packet that follows the last one recorded (history).
Follows(f, p) == p.first = f.from.first + f.packets * PacketSize

\* Mutant: the end of a block is not remembered.
Unmoved(sp, p) == [sp EXCEPT !.rtp = TimedAtStart(sp.rtp, Header(p), PacketSize),
                             !.pos = Sought(sp, p) + Len(Payload(p))]

Moved(sp, p) == [sp EXCEPT !.rtp = Processed(sp.rtp, Header(p), PacketSize),
                           !.pos = Sought(sp, p) + Len(Payload(p))]

\* A seek writes the buffer to disk first.
Extended(f, sp, p) ==
  [f EXCEPT !.data = Written(f.data, Sought(sp, p), Payload(p)),
            !.safe = IF Offset(sp, p) # 0 THEN f.data ELSE @,
            !.packets = @ + 1, !.smooth = @ /\ Follows(f, p)]

Record ==
  LET sp == sessions[Mine] IN
  /\ pc = "write" /\ Channels(pkt.stream.type) # 0 /\ sp.file # NoFile
  /\ files' = [files EXCEPT ![sp.file] = Extended(@, sp, pkt)]
  /\ sessions' = [sessions EXCEPT ![Mine] = Moved(sp, pkt)]
  /\ total' = total + PacketSize
  /\ pc' = "recv"
  /\ UNCHANGED <<netVars, troubles, pkt, runs, ended>>

-----------------------------------------------------------------------------
(* closedown, cleanup *)

Down(how) ==
  /\ pc' = "down" /\ ended' = how
  /\ pkt' = NoPacket /\ sessions' = <<>> /\ total' = 0 /\ net' = {}
  /\ UNCHANGED <<clock, sent, tuned, runs>>

\* cleanup: fflush(fp) for every session; fflush(NULL), which a session without
\* a file comes to, flushes them all, so it does no harm that fclose(NULL)
\* kills the program before it gets to the rest.
Flushed(f) == f.data

Clean ==
  files' = [i \in DOMAIN files |->
              IF files[i].run = runs THEN [files[i] EXCEPT !.safe = Flushed(files[i])]
              ELSE files[i]]

\* closedown: exit from a signal handler.
Signal == pc # "down" /\ Clean /\ Down("exit") /\ UNCHANGED troubles

DurationOver == pc = "recv" /\ total >= Duration /\ Clean /\ Down("exit") /\ UNCHANGED troubles

NoName == pc = "listed" /\ Free(pkt) = {} /\ Clean /\ Down("exit") /\ UNCHANGED troubles

\* What the buffers hold is lost, unless one was just full and written.
LeftBy(written) ==
  files' = [i \in DOMAIN files |->
              IF i \in written THEN [files[i] EXCEPT !.safe = files[i].data] ELSE files[i]]

Unwritten == {i \in DOMAIN files : files[i].run = runs /\ files[i].safe # files[i].data}

Killed ==
  /\ pc # "down" /\ Trouble /\ Down("killed")
  /\ \E written \in SUBSET Unwritten : LeftBy(written)

\* A type without channels: a division by zero.  No file: a null pointer.
Dies ==
  /\ pc = "write"
  /\ Channels(pkt.stream.type) = 0 \/ sessions[Mine].file = NoFile
  /\ Down("killed") /\ UNCHANGED troubles
  /\ \E written \in SUBSET Unwritten : LeftBy(written)

RecorderNext ==
  \/ \E s \in Streams : Send(s) \/ Pause(s) \/ Retune(s)
  \/ \E p \in net : Lose(p) \/ Receive(p)
  \/ Start \/ OpenFile \/ OpenFileFails \/ WriteAttributes \/ Record
  \/ Signal \/ DurationOver \/ NoName \/ Killed \/ Dies
-----------------------------------------------------------------------------
(* What a recording promises *)

\* A file holds samples of one sender, one SSRC and type, and if they are I/Q
\* of one frequency, whoever else sends to the group under the same SSRC
\* and however often the front end is tuned away and back (the list of
\* sessions, and the name that no other file has).
OwnSamples ==
  \A i \in DOMAIN files : \A b \in DOMAIN files[i].data :
    files[i].data[b] # Hole =>
      /\ files[i].data[b].stream = files[i].from.stream
      /\ files[i].data[b].freq = files[i].attrs.freq

\* The file of a session that the network did not disturb is the stream, byte
\* for byte: as much of it as was received, if the recorder has not died
\* (the seek by what rtp_process returns is by nothing).
WholeIfUndisturbed ==
  \A i \in DOMAIN files : LET f == files[i]  size == SampleSize(f.from.stream.type) IN
    f.smooth =>
      /\ Len(f.data) = f.packets * PacketSize * size
      /\ \A b \in DOMAIN f.data : f.data[b] = ByteAt(f.from, f.from.first * size + b - 1)
      /\ SE!IsPrefix(f.safe, f.data)

\* No recording is ever emptied or shortened, and one of an earlier run is not
\* touched (the search for a name that is free).
EarlierRecordingsStay ==
  \A i \in DOMAIN files :
    /\ Len(files'[i].data) >= Len(files[i].data)
    /\ files[i].run # runs => files'[i] = files[i]

\* Whenever a signal ends the recorder, with whatever session half made, all
\* that was recorded is on disk (closedown, cleanup).
EndKeepsAll ==
  pc # "down" /\ pc' = "down" /\ ended' = "exit"
    => \A i \in DOMAIN files : files[i].run = runs => files'[i].safe = files[i].data

\* Both: nothing that was recorded is lost by a later recording, by the next run
\* of the recorder or by its orderly end (iqrecord.c:232-243, 309-323).
RecordingsStay == [][EarlierRecordingsStay /\ EndKeepsAll]_recorderVars
=============================================================================
