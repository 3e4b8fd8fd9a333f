--------------------------- MODULE MonitorPlayout ---------------------------
(***************************************************************************)
(* How `monitor' plays a stream: a receive thread queues packets sorted by *)
(* sequence number (sockproc), the session's decoder thread places their   *)
(* samples in a ring by their timestamps (decode_task), and the audio      *)
(* system's callback plays and clears the ring (pa_callback).  Only the    *)
(* queue has a mutex.  The callback moves Rptr, the decoder reads it       *)
(* several times while it places a packet, and both touch the ring.        *)
(*                                                                         *)
(* One session with one channel; the volume and the delay between the two  *)
(* channels are left out.  A sample is known by the place it's meant for.  *)
(* Pointers count without bound, as the code's 64-bit ones do.             *)
(***************************************************************************)
EXTENDS Integers, Sequences

SE == INSTANCE SequencesExt

CONSTANTS
  SeqMod,       \* 2^16: width of the sequence number
  TimeMod,      \* 2^32: width of the timestamp
  RingSize,     \* BUFFERSIZE
  Playout,      \* playout delay
  Frames,       \* samples the audio system asks for at a time
  PacketSize,   \* samples in a packet
  FirstSeq,     \* sequence number of the first packet
  FirstStamp,   \* timestamp of the first packet
  Window,       \* packets by which the network may delay a packet
  Silences,     \* samples the sender may leave out as silence before a packet
  MaxSilence,   \* bound: the longest of them
  MaxPackets,   \* bound: packets sent
  MaxCallbacks, \* bound: calls of pa_callback
  MaxResets     \* bound: resets by the operator or after suspension

\* The greatest place in the stream, and the furthest the read pointer comes.
MaxPlace == MaxPackets * (PacketSize + MaxSilence)
MaxRptr  == MaxCallbacks * Frames

\* The stream and its reception are shorter than one turn of the timestamp, a day.
ASSUME PlayoutAssumption ==
  /\ {SeqMod, TimeMod, RingSize, Frames, PacketSize, Window} \subseteq Nat \ {0}
  /\ {Playout, FirstSeq, FirstStamp, MaxSilence, MaxPackets, MaxCallbacks, MaxResets}
       \subseteq Nat
  /\ Frames < RingSize \div 2
  /\ Silences \subseteq 0..MaxSilence
  /\ MaxPlace + MaxRptr + RingSize + Playout < TimeMod

VARIABLES
  sent,       \* packets sent
  clock,      \* samples of the stream up to now
  net,        \* packets in flight
  queue,      \* sp->queue
  stage,      \* where decode_task is: "wait", "test", "resync", "write"
  pkt,        \* its packet
  done,       \* samples of the packet already written
  wptr,       \* sp->wptr
  start,      \* sp->start_rptr, start_timestamp, timestamp_upper, playout
  reset,      \* sp->reset
  resets,     \* resets so far
  Rptr,       \* the read pointer
  unplayed,   \* samples Rptr has been moved past and not yet played
  frames,     \* samples still wanted by the current callback
  callbacks,  \* callbacks so far
  Output_buffer, \* where the samples added up in each slot were meant to be
  offset,     \* history: wptr less the place in the stream, at the last packet
  newest,     \* history: the last packet of those decoded, in stream order
  split,      \* history: Rptr moved while the decoder was starting anew
  overtaken,  \* history: a sample was written behind Rptr
  overfull,   \* history: a sample was written a whole ring ahead
  asDue       \* history: all samples were played at the place they were meant for

sendVars == <<sent, clock>>
taskVars == <<stage, pkt, done, wptr, start, offset, newest, split>>
playVars == <<Rptr, unplayed, frames, callbacks>>
ringVars == <<Output_buffer, overtaken, overfull, asDue>>
playoutVars == <<sendVars, net, queue, taskVars, reset, resets, playVars, ringVars>>

OutputSlot == 0..RingSize - 1

Packet == [idx: 0..MaxPackets - 1, at: 0..MaxPlace, marker: BOOLEAN]
NoPacket == [idx |-> -1, at |-> 0, marker |-> FALSE]

SeqOf(p) == (FirstSeq + p.idx) % SeqMod
StampOf(p) == (FirstStamp + p.at) % TimeMod

NoOffset == -10000

PlayoutTypes ==
  /\ sent \in 0..MaxPackets /\ clock \in 0..MaxPlace
  /\ net \subseteq Packet
  /\ queue \in Seq(Packet)
  /\ stage \in {"wait", "test", "resync", "write"}
  /\ pkt \in Packet \cup {NoPacket} /\ newest \in Packet \cup {NoPacket}
  /\ done \in 0..PacketSize - 1
  /\ wptr \in Int /\ offset \in Int
  /\ start \in [rptr: Nat, timestamp: 0..TimeMod - 1, upper: Nat, playout: {0, Playout}]
  /\ resets \in 0..MaxResets
  /\ Rptr \in Nat /\ unplayed \in 0..Frames /\ frames \in 0..Frames
  /\ callbacks \in 0..MaxCallbacks
  /\ Output_buffer \in [OutputSlot -> SUBSET Nat]
  /\ {reset, split, overtaken, overfull, asDue} \subseteq BOOLEAN

\* create_session and sockproc: the session is to be reset, at whatever Rptr is.
PlayoutInit ==
  /\ sent = 0 /\ clock = 0 /\ net = {}
  /\ queue = <<>>
  /\ stage = "wait" /\ pkt = NoPacket /\ done = 0 /\ wptr = 0
  /\ start = [rptr |-> 0, timestamp |-> 0, upper |-> 0, playout |-> 0]
  /\ reset = TRUE /\ resets = 0
  /\ Rptr = 0 /\ unplayed = 0 /\ frames = 0 /\ callbacks = 0
  /\ Output_buffer = [s \in OutputSlot |-> {}]
  /\ offset = NoOffset /\ newest = NoPacket
  /\ split = FALSE /\ overtaken = FALSE /\ overfull = FALSE /\ asDue = TRUE

-----------------------------------------------------------------------------
(* The sender and the network *)

\* The marker is set after silence; it may be lost with its packet.
SendAudio ==
  /\ sent < MaxPackets
  /\ \A p \in net : sent - p.idx < Window
  /\ \E quiet \in Silences :
       LET p == [idx |-> sent, at |-> clock + quiet, marker |-> quiet > 0]
       IN  /\ \/ net' = net \cup {p}
              \/ UNCHANGED net
           /\ clock' = p.at + PacketSize
  /\ sent' = sent + 1
  /\ UNCHANGED <<queue, taskVars, reset, resets, playVars, ringVars>>

-----------------------------------------------------------------------------
(* sockproc *)

\* Inserts the packet behind those with the same or a smaller sequence number,
\* compared as plain integers, up to the first greater one.
Enqueue(p) ==
  /\ p \in net
  /\ net' = net \ {p}
  /\ \E i \in 1..Len(queue) + 1 :
       /\ \A j \in 1..i - 1 : SeqOf(queue[j]) <= SeqOf(p)
       /\ i <= Len(queue) => SeqOf(queue[i]) > SeqOf(p)
       /\ queue' = SE!InsertAt(queue, i, p)
  /\ UNCHANGED <<sendVars, taskVars, reset, resets, playVars, ringVars>>

-----------------------------------------------------------------------------
(* decode_task *)

\* Timestamp less the starting one, with the upper bits.
Elapsed(p, upper) == upper + StampOf(p) - start.timestamp

\* "Handle wraparound in timestamp": one turn of the loop is enough.
Upper(p) == IF Elapsed(p, start.upper) < 0 THEN start.upper + TimeMod ELSE start.upper

\* Takes the head of the queue and works out its place.
Take ==
  /\ stage = "wait"
  /\ queue # <<>>
  /\ queue' = Tail(queue)
  /\ pkt' = Head(queue)
  /\ start' = [start EXCEPT !.upper = Upper(pkt')]
  /\ wptr' = start.rptr + Elapsed(pkt', start'.upper) + start.playout
  /\ stage' = "test"
  /\ UNCHANGED <<sendVars, net, done, offset, newest, split, reset, resets, playVars,
                 ringVars>>

InRing == wptr <= Rptr + RingSize /\ wptr >= Rptr

\* The packet's place is known: from here on it is written.
Place(w) ==
  /\ wptr' = w
  /\ stage' = "write"
  /\ done' = 0
  /\ offset' = w - pkt.at
  /\ newest' = IF pkt.idx > newest.idx THEN pkt ELSE newest

\* Mutant: only packets that are late are placed anew.
KeepAhead ==
  /\ stage = "test"
  /\ ~pkt.marker /\ ~reset /\ wptr >= Rptr
  /\ Place(wptr)
  /\ UNCHANGED <<sendVars, net, queue, pkt, start, split, reset, resets, playVars,
                 ringVars>>

Keep ==
  /\ stage = "test"
  /\ ~pkt.marker /\ ~reset /\ InRing
  /\ Place(wptr)
  /\ UNCHANGED <<sendVars, net, queue, pkt, start, split, reset, resets, playVars,
                 ringVars>>

\* "Resynch as if new stream": Rptr is read here ...
Resync ==
  /\ stage = "test"
  /\ pkt.marker \/ reset \/ ~InRing
  /\ reset' = FALSE
  /\ start' = [rptr |-> Rptr, timestamp |-> StampOf(pkt), upper |-> 0, playout |-> Playout]
  /\ stage' = "resync"
  /\ UNCHANGED <<sendVars, net, queue, pkt, done, wptr, offset, newest, split, resets,
                 playVars, ringVars>>

\* ... and once more here.
PlaceAnew ==
  /\ stage = "resync"
  /\ Place(Rptr + start.playout)
  /\ split' = (split \/ Rptr # start.rptr)
  /\ UNCHANGED <<sendVars, net, queue, pkt, start, reset, resets, playVars, ringVars>>

\* Adds one sample to the ring, whatever Rptr is by now.
WriteSample ==
  /\ stage = "write"
  /\ LET due == wptr + done
     IN  /\ Output_buffer' = [Output_buffer EXCEPT ![due % RingSize] = @ \cup {due}]
         /\ overtaken' = (overtaken \/ due < Rptr)
         /\ overfull' = (overfull \/ due >= Rptr - unplayed + RingSize)
  /\ IF done + 1 < PacketSize
     THEN done' = done + 1 /\ UNCHANGED <<stage, pkt>>
     ELSE done' = 0 /\ stage' = "wait" /\ pkt' = NoPacket
  /\ UNCHANGED <<sendVars, net, queue, wptr, start, offset, newest, split, reset, resets,
                 playVars, asDue>>

-----------------------------------------------------------------------------
(* The operator's `r' and `u' keys, and pa_callback after a suspension *)

Reset ==
  /\ resets < MaxResets
  /\ resets' = resets + 1
  /\ reset' = TRUE
  /\ UNCHANGED <<sendVars, net, queue, taskVars, playVars, ringVars>>

-----------------------------------------------------------------------------
(* pa_callback *)

\* Rptr moves first, then the samples are copied: chunk by chunk, as far as the
\* end of the ring.
MoveBy(wanted) ==
  LET toEnd == RingSize - (Rptr % RingSize)
      chunk == IF wanted < toEnd THEN wanted ELSE toEnd
  IN  /\ Rptr' = Rptr + chunk
      /\ unplayed' = chunk
      /\ frames' = wanted - chunk

FirstChunk ==
  /\ frames = 0 /\ unplayed = 0
  /\ callbacks < MaxCallbacks
  /\ callbacks' = callbacks + 1
  /\ MoveBy(Frames)
  /\ UNCHANGED <<sendVars, net, queue, taskVars, reset, resets, ringVars>>

SecondChunk ==
  /\ frames > 0 /\ unplayed = 0
  /\ MoveBy(frames)
  /\ UNCHANGED <<sendVars, net, queue, taskVars, reset, resets, callbacks, ringVars>>

\* Mutant: what has been played stays in the ring.
PlayUncleared ==
  /\ unplayed > 0
  /\ asDue' = (asDue /\ \A r \in Rptr - unplayed..Rptr - 1 :
                         Output_buffer[r % RingSize] \subseteq {r})
  /\ unplayed' = 0
  /\ UNCHANGED <<sendVars, net, queue, taskVars, reset, resets, Rptr, frames, callbacks,
                 Output_buffer, overtaken, overfull>>

\* Copies the chunk out and clears it.
Play ==
  /\ unplayed > 0
  /\ asDue' = (asDue /\ \A r \in Rptr - unplayed..Rptr - 1 :
                         Output_buffer[r % RingSize] \subseteq {r})
  /\ Output_buffer' = [s \in OutputSlot |-> IF \E r \in Rptr - unplayed..Rptr - 1 : s = r % RingSize
                             THEN {} ELSE Output_buffer[s]]
  /\ unplayed' = 0
  /\ UNCHANGED <<sendVars, net, queue, taskVars, reset, resets, Rptr, frames, callbacks,
                 overtaken, overfull>>

-----------------------------------------------------------------------------
Decode == Take \/ Keep \/ Resync \/ PlaceAnew \/ WriteSample

PaCallback == FirstChunk \/ SecondChunk \/ Play

PlayoutNext ==
  \/ SendAudio
  \/ \E p \in net : Enqueue(p)
  \/ Decode
  \/ Reset
  \/ PaCallback

PlayoutSpec == PlayoutInit /\ [][PlayoutNext]_playoutVars
-----------------------------------------------------------------------------
(* Properties *)

\* Every sample is played when the read pointer comes to its place: not a ring
\* too early or too late, nor twice, unless the decoder was so slow that Rptr
\* passed the place it had worked out, or the packet reached a whole ring ahead
\* (monitor.c:502 tests only where it begins).
PlayedWhenDue == ~overtaken /\ ~overfull => asDue

\* A packet that is not placed anew has the same distance from its place in the
\* stream as the packet before it, across lost and overtaken packets and the
\* wrap of the timestamp, unless the callback came in the middle of the last
\* new placement.
SteadyClock ==
  [][ stage = "test" /\ stage' = "write" /\ ~split => offset' = offset ]_playoutVars

=============================================================================
