------------------------------ MODULE RtpInput ------------------------------
(***************************************************************************)
(* The I/Q stream from a front end to the `radio' program: the sender's    *)
(* RTP sequence number and timestamp (main in funcube.c), a network that   *)
(* loses, duplicates and reorders, the header check that every receiver    *)
(* of the package shares (rtp_process, in RtpState), and what radio does   *)
(* with its verdict (proc_samples in radio.c): fill a gap with zeroes, run *)
(* the local oscillators over it, and cut the samples into filter blocks.  *)
(*                                                                         *)
(* A packet is known by the run of the front end that sent it and its      *)
(* index in that run, which the receiver cannot see; it sees the SSRC, the *)
(* sequence number modulo SeqMod and the timestamp modulo TimeMod.         *)
(***************************************************************************)
EXTENDS RtpState

CONSTANTS
  PacketSize,  \* samples in a packet (Blocksize)
  BlockSize,   \* samples in a filter block (filter.in->ilen)
  MaxStep,     \* 192000: the longest gap radio fills
  Window,      \* packets by which the network may delay a packet
  MaxGap,      \* packets in a row that the network may lose
  Joined,      \* packets the front end had sent when radio started
  MaxSent,     \* bound: packets sent in one run of the front end
  MaxRun,      \* bound: runs of the front end after the first
  MaxCopies    \* bound: extra copies of packets that the network makes

ASSUME RtpAssumption ==
  /\ {PacketSize, BlockSize, Window} \subseteq Nat \ {0}
  /\ {MaxStep, MaxGap, Joined, MaxSent, MaxRun, MaxCopies} \subseteq Nat
  /\ 2 * (MaxGap + Window) <= SeqMod
  /\ PacketSize * SeqMod <= TimeMod

VARIABLES
  run,      \* the front end's current run
  ssrc,     \* its SSRC in each run
  sent,     \* packets sent so far in the current run
  net,      \* packets in flight
  lost,     \* packets the network has just lost, in a row
  copies,   \* extra copies the network has made
  rtp,      \* radio's struct rtp_state, demod->input.rtp
  samples,  \* demod->input.samples
  inCnt,    \* proc_samples' in_cnt
  recent,   \* what proc_samples put into filter.in->input, by how many samples
            \*   ago: the buffer's inCnt first, then the blocks that were run
  first,    \* history: the packet that started the session
  last,     \* history: the packet the receiver last moved its sequence past
  skipped,  \* history: samples of this session that were given up
  clean     \* history: this session has packets of one run only

sendVars == <<run, ssrc, sent>>
netVars  == <<net, lost, copies>>
rcvVars  == <<rtp, samples, inCnt, recent, first, last, skipped, clean>>
vars     == <<sendVars, netVars, rcvVars>>

Ssrc   == 0..MaxRun
Packet == [run: 0..MaxRun, idx: 0..Joined + MaxSent]

\* Packets of run r sent before radio can hear them.
Missed(r) == IF r = 0 THEN Joined ELSE 0

Seq(p)  == p.idx % SeqMod
Time(p) == (p.idx * PacketSize) % TimeMod

\* What the receiver sees of a packet.
Header(p) == [ssrc |-> ssrc[p.run], seq |-> Seq(p), timestamp |-> Time(p)]

\* A sample in the filter's input: a zero, or the front end's, known by its
\* place in the stream less the samples that had been given up.
Slot   == [real: BOOLEAN, at: Int]
Zero   == [real |-> FALSE, at |-> 0]
Ago(n) == 0..n - 1

RecentOK == recent \in [DOMAIN recent -> Slot] /\ Ago(inCnt) \subseteq DOMAIN recent

TypeOK ==
  /\ run \in 0..MaxRun
  /\ ssrc \in [0..MaxRun -> Ssrc]
  /\ sent \in 0..Joined + MaxSent
  /\ net \subseteq Packet
  /\ lost \in 0..MaxGap
  /\ copies \in 0..MaxCopies
  /\ rtp \in RtpStates(Ssrc)
  /\ samples \in Nat /\ inCnt \in 0..BlockSize - 1 /\ skipped \in Nat
  /\ RecentOK
  /\ first \in Packet /\ last \in Packet
  /\ clean \in BOOLEAN

NoPacket == [run |-> 0, idx |-> 0]

Init ==
  /\ run = 0
  /\ ssrc = [r \in 0..MaxRun |-> 0]
  /\ sent = Joined
  /\ net = {}
  /\ lost = 0 /\ copies = 0
  /\ rtp = Unopened
  /\ samples = 0 /\ inCnt = 0 /\ skipped = 0
  /\ recent = [j \in Ago(0) |-> Zero]
  /\ first = NoPacket /\ last = NoPacket
  /\ clean = TRUE

-----------------------------------------------------------------------------
(* The front end *)

\* Takes the next sequence number and timestamp and sends.  Both advance
\* whether or not send() succeeds, and the network may lose the packet.
SendPacket ==
  /\ sent < Missed(run) + MaxSent
  /\ \A p \in net : p.run = run => sent - p.idx < Window
  /\ \/ net' = net \cup {[run |-> run, idx |-> sent]} /\ lost' = 0
     \/ lost < MaxGap /\ lost' = lost + 1 /\ UNCHANGED net
  /\ sent' = sent + 1
  /\ UNCHANGED <<run, ssrc, copies, rcvVars>>

\* The front end restarts from sequence number and timestamp 0, under a new
\* SSRC (the time of day), or under the same one when it was given with -S.
Restart ==
  /\ run < MaxRun
  /\ run' = run + 1
  /\ \E s \in {ssrc[run], run + 1} : ssrc' = [ssrc EXCEPT ![run + 1] = s]
  /\ sent' = 0
  /\ UNCHANGED <<netVars, rcvVars>>

-----------------------------------------------------------------------------
(* proc_samples: the verdict of rtp_process, and what radio makes of it *)

Fresh(p) == NewSession(rtp, Header(p))
Gap(p)   == TimeStep(rtp, Header(p))

\* The session's history, for a packet that moves the sequence number.
Advance(p) ==
  /\ last' = p
  /\ first' = IF Fresh(p) THEN p ELSE first
  /\ clean' = (Fresh(p) \/ (clean /\ p.run = last.run))

\* proc_samples starts its count again when the SSRC changes.
Counted(p) == IF Fresh(p) THEN 0 ELSE samples
GivenUp(p) == IF Fresh(p) THEN 0 ELSE skipped

\* An old sequence number.
RejectSequence(p) ==
  /\ OldSequence(rtp, Header(p))
  /\ rtp' = Processed(rtp, Header(p), PacketSize)
  /\ UNCHANGED <<samples, inCnt, recent, first, last, skipped, clean>>

\* A new sequence number with an old timestamp.
RejectTime(p) ==
  /\ OldTime(rtp, Header(p))
  /\ rtp' = Processed(rtp, Header(p), PacketSize)
  /\ samples' = Counted(p)
  /\ skipped' = GivenUp(p)
  /\ Advance(p)
  /\ UNCHANGED <<inCnt, recent>>

\* A gap too long to fill: radio drops the packet, but rtp_process has already
\* accepted it.
RejectJump(p) ==
  /\ Good(rtp, Header(p))
  /\ Gap(p) > MaxStep
  /\ rtp' = Processed(rtp, Header(p), PacketSize)
  /\ samples' = Counted(p)
  /\ skipped' = GivenUp(p) + Gap(p) + PacketSize
  /\ Advance(p)
  /\ UNCHANGED <<inCnt, recent>>

\* The packet's sample that is put into the filter j samples before its last;
\* proc_samples' loop puts them in after the g zeroes of a gap.
Sample(p, j) ==
  [real |-> TRUE, at |-> p.idx * PacketSize + (PacketSize - 1 - j) - GivenUp(p)]

\* What was in the buffer before; samples of an earlier session stand for
\* nothing in this one.
Older(p, j) == IF Fresh(p) THEN Zero ELSE recent[j]

\* The filter is run each time the buffer is full; the rest stays in it.
Pour(p, g) ==
  /\ inCnt' = (inCnt + g + PacketSize) % BlockSize
  /\ recent' = [j \in Ago(inCnt + g + PacketSize) |->
                  IF j < PacketSize THEN Sample(p, j)
                  ELSE IF j < g + PacketSize THEN Zero
                  ELSE Older(p, j - (g + PacketSize))]

\* Mutant: the caller does not test whether rtp_process returned less than 0.
AcceptUntested(p) ==
  /\ Gap(p) <= MaxStep
  /\ rtp' = Processed(rtp, Header(p), PacketSize)
  /\ LET g == IF Gap(p) > 0 THEN Gap(p) ELSE 0
     IN  samples' = Counted(p) + g + PacketSize /\ Pour(p, g)
  /\ skipped' = GivenUp(p)
  /\ Advance(p)

\* Mutant: the gap is counted, but no zeroes are put into the filter.
AcceptUnfilled(p) ==
  /\ Good(rtp, Header(p))
  /\ Gap(p) \in 0..MaxStep
  /\ rtp' = Processed(rtp, Header(p), PacketSize)
  /\ samples' = Counted(p) + Gap(p) + PacketSize
  /\ Pour(p, 0)
  /\ skipped' = GivenUp(p)
  /\ Advance(p)

\* The gap is counted and filled with zeroes, and the packet's samples follow.
Accept(p) ==
  /\ Good(rtp, Header(p))
  /\ Gap(p) \in 0..MaxStep
  /\ rtp' = Processed(rtp, Header(p), PacketSize)
  /\ samples' = Counted(p) + Gap(p) + PacketSize
  /\ Pour(p, Gap(p))
  /\ skipped' = GivenUp(p)
  /\ Advance(p)

\* The network delivers a packet, in any order, and may keep a copy.
Receive(p) ==
  /\ RejectSequence(p) \/ RejectTime(p) \/ RejectJump(p) \/ Accept(p)
  /\ \/ net' = net \ {p} /\ UNCHANGED copies
     \/ copies < MaxCopies /\ copies' = copies + 1 /\ UNCHANGED net
  /\ UNCHANGED <<sendVars, lost>>

Next ==
  \/ SendPacket
  \/ Restart
  \/ \E p \in net : Receive(p)

Spec == Init /\ [][Next]_vars
-----------------------------------------------------------------------------
(* Properties *)

\* Samples of the front end's stream from the first packet of the session to
\* the end of the last one.
StreamTime == (last.idx - first.idx + 1) * PacketSize

\* radio's sample count is the stream's own time, less what it chose to give
\* up, whatever was lost, repeated or reordered on the way ("Inject enough
\* zeroes to keep the sample count ... correct", radio.c:113); and every sequence
\* number is counted once, as a packet that got through or as a drop.
SampleClock ==
  rtp.init /\ clean =>
    /\ samples + skipped = StreamTime
    /\ (rtp.packets - rtp.dupes) + rtp.drops = last.idx - first.idx + 1

\* Each place of the filter's input, in the buffer and in the blocks just run,
\* holds the very sample of the stream that radio's count stands for there, or
\* a zero: whatever was lost, copied, late or from an earlier run, and however
\* gap and packet were cut into blocks ("... and LO phase correct",
\* radio.c:113-127, 185-197).
FilterInPlace ==
  rtp.init /\ clean =>
    \A j \in DOMAIN recent : recent[j].real =>
      recent[j].at = first.idx * PacketSize + samples - 1 - j

\* The samples of a packet are never used twice, nor after those of a later
\* packet of the same run (multicast.c:353-358).
NoRepeat ==
  [][ rtp.init /\ first' = first /\ clean' /\ samples' # samples
        => last'.idx > last.idx ]_vars

=============================================================================
