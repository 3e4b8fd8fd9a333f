------------------------------ MODULE RtpState ------------------------------
(***************************************************************************)
(* rtp_process in multicast.c: what every receiver of the package does     *)
(* with an RTP header.  A state is a struct rtp_state, a header the fields *)
(* of one that matter here: ssrc, seq, timestamp.  The call rejects an old *)
(* sequence number or an old timestamp, and otherwise returns the samples  *)
(* missing before the packet.                                              *)
(***************************************************************************)
EXTENDS Integers

CONSTANTS
  SeqMod,   \* 2^16: width of the sequence number
  TimeMod   \* 2^32: width of the timestamp

ASSUME RtpStateAssumption == {SeqMod, TimeMod} \subseteq Nat \ {0}

\* The value of x as a signed integer of modulus m: a cast to short or to int.
Signed(x, m) == IF x % m < m - (x % m) THEN x % m ELSE (x % m) - m

NoSsrc == -1

\* A state that is all zeroes: no session yet.
Unopened == [ssrc |-> NoSsrc, init |-> FALSE, seq |-> 0, timestamp |-> 0,
             packets |-> 0, drops |-> 0, dupes |-> 0]

RtpStates(ssrcs) ==
  [ssrc: ssrcs \cup {NoSsrc}, init: BOOLEAN, seq: 0..SeqMod - 1,
   timestamp: 0..TimeMod - 1, packets: Nat, drops: Nat, dupes: Nat]

NewSession(state, h) == ~state.init \/ state.ssrc # h.ssrc

\* The state after the SSRC and init checks, with the packet counted.
Opened(state, h) ==
  IF NewSession(state, h)
  THEN [ssrc |-> h.ssrc, init |-> TRUE, seq |-> h.seq, timestamp |-> h.timestamp,
        packets |-> 1, drops |-> 0, dupes |-> 0]
  ELSE [state EXCEPT !.packets = @ + 1]

SeqStep(state, h)  == Signed(h.seq - Opened(state, h).seq, SeqMod)
TimeStep(state, h) == Signed(h.timestamp - Opened(state, h).timestamp, TimeMod)

\* An old sequence number: a duplicate, or a packet overtaken in the network.
OldSequence(state, h) == SeqStep(state, h) < 0
Duplicate(state, h)   == [Opened(state, h) EXCEPT !.dupes = @ + 1]

\* The sequence number is good.
Passed(state, h) ==
  [Opened(state, h) EXCEPT !.seq = (h.seq + 1) % SeqMod, !.drops = @ + SeqStep(state, h)]

\* A new sequence number with an old timestamp.
OldTime(state, h) == ~OldSequence(state, h) /\ TimeStep(state, h) < 0

Good(state, h) == ~OldSequence(state, h) /\ TimeStep(state, h) >= 0

\* Mutant: the packet's own samples are not added to the expected timestamp.
TimedAtStart(state, h, sampcnt) == [Passed(state, h) EXCEPT !.timestamp = h.timestamp]

\* Both are good: the timestamp of the packet that should follow is known.
Timed(state, h, sampcnt) ==
  [Passed(state, h) EXCEPT !.timestamp = (h.timestamp + sampcnt) % TimeMod]

\* The state the call leaves, whatever its verdict.
Processed(state, h, sampcnt) ==
  IF OldSequence(state, h) THEN Duplicate(state, h)
  ELSE IF OldTime(state, h) THEN Passed(state, h)
  ELSE Timed(state, h, sampcnt)
=============================================================================
