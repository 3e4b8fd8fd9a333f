-------------------------- MODULE ReceiverSessions --------------------------
(***************************************************************************)
(* The sessions of the other receivers of PCM, beside those of             *)
(* MonitorSessions: opus keeps them on a doubly linked list on which a     *)
(* session that is looked up moves to the front without the old front      *)
(* being told; pcmcat, with the same list, takes one stream only.          *)
(*                                                                         *)
(* A signal is handled between two packets.  (In opus it may come to       *)
(* another thread, and the input thread use what has been freed while the  *)
(* program ends.)  What opus makes of a packet is in PcmStream.            *)
(***************************************************************************)
EXTENDS MonitorSessions, RtpState

CONSTANTS
  Asked,      \* what pcmcat may be asked for: an SSRC, or 0
  MaxDelay,   \* packets by which the network may delay a packet
  MaxLost,    \* packets in a row that the network may lose
  MaxArrivals \* bound: packets received by opus or pcmcat

Nodes == [stream: Streams, prev: Pointer, next: Pointer]

ASSUME ReceiverAssumption ==
  /\ NULL \notin Nodes
  /\ Asked \subseteq Nat
  /\ {MaxDelay, MaxLost, MaxArrivals} \subseteq Nat
  /\ 2 * (MaxArrivals * (MaxLost + 1) + MaxDelay) < SeqMod /\ SeqMod <= TimeMod

VARIABLES
  program,   \* what runs: "monitor", "opus", "pcmcat"
  Audio,     \* head of the list (Pcmstream)
  node,      \* node[i]: the session at i, NULL where there is none
  closing,   \* closedown runs
  arrivals,  \* packets received
  Ssrc,      \* pcmcat: the SSRC it was asked for, or 0
  top,       \* top[s]: the latest packet of stream s to have arrived
  catRtp,    \* pcmcat: sp->rtp_state
  written    \* pcmcat: history, the packets written to stdout

listVars == <<Audio, node>>
catVars  == <<top, catRtp, written>>
receiverVars == <<sessionVars, program, listVars, closing, arrivals, Ssrc, catVars>>

ReceiverInit ==
  /\ SessionsInit
  /\ program \in {"monitor", "opus", "pcmcat"}
  /\ Audio = NULL /\ node = [i \in Ids |-> NULL]
  /\ closing = FALSE /\ arrivals = 0
  /\ Ssrc \in IF program = "pcmcat" THEN Asked ELSE {0}
  /\ top = [s \in Streams |-> 0] /\ catRtp = Unopened /\ written = <<>>

-----------------------------------------------------------------------------
(* The list of opus and pcmcat *)

Kept == {i \in Ids : node[i] # NULL}

\* The sessions met on the way from the head.
Chain[n \in 0..Cardinality(Ids)] ==
  IF n = 0 THEN Audio
  ELSE IF Chain[n - 1] \in Kept THEN node[Chain[n - 1]].next ELSE NULL

Listed == LET chain == Chain IN {chain[n] : n \in DOMAIN chain} \ {NULL}

\* lookup_session finds it.
KnownAs(s) == {i \in Listed : node[i].stream = s}

\* Mutant: the session after it keeps its prev.
MovedForwards(i) ==
  [j \in Ids |-> IF j = i THEN [node[i] EXCEPT !.prev = NULL, !.next = Audio]
                 ELSE IF j = node[i].prev THEN [node[j] EXCEPT !.next = node[i].next]
                 ELSE node[j]]

\* "Not at top of bucket chain; move it there".  The old top keeps a prev of NULL.
Moved(i) ==
  [j \in Ids |-> IF j = i THEN [node[i] EXCEPT !.prev = NULL, !.next = Audio]
                 ELSE IF j = node[i].next THEN [node[j] EXCEPT !.prev = node[i].prev]
                 ELSE IF j = node[i].prev THEN [node[j] EXCEPT !.next = node[i].next]
                 ELSE node[j]]

LookUp(i) ==
  IF node[i].prev = NULL THEN UNCHANGED listVars ELSE node' = Moved(i) /\ Audio' = i

\* make_session: "Put at head of bucket chain".
Make(i, s) ==
  /\ node' = [j \in Ids |-> IF j = i THEN [stream |-> s, prev |-> NULL, next |-> Audio]
                            ELSE IF j = Audio THEN [node[j] EXCEPT !.prev = i] ELSE node[j]]
  /\ Audio' = i

\* close_session, for the head.
CloseHead ==
  LET s == node[Audio] IN
  /\ node' = [j \in Ids |-> IF j = Audio THEN NULL
                            ELSE IF j = s.next THEN [node[j] EXCEPT !.prev = s.prev]
                            ELSE IF j = s.prev THEN [node[j] EXCEPT !.next = s.next]
                            ELSE node[j]]
  /\ Audio' = IF s.prev = NULL THEN s.next ELSE Audio

-----------------------------------------------------------------------------
(* opus: input, closedown *)

\* The place calloc gives is any that is free: one of them is enough.
FreePlace == CHOOSE i \in Ids : i \notin Kept

OpusReceive(s) ==
  /\ program = "opus" /\ ~closing /\ arrivals < MaxArrivals
  /\ arrivals' = arrivals + 1
  /\ IF KnownAs(s) = {} THEN Kept # Ids /\ Make(FreePlace, s)
     ELSE \E i \in KnownAs(s) : LookUp(i)
  /\ UNCHANGED <<sessionVars, program, closing, Ssrc, catVars>>

Signal ==
  /\ program = "opus" /\ ~closing
  /\ closing' = TRUE
  /\ UNCHANGED <<sessionVars, program, listVars, arrivals, Ssrc, catVars>>

CloseDown ==
  /\ closing /\ Audio \in Kept
  /\ CloseHead
  /\ UNCHANGED <<sessionVars, program, closing, arrivals, Ssrc, catVars>>

-----------------------------------------------------------------------------
(* pcmcat: main *)

\* "Only take specified SSRC or first SSRC for now".
Ignored(s) == Kept # {} \/ (Ssrc # 0 /\ s.ssrc # Ssrc)

\* The sequence numbers wrap after the second packet.
CatHeader(s, n) == [ssrc |-> s.ssrc, seq |-> (SeqMod - 2 + n) % SeqMod, timestamp |-> n % TimeMod]

\* Packet n of stream s arrives, with those before it lost, late, or again.
CatReceive(s, n) ==
  /\ program = "pcmcat" /\ arrivals < MaxArrivals
  /\ n \in (top[s] - MaxDelay)..(top[s] + MaxLost + 1) /\ n > 0
  /\ arrivals' = arrivals + 1
  /\ top' = [top EXCEPT ![s] = IF n > @ THEN n ELSE @]
  /\ IF KnownAs(s) = {} /\ Ignored(s) THEN UNCHANGED <<listVars, catRtp, written>>
     ELSE /\ IF KnownAs(s) = {} THEN Make(FreePlace, s) ELSE \E i \in KnownAs(s) : LookUp(i)
          /\ catRtp' = Processed(catRtp, CatHeader(s, n), 0)
          /\ written' = IF Good(catRtp, CatHeader(s, n))
                        THEN Append(written, [stream |-> s, n |-> n]) ELSE written
  /\ UNCHANGED <<sessionVars, program, closing, Ssrc>>

-----------------------------------------------------------------------------
ReceiverNext ==
  \/ /\ program = "monitor" /\ SessionsNext
     /\ UNCHANGED <<program, listVars, closing, arrivals, Ssrc, catVars>>
  \/ \E s \in Streams : OpusReceive(s) \/ \E n \in 1..SeqMod : CatReceive(s, n)
  \/ Signal \/ CloseDown

ReceiverSpec == ReceiverInit /\ [][ReceiverNext]_receiverVars /\ SessionsFairness

-----------------------------------------------------------------------------
(* Properties *)

\* The list of opus and pcmcat holds every session, each once, from the first
\* packet to the last that closedown frees: a prev may be missing, for a session
\* that was at the front when another moved there, but is never wrong
\* (opus.c:425-492).
ChainHolds ==
  LET chain == Chain IN
  /\ Listed = Kept /\ chain[Cardinality(Ids)] = NULL
  /\ \A i, j \in Kept : node[i].stream = node[j].stream => i = j
  /\ \A i \in Kept : node[i].prev # NULL => node[node[i].prev].next = i

\* pcmcat writes one stream, the one asked for, in the order it was sent and
\* nothing twice, whoever else sends to the group (pcmcat.c:120-159).
CatInOrder ==
  \A i, j \in DOMAIN written :
    /\ written[i].stream = written[j].stream
    /\ i < j => written[i].n < written[j].n
    /\ Ssrc # 0 => written[i].stream.ssrc = Ssrc

\* No receiver loses a session or gives a packet to the wrong one: monitor, whose
\* display deletes sessions from another thread, opus, which moves them about, or
\* pcmcat, which takes one.
ReceiversSound == SessionsSound /\ ChainHolds /\ CatInOrder
=============================================================================
