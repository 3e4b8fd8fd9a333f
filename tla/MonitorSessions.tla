--------------------------- MODULE MonitorSessions ---------------------------
(***************************************************************************)
(* The sessions of monitor.c: a doubly linked list on which receive        *)
(* threads look up the session of a packet, or create it and its decoder   *)
(* thread, while the display thread moves over the list and deletes from   *)
(* it.  Sess_mutex covers each of these by itself, but nothing keeps a     *)
(* session from being freed between the lookup and its use.                *)
(*                                                                         *)
(* Sessions live in memory that is used again; a critical section that     *)
(* cannot block is one step.  The order and content of packets are in      *)
(* MonitorPlayout.                                                         *)
(***************************************************************************)
EXTENDS Integers, Sequences, FiniteSets

CONSTANTS
  Ids,          \* places in memory for a session
  NULL,
  Receivers,    \* receive threads, one for each multicast group
  Streams,      \* streams, each with a sender and an ssrc
  Heard,        \* Heard[r]: the streams of the group of thread r
  MaxPackets,   \* bound: packets received
  MaxDeletes    \* bound: sessions deleted

Pointer == Ids \cup {NULL}

\* A decoder thread: not created; at work on a packet, if it has one, after which
\* it tests terminate; about to lock qmutex and look at the queue; waiting on
\* qcond; gone, having left qmutex free, or locked.
Decoder == {"none", "work", "look", "asleep", "gone", "goneLocked"}

Sessions ==
  [stream: Streams, prev: Pointer, next: Pointer, terminate: BOOLEAN, decoder: Decoder,
   queue: Seq(Streams)]

ASSUME SessionAssumption ==
  /\ Ids # {} /\ IsFiniteSet(Ids)
  /\ NULL \notin Ids \cup Streams \cup Sessions
  /\ Streams \subseteq [sender: STRING, ssrc: Nat]
  /\ Heard \in [Receivers -> SUBSET Streams]
  /\ {MaxPackets, MaxDeletes} \subseteq Nat

VARIABLES
  Session,      \* head of the list
  sess,         \* sess[i]: the session at i, NULL where there is none
  receiver,     \* receiver[r]: where thread r is, its packet and its session
  Current,      \* the session the display's cursor is on
  display,      \* where the display thread is
  packets,      \* packets received so far
  deletes,      \* sessions deleted so far
  clashed       \* history: a receive thread had hold of a session, or found it,
                \* while the display deleted it

memory      == <<Session, sess>>
screen      == <<Current, display>>
bounds      == <<packets, deletes>>
sessionVars == <<memory, receiver, screen, bounds, clashed>>

SessionTypes ==
  /\ Session \in Pointer /\ Current \in Pointer
  /\ sess \in [Ids -> {NULL} \cup Sessions]
  /\ receiver \in [Receivers ->
       [at: {"recv", "create", "start", "insert", "stuck"},
        packet: Streams \cup {NULL}, sp: Pointer]]
  /\ \A r \in Receivers :
       receiver[r].at \in {"start", "insert", "stuck"} => receiver[r].sp \in Ids
  /\ display \in {"keys", "join", "crashed"}
  /\ packets \in 0..MaxPackets /\ deletes \in 0..MaxDeletes
  /\ clashed \in BOOLEAN

SessionsInit ==
  /\ Session = NULL /\ sess = [i \in Ids |-> NULL]
  /\ receiver = [r \in Receivers |-> [at |-> "recv", packet |-> NULL, sp |-> NULL]]
  /\ Current = NULL /\ display = "keys"
  /\ packets = 0 /\ deletes = 0
  /\ clashed = FALSE

Live == {i \in Ids : sess[i] # NULL}

\* The places calloc may return: any that is free.  Those that no thread has a
\* pointer to are all alike, so one of them is enough.
Free ==
  LET held == {receiver[r].sp : r \in Receivers}
      rest == Ids \ (Live \cup held)
  IN  (held \ (Live \cup {NULL})) \cup IF rest = {} THEN {} ELSE {CHOOSE i \in rest : TRUE}

\* Nothing runs on after a crash.
Running == display # "crashed"

-----------------------------------------------------------------------------
(* sockproc *)

SameStream(i, s) == sess[i].stream.ssrc = s.ssrc /\ sess[i].stream.sender = s.sender

\* lookup_session.
Found(s) == {i \in Live : SameStream(i, s)}

\* A packet of stream s, and lookup_session.
Receive(r, s) ==
  /\ Running /\ receiver[r].at = "recv"
  /\ packets < MaxPackets
  /\ packets' = packets + 1
  /\ \/ /\ Found(s) = {}
        /\ receiver' = [receiver EXCEPT ![r] = [at |-> "create", packet |-> s, sp |-> NULL]]
        /\ UNCHANGED clashed
     \/ \E i \in Found(s) :
          /\ receiver' = [receiver EXCEPT ![r] = [at |-> "insert", packet |-> s, sp |-> i]]
          /\ clashed' = (clashed \/ sess[i].terminate)
  /\ UNCHANGED <<memory, screen, deletes>>

\* The last of the list.
Last == {i \in Live : sess[i].next = NULL}

\* create_session: at the end of the list.
Create(r) ==
  /\ Running /\ receiver[r].at = "create"
  /\ \E i \in Free :
       LET new(prev) == [stream |-> receiver[r].packet, prev |-> prev, next |-> NULL,
                         terminate |-> FALSE, decoder |-> "none", queue |-> <<>>]
       IN  /\ \/ /\ Session = NULL /\ Session' = i
                 /\ sess' = [sess EXCEPT ![i] = new(NULL)]
              \/ /\ Session # NULL /\ UNCHANGED Session
                 /\ \E end \in Last :
                      sess' = [sess EXCEPT ![i] = new(end), ![end].next = i]
           /\ receiver' = [receiver EXCEPT ![r].at = "start", ![r].sp = i]
  /\ UNCHANGED <<screen, bounds, clashed>>

\* Its mutex and its decoder thread.  No session is deleted before it has one:
\* that crashes the program.
Start(r) ==
  /\ Running /\ receiver[r].at = "start"
  /\ sess' = [sess EXCEPT ![receiver[r].sp].decoder = "work"]
  /\ receiver' = [receiver EXCEPT ![r].at = "insert"]
  /\ UNCHANGED <<Session, screen, bounds, clashed>>

\* Mutant: the decoder is not woken.
Unsignalled(s) == s

\* pthread_cond_signal.
Signalled(s) == IF s.decoder = "asleep" THEN [s EXCEPT !.decoder = "look"] ELSE s

Queued(s, packet) == [s EXCEPT !.queue = Append(@, packet)]

NextPacket(r) == receiver' = [receiver EXCEPT ![r] = [at |-> "recv", packet |-> NULL, sp |-> NULL]]

\* The packet goes on the queue.  A session that is gone may have left any bytes:
\* its mutex can seem locked for good, or the packet lands in free memory or in
\* the session that has taken the place.  The mutex of a session whose decoder was
\* cancelled in pthread_cond_wait, and so locked, is never unlocked.
Insert(r) ==
  LET i == receiver[r].sp
  IN  /\ Running /\ receiver[r].at = "insert"
      /\ \/ /\ sess[i] # NULL /\ sess[i].decoder # "goneLocked"
            /\ sess' = [sess EXCEPT ![i] = Signalled(Queued(sess[i], receiver[r].packet))]
            /\ NextPacket(r)
         \/ /\ sess[i] = NULL
            /\ NextPacket(r)
            /\ UNCHANGED sess
         \/ /\ sess[i] # NULL => sess[i].decoder = "goneLocked"
            /\ receiver' = [receiver EXCEPT ![r].at = "stuck"]
            /\ UNCHANGED sess
      /\ UNCHANGED <<Session, screen, bounds, clashed>>

-----------------------------------------------------------------------------
(* decode_task *)

DecoderStep(i, from, to) ==
  /\ Running /\ sess[i] # NULL /\ sess[i].decoder = from
  /\ sess' = [sess EXCEPT ![i] = to]
  /\ UNCHANGED <<Session, receiver, screen, bounds, clashed>>

\* decode_task_cleanup: what is on the queue is freed.
Cleaned(s, as) == [s EXCEPT !.decoder = as, !.queue = <<>>]

Test(i) ==
  DecoderStep(i, "work", IF sess[i].terminate THEN Cleaned(sess[i], "gone")
                         ELSE [sess[i] EXCEPT !.decoder = "look"])

\* pthread_cond_wait is the only cancellation point of the thread; a thread that
\* is cancelled there takes the mutex again before the cleanup.
Look(i) ==
  DecoderStep(i, "look",
    IF sess[i].queue # <<>> THEN [sess[i] EXCEPT !.decoder = "work", !.queue = Tail(@)]
    ELSE IF sess[i].terminate THEN Cleaned(sess[i], "goneLocked")
    ELSE [sess[i] EXCEPT !.decoder = "asleep"])

SpuriousWakeup(i) == DecoderStep(i, "asleep", [sess[i] EXCEPT !.decoder = "look"])

\* A decoder that waits is cancelled.
Cancelled(i) ==
  /\ sess[i] # NULL /\ sess[i].terminate
  /\ DecoderStep(i, "asleep", Cleaned(sess[i], "goneLocked"))

-----------------------------------------------------------------------------
(* display *)

\* The top of the loop, and the keys that move the cursor.
MoveCursor ==
  /\ display = "keys"
  /\ \/ Current = NULL /\ Session # NULL /\ Current' = Session
     \/ /\ Current # NULL /\ sess[Current].next # NULL
        /\ Current' = sess[Current].next
     \/ /\ Current # NULL /\ sess[Current].next = NULL
        /\ Current' = Session
     \/ /\ Current # NULL /\ sess[Current].prev # NULL
        /\ Current' = sess[Current].prev
  /\ UNCHANGED <<memory, receiver, display, bounds, clashed>>

\* Key `d': terminate, pthread_cancel.  Where no thread has been created yet its
\* handle is zero, and the program crashes.
Delete ==
  /\ display = "keys" /\ Current # NULL
  /\ deletes < MaxDeletes
  /\ deletes' = deletes + 1
  /\ sess' = [sess EXCEPT ![Current].terminate = TRUE]
  /\ display' = IF sess[Current].decoder = "none" THEN "crashed" ELSE "join"
  /\ clashed' = (clashed \/ \E r \in Receivers : receiver[r].sp = Current)
  /\ UNCHANGED <<Session, receiver, Current, packets>>

\* The list without session i, which is freed.
Unlinked(i) ==
  LET s == sess[i]
  IN  [j \in Ids |-> IF j = i THEN NULL
                     ELSE IF j = s.prev THEN [sess[j] EXCEPT !.next = s.next]
                     ELSE IF j = s.next THEN [sess[j] EXCEPT !.prev = s.prev]
                     ELSE sess[j]]

Joined == sess[Current].decoder \in {"gone", "goneLocked"}

\* pthread_join and close_session.
Close ==
  /\ display = "join" /\ Joined
  /\ sess' = Unlinked(Current)
  /\ Session' = IF sess[Current].prev = NULL THEN sess[Current].next ELSE Session
  /\ Current' = Session' /\ display' = "keys"
  /\ UNCHANGED <<receiver, bounds, clashed>>

-----------------------------------------------------------------------------
Socket(r) == (\E s \in Heard[r] : Receive(r, s)) \/ Create(r) \/ Start(r) \/ Insert(r)

Decode(i) == Test(i) \/ Look(i) \/ SpuriousWakeup(i) \/ Cancelled(i)

Display == MoveCursor \/ Delete \/ Close

SessionsNext == (\E r \in Receivers : Socket(r)) \/ (\E i \in Ids : Decode(i)) \/ Display

\* Threads go on with what they have begun; packets, keys and spurious wakeups
\* need not come.
SessionsFairness ==
  /\ \A r \in Receivers : WF_sessionVars(Create(r) \/ Start(r) \/ Insert(r))
  /\ \A i \in Ids : WF_sessionVars(Test(i) \/ Look(i) \/ Cancelled(i))
  /\ WF_sessionVars(Close)

SessionsSpec == SessionsInit /\ [][SessionsNext]_sessionVars /\ SessionsFairness
-----------------------------------------------------------------------------
(* Properties *)

\* The sessions met on the way from the head of the list.
Walk[n \in 0..Cardinality(Ids)] ==
  IF n = 0 THEN Session
  ELSE IF Walk[n - 1] = NULL THEN NULL ELSE sess[Walk[n - 1]].next

\* Whatever is created and deleted, the list holds every session once, can be
\* walked both ways, and the display's cursor is on it (monitor.c:783-825).
ListHolds ==
  LET walk == Walk
  IN  /\ {walk[n] : n \in DOMAIN walk} = Live \cup {NULL}
      /\ walk[Cardinality(Ids)] = NULL
      /\ \A i \in Live : LET next == sess[i].next
                         IN  next # NULL => sess[next].prev = i
      /\ Session # NULL => sess[Session].prev = NULL
      /\ Current \in Live \cup {NULL}

\* A decoder is given packets of its own stream only, unless a receive thread had
\* hold of a session that was being deleted (monitor.c:346-382).
OwnPackets ==
  clashed \/ \A i \in Live : \A n \in DOMAIN sess[i].queue : sess[i].queue[n] = sess[i].stream

\* Both: the list and the queues that receive threads, decoders and the display
\* share under two kinds of mutex stay whole (monitor.c:303-384, 747-825).
SessionsSound == ListHolds /\ OwnPackets

\* A receive thread comes back for the next packet, and what is queued is decoded
\* or deleted with its session; the thread can only stay away once one had hold of
\* a session that was being deleted.
EveryPacketTaken ==
  /\ \A r \in Receivers :
       receiver[r].at # "recv" ~> receiver[r].at = "recv" \/ clashed \/ ~Running
  /\ \A i \in Ids :
       (i \in Live /\ sess[i].queue # <<>>)
         ~> (i \notin Live \/ sess[i].queue = <<>> \/ ~Running)
=============================================================================
