------------------------------ MODULE AprsFeed ------------------------------
(***************************************************************************)
(* aprsfeed: the frames that packet has found, relayed over one TCP        *)
(* connection to an APRS server.                                           *)
(*                                                                         *)
(* Frames wait in the socket while the program resolves, connects, sleeps  *)
(* and logs in.  The server may go away at any time; the program finds out *)
(* only by a write that fails.  TCP tells it late: a write succeeds as     *)
(* long as there is room in the connection's buffers, also after the       *)
(* server has gone, until a reset or a timeout breaks the connection.      *)
(* (SIGPIPE is ignored, as systemd starts a service.)                      *)
(*                                                                         *)
(* What ax25_parse makes of a frame is computed from its address fields.   *)
(***************************************************************************)
EXTENDS PacketReceiver

CONSTANTS
  Ax,         \* each frame's parts: addresses (name, last), control, type,
              \*   the length of the information field and its first character
  MaxDigi,    \* MAX_DIGI
  MaxInfo,    \* MAX_INFO
  SocketSize, \* frames that wait in the socket
  SendBuffer, \* frames in a connection's buffers before a write waits for room
  MaxOutages  \* bound: times the server goes away

ASSUME FeedAssumption ==
  /\ {MaxDigi, MaxInfo, SocketSize, SendBuffer, MaxOutages} \subseteq Nat
  /\ \A f \in Frames : /\ Ax[f].info \in Nat
                        /\ Len(Ax[f].addresses) \in Nat
                        /\ DOMAIN Ax[f].addresses = 1..Len(Ax[f].addresses)

VARIABLES
  inbox,     \* frames in Input_fd's socket
  conn,      \* main: "resolve", "connect", "login", "relay"
  server,    \* the server takes connections
  peer,      \* the connection: "none", "open", "gone" (the server), "reset"
  wire,      \* frames written to the connection that have not reached the server
  outages,   \* so far
  atServer,  \* history: what the server has received
  given,     \* history: frames taken from the socket and not relayed
  failed     \* history: frames lost in a broken connection

feedVars == <<inbox, conn, server, peer, wire, outages, atServer, given, failed>>
aprsVars == <<packetVars, feedVars>>

FeedInit ==
  /\ inbox = <<>> /\ conn = "resolve" /\ server = TRUE /\ peer = "none"
  /\ wire = <<>> /\ outages = 0 /\ atServer = <<>> /\ given = <<>> /\ failed = <<>>

-----------------------------------------------------------------------------
(* ax25_parse *)

\* Addresses up to the first that is marked as the last.
EndOfAddresses(a) ==
  LET marked == {i \in DOMAIN a.addresses : a.addresses[i].last} IN
  IF marked = {} THEN 0 ELSE CHOOSE i \in marked : \A j \in marked : i <= j

Octets(a) == 7 * Len(a.addresses) + 2 + a.info + 2

Parsable(a) ==
  /\ Octets(a) >= 16
  /\ EndOfAddresses(a) > 0
  /\ EndOfAddresses(a) - 2 <= MaxDigi
  /\ a.info <= MaxInfo

\* Mutant: the last digipeater is not looked at.
AllButLast(a) == {a.addresses[i].name : i \in 3..EndOfAddresses(a) - 1}

Digipeaters(a) == {a.addresses[i].name : i \in 3..EndOfAddresses(a)}

-----------------------------------------------------------------------------
(* main *)

\* A frame is relayed if it is an APRS frame with something to say that does
\* not come from the Internet and is not third party traffic.
Relayed(a) ==
  /\ Parsable(a)
  /\ a.control = 3 /\ a.type = 240
  /\ a.info > 0
  /\ "TCPIP" \notin Digipeaters(a)
  /\ a.first # "{"

\* packet sends to the group: what does not fit in the socket is lost.
Arrive(packets) ==
  inbox' = SubSeq(inbox \o [k \in DOMAIN packets |-> packets[k].frame], 1,
                  IF Len(inbox) + Len(packets) < SocketSize
                  THEN Len(inbox) + Len(packets) ELSE SocketSize)

Resolve ==
  /\ conn = "resolve"
  /\ conn' = "connect"
  /\ UNCHANGED <<packetVars, inbox, server, peer, wire, outages, atServer, given, failed>>

\* Mutant: the program gives up.
ConnectOnce ==
  /\ conn = "connect"
  /\ conn' = IF server THEN "login" ELSE "given up"
  /\ peer' = IF server THEN "open" ELSE peer
  /\ UNCHANGED <<packetVars, inbox, server, wire, outages, atServer, given, failed>>

\* A connection that is refused is tried again after ten minutes.
Connect ==
  /\ conn = "connect"
  /\ conn' = IF server THEN "login" ELSE "resolve"
  /\ peer' = IF server THEN "open" ELSE peer
  /\ UNCHANGED <<packetVars, inbox, server, wire, outages, atServer, given, failed>>

\* The login line; a connection that is known to be broken fails it.
Login ==
  /\ conn = "login"
  /\ IF peer = "reset" THEN conn' = "resolve" /\ peer' = "none"
     ELSE conn' = "relay" /\ UNCHANGED peer
  /\ UNCHANGED <<packetVars, inbox, server, wire, outages, atServer, given, failed>>

\* Mutant: the result of fprintf is not looked at.
Unchecked == UNCHANGED <<conn, peer>>

\* fprintf fails: the connection is closed and made again.
Retry == conn' = "resolve" /\ peer' = "none"

\* The line that finds the buffers full is written when there is room again
\* (fprintf waits): until then the next frame is not taken.
Relay ==
  LET f == Head(inbox) IN
  /\ conn = "relay" /\ inbox # <<>> /\ Len(wire) <= SendBuffer
  /\ inbox' = Tail(inbox)
  /\ \/ /\ ~Relayed(Ax[f])
        /\ given' = Append(given, f)
        /\ UNCHANGED <<conn, peer, wire, failed>>
     \/ /\ Relayed(Ax[f]) /\ peer = "reset"
        /\ failed' = Append(failed, f)
        /\ Retry
        /\ UNCHANGED <<wire, given>>
     \/ /\ Relayed(Ax[f]) /\ peer # "reset"
        /\ wire' = Append(wire, f)
        /\ UNCHANGED <<conn, peer, given, failed>>
  /\ UNCHANGED <<packetVars, server, outages, atServer>>

\* A frame reaches the server.
Deliver ==
  /\ peer = "open" /\ wire # <<>>
  /\ atServer' = Append(atServer, Head(wire)) /\ wire' = Tail(wire)
  /\ UNCHANGED <<packetVars, inbox, conn, server, peer, outages, given, failed>>

\* The server goes away, with its end of the connection if there is one: what
\* is in flight will not reach it.
Outage ==
  /\ server /\ outages < MaxOutages
  /\ outages' = outages + 1 /\ server' = FALSE
  /\ peer' = IF peer = "open" THEN "gone" ELSE peer
  /\ UNCHANGED <<packetVars, inbox, conn, wire, atServer, given, failed>>

\* The reset arrives, or TCP gives up sending again: what is in flight is
\* lost, and a write that waits for room fails.
Break ==
  /\ peer = "gone"
  /\ failed' = failed \o wire /\ wire' = <<>>
  /\ \/ Len(wire) > SendBuffer /\ Retry
     \/ Len(wire) <= SendBuffer /\ peer' = "reset" /\ UNCHANGED conn
  /\ UNCHANGED <<packetVars, inbox, server, outages, atServer, given>>

Return ==
  /\ ~server /\ server' = TRUE
  /\ UNCHANGED <<packetVars, inbox, conn, peer, wire, outages, atServer, given, failed>>

-----------------------------------------------------------------------------
Packet(A) == A /\ UNCHANGED feedVars

AprsInit == PacketInit /\ FeedInit

Feed == Resolve \/ Connect \/ Login \/ Relay

AprsNext ==
  \/ \E s \in Streams : Packet(Transmit(s) \/ StartDecoder(s))
  \/ \E p \in net : Packet(Lose(p) \/ Receive(p))
  \/ \E s \in Streams :
       /\ Decode(s) /\ Arrive(SubSeq(out', Len(out) + 1, Len(out')))
       /\ UNCHANGED <<conn, server, peer, wire, outages, atServer, given, failed>>
  \/ Feed \/ Deliver \/ Outage \/ Break \/ Return

\* The program runs; the server returns; TCP delivers what it has taken or, if
\* it gets no answer, gives up.
AprsSpec ==
  /\ AprsInit /\ [][AprsNext]_aprsVars
  /\ WF_aprsVars(Feed) /\ WF_aprsVars(Return)
  /\ WF_aprsVars(Deliver) /\ WF_aprsVars(wire # <<>> /\ Break)

-----------------------------------------------------------------------------
FromPacket == [k \in DOMAIN out |-> out[k].frame]

\* An outage of the server costs at most the frames that its connection holds
\* and one more, whose write fails: the program does not go on writing to a
\* connection that is broken (the test of fprintf in main, and retry).
OutageCostsBuffer == Len(failed) <= outages * (SendBuffer + 1)

\* An Internet gateway is among the digipeaters, up to the last address.
FromInternet(a) ==
  \E i \in DOMAIN a.addresses :
    /\ i > 2 /\ a.addresses[i].name = "TCPIP"
    /\ \A j \in DOMAIN a.addresses : a.addresses[j].last => j >= i

\* The server is sent only what packet has sent, in that order, nothing twice
\* over however many connections, and nothing back that an Internet gateway
\* has put on the air; and if the server has never gone away every frame is
\* relayed, refused, in flight or waiting, unless it found the socket full.
ServerGetsFrames ==
  /\ \E kept \in SUBSET DOMAIN FromPacket :
       /\ Cardinality(kept) = Len(atServer)
       /\ \A k \in kept :
            /\ atServer[Cardinality({j \in kept : j <= k})] = FromPacket[k]
            /\ ~FromInternet(Ax[FromPacket[k]])
  /\ outages = 0 /\ Len(out) <= SocketSize =>
       Len(atServer) + Len(wire) + Len(given) + Len(inbox) = Len(out)

\* A frame that waits is relayed or given up in the end, whether the server is
\* there or has gone away while the program was connecting, logging in or
\* relaying.
NothingWaitsForEver == inbox # <<>> ~> inbox = <<>>
=============================================================================
