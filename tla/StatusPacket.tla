---------------------------- MODULE StatusPacket ----------------------------
(***************************************************************************)
(* The packets by which the programs tell each other their state and what  *)
(* they want (status.c).  A packet is a list of items, each with a type, a *)
(* length and that many bytes.  Whole numbers and the bit patterns of      *)
(* floating-point numbers travel in network order with their leading zero  *)
(* bytes cut off, so zero has no bytes at all; socket addresses have six.  *)
(* A program sends in full only now and then, else only what has changed   *)
(* since it was last sent, by a table of the latest value of every type.   *)
(***************************************************************************)
EXTENDS Integers, Sequences

CONSTANT Base    \* values of a byte

ASSUME StatusAssumption == Base \in Nat \ {0, 1}

Byte == 0..(Base - 1)

\* A packet has the bytes of every type that is in it; this one has nothing.
NoItems == [type \in {} |-> <<>>]

-----------------------------------------------------------------------------
(* encode_int64, encode_byte, encode_socket *)

\* A number, moved down by each number of bytes up to the eight it has.
Shifted(x) ==
  LET moved[n \in 0..8] == IF n = 0 THEN x ELSE moved[n - 1] \div Base
  IN  moved

ByteCount(x) ==
  CHOOSE n \in 0..8 : Shifted(x)[n] = 0 /\ \A m \in 0..(n - 1) : Shifted(x)[m] # 0

EncodedInt(x) ==
  LET n == ByteCount(x)
  IN  [i \in 1..n |-> Shifted(x)[n - i] % Base]

EncodedByte(x) == <<x % Base>>

\* An address that has not been set, and is not encoded.
NoAddress == <<>>

(* decode_int, decode_float, decode_socket *)

\* The result after each number of bytes.
Accumulated(bytes) ==
  LET result[n \in 0..Len(bytes)] == IF n = 0 THEN 0 ELSE result[n - 1] * Base + bytes[n]
  IN  result

DecodedInt(bytes) == Accumulated(bytes)[Len(bytes)]

DecodedSocket(bytes, old) == IF Len(bytes) = 6 THEN bytes ELSE old

-----------------------------------------------------------------------------
(* compact_packet *)

EmptyTable(types) == [t \in types |-> <<>>]

\* Mutant: a full packet is cut down like any other.
CompactedAlways(table, packet, full) ==
  [t \in {u \in DOMAIN packet : table[u] # packet[u]} |-> packet[t]]

Compacted(table, packet, full) ==
  [t \in {u \in DOMAIN packet : full \/ table[u] # packet[u]} |-> packet[t]]

Remembered(table, packet) ==
  [t \in DOMAIN table |-> IF t \in DOMAIN packet THEN packet[t] ELSE table[t]]
=============================================================================
