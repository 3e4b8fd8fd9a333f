----------------------------- MODULE MCAprsFeed -----------------------------
(***************************************************************************)
(* One stream with two short frames, one full of ones and one that looks   *)
(* like a flag.  The second is repeated by a digipeater, the third came    *)
(* off the Internet.                                                       *)
(***************************************************************************)
EXTENDS AprsFeed

MCFrames == {"a", "b"}
MCBits == [f \in MCFrames |-> IF f = "a" THEN <<1, 1, 1, 1, 1, 1, 1, 0>>
                                         ELSE <<0, 1, 1, 1, 1, 1, 1, 0>>]
MCSends == [s \in Streams |-> <<"a", "b", "a", "a">>]

Address(name, last) == [name |-> name, last |-> last]

MCAx == [f \in MCFrames |->
  [addresses |-> IF f = "a" THEN <<Address("APRS", FALSE), Address("KA9Q", TRUE)>>
                 ELSE <<Address("APRS", FALSE), Address("KA9Q", FALSE), Address("TCPIP", TRUE)>>,
   control |-> 3, type |-> 240, info |-> 3, first |-> "!"]]
=============================================================================
