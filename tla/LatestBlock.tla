---------------------------- MODULE LatestBlock ----------------------------
(***************************************************************************)
(* What the fast-convolution filter promises its readers, told without the *)
(* block numbers the readers share: blocks 1, 2, 3, ... are posted, the    *)
(* newest replaces the one before, and a reader that asks is handed the    *)
(* newest if NO reader was ever handed it.  So a block is worked on at     *)
(* most once, by one reader, and its result sent at most once; a slow      *)
(* reader skips blocks and never goes back.                                *)
(***************************************************************************)
EXTENDS Naturals

CONSTANT Readers

VARIABLES
  posted,   \* number of the newest block
  last,     \* the block each reader was handed last
  using,    \* whether the reader still works on it
  heard     \* the block whose result was sent last

mailVars == <<posted, last, using, heard>>

MailInit ==
  /\ posted = 0
  /\ last = [r \in Readers |-> 0]
  /\ using = [r \in Readers |-> FALSE]
  /\ heard = 0

Post ==
  /\ posted' = posted + 1
  /\ UNCHANGED <<last, using, heard>>

Take(r) ==
  /\ ~using[r]
  /\ \A q \in Readers : last[q] < posted
  /\ last' = [last EXCEPT ![r] = posted]
  /\ using' = [using EXCEPT ![r] = TRUE]
  /\ UNCHANGED <<posted, heard>>

Send(r) ==
  /\ using[r]
  /\ using' = [using EXCEPT ![r] = FALSE]
  /\ heard' = last[r]
  /\ UNCHANGED <<posted, last>>

MailNext == Post \/ \E r \in Readers : Take(r) \/ Send(r)

MailSpec == MailInit /\ [][MailNext]_mailVars
=============================================================================
