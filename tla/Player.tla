------------------------------- MODULE Player -------------------------------
(***************************************************************************)
(* iqplay, given files that iqrecord has made: it sends them one after the *)
(* other as one RTP stream, and its status thread reports every 100 ms and *)
(* whenever a command comes, which it counts and does not obey.            *)
(*                                                                         *)
(* Every field of the reports is sent every Interval + 1 reports and when  *)
(* it has changed (compact_packet); whoever listens misses some.           *)
(***************************************************************************)
EXTENDS Recorder

CONSTANTS
  BlockSize,   \* -b: samples in a packet sent
  Interval,    \* the 10 of ncmd: reports between full ones
  DefaultRate, \* -r
  MaxFiles,    \* bound: files played
  MaxCommands, \* bound: commands received
  MaxReports   \* bound: reports sent

ASSUME PlayerAssumption ==
  /\ BlockSize \in Nat \ {0}
  /\ {Interval, MaxFiles, MaxCommands, MaxReports} \subseteq Nat

VARIABLES
  playing,   \* the file being played, NoFile or Exited
  offset,    \* bytes of it read
  rate,      \* status.samprate in playfile
  seq,       \* Rtp_state.seq
  timestamp, \* Rtp_state.timestamp
  out,       \* history: packets sent
  played,    \* history: files played so far
  commands,  \* Commands
  counter,   \* of ncmd
  state,     \* State: what the reports have said, NoReport before the first
  reports,   \* bound: reports sent
  heard,     \* what the listener knows
  row        \* history: reports it has heard in a row

playVars == <<playing, offset, rate, seq, timestamp, out, played>>
ncmdVars == <<commands, counter, state, reports, heard, row>>
vars == <<recorderVars, playVars, ncmdVars>>

Exited == -1

Fields == {"commands", "packets"}
NotSaid == [f \in Fields |-> -1]

PlayerInit ==
  /\ playing = NoFile /\ offset = 0 /\ rate = DefaultRate
  /\ seq = 0 /\ timestamp = 0 /\ out = <<>> /\ played = 0
  /\ commands = 0 /\ counter = 0 /\ state = NotSaid /\ reports = 0
  /\ heard = NotSaid /\ row = 0

-----------------------------------------------------------------------------
(* main, playfile *)

\* Nothing more will be recorded.
RecordedAll == pc = "down" /\ runs = MaxRuns

\* attrscanf leaves what it does not find.
Attribute(f) == IF f.attrs = NoAttributes THEN DefaultRate ELSE f.attrs.samprate

\* The next argument.
Open(i) ==
  /\ RecordedAll /\ playing = NoFile /\ played < MaxFiles
  /\ playing' = i /\ offset' = 0 /\ rate' = Attribute(files[i])
  /\ played' = played + 1
  /\ UNCHANGED <<recorderVars, seq, timestamp, out, ncmdVars>>

BlockBytes == 4 * BlockSize

\* pipefill: the bytes that there are, up to a block.
Filled == SubSeq(files[playing].safe, offset + 1,
                 IF offset + BlockBytes < Len(files[playing].safe)
                 THEN offset + BlockBytes ELSE Len(files[playing].safe))

\* Mutant: the timestamp counts the samples read.
NextHeaderRead ==
  /\ seq' = (seq + 1) % SeqMod
  /\ timestamp' = (timestamp + Len(Filled) \div 4) % TimeMod

\* The header is filled in and the next one's is made before anything is read.
NextHeader ==
  /\ seq' = (seq + 1) % SeqMod
  /\ timestamp' = (timestamp + BlockSize) % TimeMod

\* A whole block is sent, whatever was read; htons swaps every sample.
SendBlock ==
  /\ playing > NoFile /\ Filled # <<>>
  /\ NextHeader
  /\ out' = Append(out, [seq |-> seq, timestamp |-> timestamp, rate |-> rate,
                         file |-> playing, nth |-> played, bytes |-> Filled])
  /\ offset' = offset + Len(Filled)
  /\ UNCHANGED <<recorderVars, playing, rate, played, ncmdVars>>

\* End of file: the header is not used.
EndFile ==
  /\ playing > NoFile /\ Filled = <<>>
  /\ NextHeader
  /\ playing' = NoFile
  /\ UNCHANGED <<recorderVars, offset, rate, out, played, ncmdVars>>

\* The arguments are used up: exit ends all threads.
Exit ==
  /\ RecordedAll /\ playing = NoFile /\ played > 0
  /\ playing' = Exited
  /\ UNCHANGED <<recorderVars, offset, rate, seq, timestamp, out, played, ncmdVars>>

-----------------------------------------------------------------------------
(* ncmd *)

\* Bound: reports are looked at only for a recording without trouble.
Playing ==
  /\ RecordedAll /\ playing # Exited
  /\ reports < MaxReports /\ troubles = 0 /\ ended = "exit" /\ Len(files) = 1

\* Mutant: the counter is reloaded before it has reached zero.
NeverReloaded(c) == c - 1

\* counter after a report.
CountDown(c) == IF c <= 0 THEN Interval ELSE c - 1

\* send_iqplay_status, and a listener that may miss it; another program of the
\* package sends nothing to it that it would keep.
Report(cmds, full) ==
  LET now  == [commands |-> cmds, packets |-> Len(out)]
      said == {f \in Fields : full \/ now[f] # state[f]} IN
  /\ state' = now
  /\ reports' = reports + 1
  /\ \/ /\ heard' = [f \in Fields |-> IF f \in said THEN now[f] ELSE heard[f]]
        /\ row' = row + 1
     \/ heard' = heard /\ row' = 0

\* recv times out.
Idle ==
  /\ Playing
  /\ Report(commands, counter = 0)
  /\ counter' = CountDown(counter)
  /\ UNCHANGED <<recorderVars, playVars, commands>>

\* A command: counted, answered in full.
Command ==
  /\ Playing /\ commands < MaxCommands
  /\ commands' = commands + 1
  /\ Report(commands', TRUE)
  /\ counter' = CountDown(0)
  /\ UNCHANGED <<recorderVars, playVars>>

-----------------------------------------------------------------------------
Init == RecorderInit /\ PlayerInit

Recording(A) == A /\ UNCHANGED <<playVars, ncmdVars>>

Next ==
  \/ Recording(RecorderNext)
  \/ \E i \in DOMAIN files : Open(i)
  \/ SendBlock \/ EndFile \/ Exit \/ Idle \/ Command

Spec == Init /\ [][Next]_vars

\* Headers made from one block to another: one for each block, and one for each
\* file that ended.
Between(k, n) == n + out[n].nth - (k + out[k].nth)

\* A stream that was recorded undisturbed is replayed in time: between any two
\* of its blocks the timestamps of the replay differ as those of the stream
\* did, at the stream's own rate (iqrecord's file and attributes, read back by
\* playfile).  From a file to the next, as within one, the timestamp keeps
\* step with the sequence number: who fills the gap stays aligned.  This is as
\* long as a receiver can tell which is later, up to half of the numbers.
ReplayKeepsTime ==
  \A k, n \in DOMAIN out :
    k <= n /\ 2 * Between(k, n) < SeqMod /\ 2 * (BlockSize * Between(k, n)) < TimeMod =>
    LET f == files[out[k].file]
        elapsed == Signed(out[n].timestamp - out[k].timestamp, TimeMod) IN
    /\ elapsed = BlockSize * Signed(out[n].seq - out[k].seq, SeqMod)
    /\ out[k].nth = out[n].nth /\ f.smooth /\ f.from.stream.type = "iq" =>
         /\ 4 * elapsed = Head(out[n].bytes).at - Head(out[k].bytes).at
         /\ out[n].rate = f.from.stream.rate

\* Whoever has heard Interval + 1 reports in a row knows what the last one
\* could tell, though most reports say only what has changed (the counter of
\* ncmd with compact_packet).
HearerKnows == row > Interval => heard = state
=============================================================================
