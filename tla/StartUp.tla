------------------------------ MODULE StartUp -------------------------------
(***************************************************************************)
(* How a receiver comes up.  Nobody is told where the others are: radio    *)
(* knows the group its front end reports to, and learns the sample rate    *)
(* and the address of the I/Q data from those statuses; packet and opus    *)
(* know the group radio reports to, and learn the address of the audio     *)
(* from there.  The programs are started in any order, the front end may   *)
(* be stopped and started, statuses get lost, and most of them carry only  *)
(* what has changed.                                                       *)
(*                                                                         *)
(* In radio two threads run from the start (main.c, radio_status.c): main  *)
(* waits for the first status and then reads its options and makes the     *)
(* filter, while the status thread decodes statuses and obeys commands,    *)
(* with a filter or without.  Only the wait itself is under a mutex.       *)
(* The tuning is in Tuning, the other commands and radio's view of itself  *)
(* in RemoteControl.                                                       *)
(***************************************************************************)
EXTENDS FrontEnd

CONSTANTS
  Programs,      \* "packet", "opus" or both
  Commands,      \* commands an operator gives to radio
  OutRate,       \* demod->output.samprate
  PcmAddress     \* demod->output.data_dest_address

ASSUME StartUpAssumption ==
  /\ Programs \subseteq {"packet", "opus"}
  /\ OutRate \in Nat \ {0}
  /\ PcmAddress \in Seq(Byte) /\ Len(PcmAddress) = 6

VARIABLES
  main,      \* where main() is
  options,   \* options it has not read yet
  early,     \* history: it went on when the rate was there and the ratio was not
  radio,     \* struct demod: what the two threads share
  filter,    \* filter.out
  made,      \* the response main's set_filter is making
  thread,    \* the status thread: where it is, and its local variables
  overlap,   \* history: edges set during main's set_filter, which has put, or
             \*   is about to put, its own older response over theirs
  touched,   \* history: filter.isb was changed by a command, and set_filter
             \*   has not been called since the output has followed
  users,     \* operators' commands in the socket
  told,      \* the item of its own State[] that matters here
  until,     \* full_status_counter
  hearing,   \* programs with a socket for radio's statuses
  mail,      \* radio's statuses in that socket
  pcmInput   \* each program's PCM address: Off before it is started

receiverVars == <<main, options, early, radio, filter, made, thread, overlap,
                  touched, users, told, until>>
startUpVars == <<frontVars, budget, receiverVars, hearing, mail, pcmInput>>

Edges == {"low", "high"}
NoResponse == [low |-> 0, high |-> -1, isb |-> FALSE]
Off == <<0>>
NoFilter == [decimate |-> 0, isb |-> FALSE, response |-> NoResponse]

\* struct demod with new values of some of the filter's parameters.
With(new) == [f \in DOMAIN radio |->
  IF f \in {"low", "high", "isb"} \cap DOMAIN new THEN new[f] ELSE radio[f]]

\* set_filter: the response to these edges, scaled for the type of output.
ResponseTo(edges) == [low |-> edges["low"], high |-> edges["high"], isb |-> filter.isb]

-----------------------------------------------------------------------------
(* main *)

ButListening == UNCHANGED <<device, up, gains, hw, signal, level, fresh, ordered,
                            table, counter, orders, budget, thread, overlap,
                            touched, users, told, until, hearing, mail, pcmInput>>
MainUnchanged == ButListening /\ UNCHANGED <<listening, reports>>

\* The first pass over the options: the sockets, without which it exits, and
\* the status thread, which at once asks for a full status.
OpenSockets ==
  /\ budget.receiver /\ main = "off"
  /\ \/ /\ main' = "wait"
        /\ thread' = [thread EXCEPT !.at = "select"]
        /\ SendOrder(NoItems) \/ UNCHANGED orders
     \/ main' = "exited" /\ UNCHANGED <<thread, orders>>
  /\ listening' = (main' = "wait")
  /\ UNCHANGED <<device, up, gains, hw, signal, level, fresh, ordered, table,
                 counter, reports, budget, options, early, radio, filter, made,
                 overlap, touched, users, told, until, hearing, mail, pcmInput>>

\* Mutant: it does not wait for the first status.
CheckNothing ==
  /\ main = "wait" /\ main' = "input"
  /\ early' = (early \/ thread.at = "derive")
  /\ UNCHANGED <<options, radio, filter, made>> /\ MainUnchanged

\* The condition of the wait, under the mutex, which the status thread does not
\* hold when it has stored the rate and not yet the ratio that goes with it.
CheckStatus ==
  /\ main = "wait"
  /\ main' = IF radio.rate = 0 \/ radio.address = NoAddress THEN "asleep" ELSE "input"
  /\ early' = (early \/ (main' = "input" /\ thread.at = "derive"))
  /\ UNCHANGED <<options, radio, filter, made>> /\ MainUnchanged

\* POSIX lets pthread_cond_wait return for no reason.
WakeForNothing ==
  /\ main = "asleep" /\ main' = "wait"
  /\ UNCHANGED <<options, early, radio, filter, made>> /\ MainUnchanged

\* The socket for the I/Q data.
OpenInput ==
  /\ main = "input" /\ main' \in {"options", "exited"}
  /\ listening' = (main' = "options")
  /\ reports' = IF listening' THEN reports ELSE <<>>
  /\ UNCHANGED <<options, early, radio, filter, made>> /\ ButListening

\* preset_mode: the filter's parameters of an entry of the mode table, which
\* may have the edges the wrong way round.  (It wakes the demodulators, see
\* BlockPipeline, and calls set_filter, which does nothing without a filter.)
Preset(mode) ==
  [low |-> Least(mode.low, mode.high), high |-> Most(mode.low, mode.high),
   isb |-> mode.isb]

\* The second pass over the options: -m, -l, -h and -i write the filter's
\* parameters.
ReadOption ==
  /\ main = "options" /\ options # <<>>
  /\ LET option == Head(options)
     IN  radio' = With(IF "mode" \in DOMAIN option THEN Preset(option.mode) ELSE option)
  /\ options' = Tail(options)
  /\ UNCHANGED <<main, early, filter, made>> /\ MainUnchanged

\* "In case it's never sent by front end"
ResetGain ==
  /\ main = "options" /\ options = <<>>
  /\ radio' = [radio EXCEPT !.gain = 0]
  /\ main' = "create"
  /\ UNCHANGED <<options, early, filter, made>> /\ MainUnchanged

\* Mutant: the output is complex whatever the options say.
CreateComplexFilter ==
  /\ main = "create"
  /\ IF radio.decimate = 0 THEN main' = "crashed" /\ UNCHANGED filter
     ELSE /\ filter' = [decimate |-> radio.decimate, isb |-> FALSE, response |-> NoResponse]
          /\ main' = "filter"
  /\ listening' = (main' = "filter")
  /\ reports' = IF listening' THEN reports ELSE <<>>
  /\ UNCHANGED <<options, early, radio, made>> /\ ButListening

\* create_filter_output divides by the decimation ratio.
CreateFilter ==
  /\ main = "create"
  /\ IF radio.decimate = 0 THEN main' = "crashed" /\ UNCHANGED filter
     ELSE /\ filter' = [decimate |-> radio.decimate, isb |-> radio.isb, response |-> NoResponse]
          /\ main' = "filter"
  /\ listening' = (main' = "filter")
  /\ reports' = IF listening' THEN reports ELSE <<>>
  /\ UNCHANGED <<options, early, radio, made>> /\ ButListening

\* set_filter reads its arguments and works out the response, ...
MakeResponse ==
  /\ main = "filter"
  /\ made' = ResponseTo(radio)
  /\ main' = "swap"
  /\ touched' = (touched /\ filter.isb # radio.isb)
  /\ UNCHANGED <<frontVars, budget, options, early, radio, filter, thread, overlap,
                 users, told, until, hearing, mail, pcmInput>>

\* ... and puts it into use, under the response mutex.
SwapResponse ==
  /\ main = "swap"
  /\ filter' = [filter EXCEPT !.response = made]
  /\ main' = "running" /\ made' = NoResponse
  /\ overlap' = (overlap /\ thread.at # "swap")
  /\ UNCHANGED <<frontVars, budget, options, early, radio, thread, touched,
                 users, told, until, hearing, mail, pcmInput>>

\* proc_samples, at the end of every block.
NextBlock ==
  /\ main = "running" /\ filter.isb # radio.isb
  /\ filter' = [filter EXCEPT !.isb = radio.isb]
  /\ UNCHANGED <<main, options, early, radio, made>> /\ MainUnchanged

Main ==
  \/ OpenSockets \/ CheckStatus \/ OpenInput \/ ReadOption \/ ResetGain
  \/ CreateFilter \/ MakeResponse \/ SwapResponse \/ NextBlock

-----------------------------------------------------------------------------
(* The status thread: send_status *)

Step(from, to) == listening /\ thread.at = from /\ thread' = [thread EXCEPT !.at = to]

ThreadUnchanged ==
  UNCHANGED <<device, up, gains, hw, signal, level, fresh, ordered, table, counter,
              orders, listening, budget, options, early, made, hearing, mail, pcmInput>>

TakeStatus ==
  /\ listening /\ thread.at = "select" /\ reports # <<>>
  /\ thread' = [thread EXCEPT !.at = "address", !.packet = Head(reports)]
  /\ reports' = Tail(reports)
  /\ UNCHANGED <<main, radio, filter, overlap, touched, users, told, until>>
  /\ ThreadUnchanged

(* decode_sdr_status, in the order in which the front ends send the items *)

DecodeAddress ==
  /\ Step("address", "rate")
  /\ radio' = IF "dest" \notin DOMAIN thread.packet THEN radio
              ELSE [radio EXCEPT !.address = DecodedSocket(thread.packet["dest"], @)]
  /\ UNCHANGED <<reports, main, filter, overlap, touched, users, told, until>>
  /\ ThreadUnchanged

NewRate == /\ "rate" \in DOMAIN thread.packet
           /\ DecodedInt(thread.packet["rate"]) # radio.rate

DecodeRate ==
  /\ Step("rate", IF NewRate THEN "derive" ELSE "rest")
  /\ radio' = IF NewRate THEN [radio EXCEPT !.rate = DecodedInt(thread.packet["rate"])]
              ELSE radio
  /\ UNCHANGED <<reports, main, filter, overlap, touched, users, told, until>>
  /\ ThreadUnchanged

\* The oscillators and what else depends on the rate.  The front end keeps
\* its rate, so there is no filter yet, or main has just made it and gives it
\* the same response.
DeriveFromRate ==
  /\ Step("derive", "rest")
  /\ radio' = [radio EXCEPT !.decimate = radio.rate \div OutRate]
  /\ UNCHANGED <<reports, main, filter, overlap, touched, users, told, until>>
  /\ ThreadUnchanged

\* The gain, which the samples are divided by.
DecodeRest ==
  /\ Step("rest", "broadcast")
  /\ radio' = IF "gain" \notin DOMAIN thread.packet THEN radio
              ELSE [radio EXCEPT !.gain = DecodedInt(thread.packet["gain"])]
  /\ UNCHANGED <<reports, main, filter, overlap, touched, users, told, until>>
  /\ ThreadUnchanged

BroadcastStatus ==
  /\ listening /\ thread.at = "broadcast"
  /\ thread' = [thread EXCEPT !.at = "commands", !.packet = NoItems]
  /\ main' = IF main = "asleep" THEN "wait" ELSE main
  /\ UNCHANGED <<reports, radio, filter, overlap, touched, users, told, until>>
  /\ ThreadUnchanged

(* decode_radio_commands: the edges are copied first and written back last *)

TakeCommand ==
  /\ listening /\ thread.at \in {"select", "commands"} /\ users # <<>>
  /\ LET command == Head(users)
         edges   == DOMAIN command \cap Edges
     IN  /\ thread' = [thread EXCEPT
              !.at = IF edges = {} THEN "send" ELSE "edges",
              !.edges = [e \in Edges |-> IF e \in edges THEN command[e] ELSE radio[e]]]
         /\ radio' = IF "isb" \in DOMAIN command THEN [radio EXCEPT !.isb = command.isb]
                     ELSE radio
         /\ touched' = (touched \/ radio'.isb # radio.isb)
  /\ users' = Tail(users)
  /\ until' = 0
  /\ UNCHANGED <<reports, main, filter, overlap, told>> /\ ThreadUnchanged

\* set_filter does nothing when there is no filter yet.
SetEdges ==
  LET asked == thread.edges
      valid == asked["low"] <= asked["high"]
  IN  /\ listening /\ thread.at = "edges"
      /\ radio' = IF valid THEN With(asked) ELSE radio
      /\ thread' = IF valid /\ filter # NoFilter
                   THEN [thread EXCEPT !.at = "swap", !.made = ResponseTo(asked)]
                   ELSE [thread EXCEPT !.at = "send"]
      /\ overlap' = (overlap \/ (valid /\ main = "swap"))
      /\ touched' = (touched /\ (thread'.at = "swap" => filter.isb # radio.isb))
      /\ UNCHANGED <<reports, main, filter, users, told, until>>
      /\ ThreadUnchanged

SwapNewResponse ==
  /\ listening /\ thread.at = "swap"
  /\ thread' = [thread EXCEPT !.at = "send", !.made = NoResponse]
  /\ filter' = [filter EXCEPT !.response = thread.made]
  /\ overlap' = (overlap /\ main = "swap")
  /\ UNCHANGED <<reports, main, radio, touched, users, told, until>>
  /\ ThreadUnchanged

\* Nothing (more) to do: 120 ms without a packet, or a status and no command.
NoCommand ==
  /\ \/ Step("select", "send") /\ reports = <<>> /\ users = <<>>
     \/ Step("commands", "send")
  /\ UNCHANGED <<reports, main, radio, filter, overlap, touched, users, told, until>>
  /\ ThreadUnchanged

\* send_radio_status: of its items, the address of the audio.  The programs
\* that read it keep up.
SendRadioStatus ==
  LET packet == Compacted([dest |-> told], [dest |-> PcmAddress], until = 0)
  IN  /\ Step("send", "select")
      /\ \A p \in Programs : Len(mail[p]) < QueueSize
      /\ told' = PcmAddress
      /\ until' = IF until <= 0 THEN FullEvery ELSE until - 1
      /\ \/ /\ mail' = [p \in Programs |->
                         IF p \in hearing THEN Append(mail[p], packet) ELSE <<>>]
            /\ UNCHANGED budget
         \/ Spend("losses") /\ UNCHANGED mail
      /\ UNCHANGED <<frontVars, main, options, early, radio, filter, made, overlap,
                     touched, users, hearing, pcmInput>>

StatusThread ==
  \/ TakeStatus \/ DecodeAddress \/ DecodeRate \/ DeriveFromRate \/ DecodeRest
  \/ BroadcastStatus \/ TakeCommand \/ SetEdges \/ SwapNewResponse \/ NoCommand
  \/ SendRadioStatus

GiveCommand ==
  /\ listening /\ Spend("commands")
  /\ \E command \in Commands : users' = Append(users, command)
  /\ UNCHANGED <<frontVars, main, options, early, radio, filter, made, thread,
                 overlap, touched, told, until, hearing, mail, pcmInput>>

-----------------------------------------------------------------------------
(* packet and opus *)

\* A program's sockets: for the audio, if it was given the address (--pcm-in)
\* and that can be joined, and for radio's statuses (--status-in).
Sockets(p, address, hears) ==
  /\ p \in budget.programs /\ pcmInput[p] = Off
  /\ pcmInput' = [pcmInput EXCEPT ![p] = address]
  /\ hearing' = IF hears THEN hearing \cup {p} ELSE hearing
  /\ UNCHANGED <<frontVars, receiverVars, mail>>

Given(p) == p \in budget.given

\* packet ignores --status-in after a good --pcm-in.
StartPacket ==
  \/ Sockets("packet", NoAddress, TRUE) /\ ~Given("packet") /\ UNCHANGED budget
  \/ Sockets("packet", NoAddress, TRUE) /\ Given("packet") /\ Spend("failures")
  \/ Sockets("packet", PcmAddress, FALSE) /\ Given("packet") /\ UNCHANGED budget

\* opus goes on reading statuses, and announces itself at each of them.
StartOpus ==
  \/ Sockets("opus", NoAddress, TRUE) /\ ~Given("opus") /\ UNCHANGED budget
  \/ Sockets("opus", NoAddress, TRUE) /\ Given("opus") /\ Spend("failures")
  \/ Sockets("opus", PcmAddress, TRUE) /\ Given("opus") /\ UNCHANGED budget

\* Only the first address is joined, and when that fails the next one.
Joined(p, packet) ==
  IF pcmInput[p] = NoAddress /\ "dest" \in DOMAIN packet
  THEN DecodedSocket(packet["dest"], NoAddress) ELSE pcmInput[p]

JoinAudio(p) ==
  /\ mail[p] # <<>> /\ mail' = [mail EXCEPT ![p] = Tail(@)]
  /\ \/ pcmInput' = [pcmInput EXCEPT ![p] = Joined(p, Head(mail[p]))] /\ UNCHANGED budget
     \/ Joined(p, Head(mail[p])) # pcmInput[p] /\ Spend("failures") /\ UNCHANGED pcmInput
  /\ UNCHANGED <<frontVars, receiverVars, hearing>>

-----------------------------------------------------------------------------
OthersUnchanged == UNCHANGED <<receiverVars, hearing, mail, pcmInput>>
FrontEndStep == FrontEndNext /\ OthersUnchanged

StartUpInit ==
  /\ FrontEndInit
  /\ main = "off" /\ options \in budget.options /\ early = FALSE
  /\ radio = [address |-> NoAddress, rate |-> 0, decimate |-> 0, gain |-> 0,
              low |-> -8, high |-> 8, isb |-> FALSE]
  /\ filter = NoFilter /\ made = NoResponse
  /\ thread = [at |-> "off", packet |-> NoItems, edges |-> [e \in Edges |-> 0],
               made |-> NoResponse]
  /\ overlap = FALSE /\ touched = FALSE /\ users = <<>>
  /\ told = <<>> /\ until = 0
  /\ hearing = {} /\ mail = [p \in Programs |-> <<>>] /\ pcmInput = [p \in Programs |-> Off]

StartUpNext ==
  \/ FrontEndStep
  \/ Main \/ WakeForNothing
  \/ StatusThread \/ GiveCommand
  \/ StartPacket \/ StartOpus \/ \E p \in Programs : JoinAudio(p)

\* Every thread gets on while it has something to do, transfers take place,
\* and what has stopped is started again.
StartUpFairness ==
  /\ WF_startUpVars((ObeyOrder \/ NoOrder \/ StartFrontEnd) /\ OthersUnchanged)
  /\ WF_startUpVars(Measure /\ OthersUnchanged)
  /\ WF_startUpVars(Main) /\ WF_startUpVars(StatusThread)
  /\ WF_startUpVars(StartPacket) /\ WF_startUpVars(StartOpus)
  /\ \A p \in Programs : WF_startUpVars(JoinAudio(p))

StartUpSpec == StartUpInit /\ [][StartUpNext]_startUpVars /\ StartUpFairness

-----------------------------------------------------------------------------
(* Properties *)

(* An AGC that works on a measurement of the present signal and gains, and *)
(* whose gains nobody has ordered, never goes past the near edge of its    *)
(* window: what one stage takes of a change, the next does not take again. *)
NoOvershoot ==
  [][(fresh /\ up /\ up' /\ ~ordered' /\ hw' # hw) =>
       IF level > Upper THEN signal + Sum(hw') >= Upper
                        ELSE signal + Sum(hw') <= Lower]_startUpVars

\* A level that no stage has a step for.  The HackRF's steps are so coarse
\* that it may stay above the window with gain left.
TooStrong == /\ level > Upper /\ hw["if"] = 0
             /\ \/ hw["mixer"] = 0 /\ (hw["lna"] = 0 \/ level < Upper + 14)
                \/ device = "hackrf" /\ level < Upper + 8
TooWeak == level < Lower /\ hw = IF device = "hackrf" THEN Gains(14, 40, 62)
                                                      ELSE Gains(15, 15, 15)
InWindow == level >= Lower - 1 /\ level <= Upper + 1

(* Whatever it did first, on no power at all or on an old measurement, the *)
(* AGC brings a signal that stays as it is into its window for good, or as *)
(* near as the stages go, unless somebody has ordered a gain that the      *)
(* device was never told of.                                               *)
AgcSettles == <>[](ordered \/ InWindow \/ TooStrong \/ TooWeak)

(* The filter radio makes fits the sample rate of the front end, and radio *)
(* divides by a ratio of zero only if main went on between the rate and    *)
(* the ratio, or the front end is slower than the audio.                   *)
FilterFits ==
  /\ filter # NoFilter => filter.decimate = Samprate \div OutRate
  /\ main = "crashed" => early \/ Samprate < OutRate

(* However main's set_filter, options, commands and blocks are interleaved:*)
(* - the response in use is of the edges last set, except after edges that *)
(*   were set during main's set_filter and whose response main's has       *)
(*   replaced (H12); the next edges put that right;                        *)
(* - the output is that last chosen and the response is scaled for it,     *)
(*   except from a command that changes it to the first set_filter after   *)
(*   the output has followed, at the end of a block (H11).                 *)
FilterAsAsked ==
  (main = "running" /\ thread.at # "swap") =>
    /\ ~overlap => /\ filter.response.low = radio.low
                   /\ filter.response.high = radio.high
    /\ ~touched => filter.response.isb = filter.isb /\ filter.isb = radio.isb

(* radio divides by the gain the front end reports: what main overwrites   *)
(* and what is lost is made good by the next full status.                  *)
GainFollows == <>[](listening => radio.gain = Sum(gains))

(* In whatever order the programs are started, and whatever of the first   *)
(* statuses is lost, or cannot be acted on, radio starts and the programs  *)
(* behind it find their audio, unless radio could not open its sockets, or *)
(* has divided by a ratio that was not there yet (H13).                    *)
ChainComesUp ==
  <>(\/ ~budget.receiver \/ main = "exited" \/ (main = "crashed" /\ early)
     \/ main = "running" /\ \A p \in budget.programs : pcmInput[p] = PcmAddress)
=============================================================================
