# ka9q-radio in TLA+

ka9q-radio is a set of programs for software-defined radio that talk to each
other in RTP streams and status packets over IP multicast.  A *front end*
(`funcube`, `hackrf`, `airspy`, `iqplay`) turns a tuner's samples into an I/Q
stream; `radio` tunes, filters and demodulates it into a PCM stream; receivers
(`monitor`, `opus`, `packet`, `pcmcat`, `iqrecord`, ...) play, encode, decode or
store it; the user interface (`control`) sends commands and shows status.
Nothing is acknowledged, every packet may be lost, repeated or overtaken, and
inside each program several threads share state under few locks.

This directory models that behaviour in TLA+, checks it with TLC and proves part
of it with TLAPS.

    tlc -config MCBlockPipeline.cfg MCBlockPipeline.tla     # a run
    tlapm BlockPipelineProofs.tla                           # a proof

`PROJECT.json` lists the runs, a mutant for every property (a plausible bug that
makes TLC report the property violated), the source lines each definition
translates, the hazards and the theorems.


## 1. The system

| Component | State it keeps | Operations | Talks to |
|---|---|---|---|
| Front end `funcube` (`funcube.c`, `fcd.c`) | RTP seq/timestamp, tuner frequency and gains, `State[]` of what was last reported, full-status counter | main loop: read samples, send a packet; `ncmd` thread: receive a command or time out after 100 ms, obey, send delta or full status | I/Q stream and status to `radio`; commands from `radio`, `control` |
| Front ends `hackrf`, `airspy` | the same, and a ring of raw samples with a write and a read pointer, `Buf_mutex`, `Buf_cond` | `rx_callback` on the USB library's thread fills the ring; main waits, decimates, sends | ditto |
| RTP reception (`rtp_process`, `multicast.c`) | `struct rtp_state`: ssrc, init, seq, timestamp, packets, drops, dupes | one call per packet, returns the number of missing samples, or -1 | every receiver calls it |
| `radio`: I/Q input (`proc_samples`, `radio.c`) | sample count, position in the filter block, oscillators | per packet: check, fill a gap with zeroes, mix, hand each full block to the filter | master half of the filter |
| `radio`: filter (`filter.c`) | master block number and spectrum; slave block number, response, output arrays; `filter_mutex`, `filter_cond`, `response_mutex` | `execute_filter_input`, `execute_filter_output`, `set_filter` | between proc_samples and the demodulators |
| `radio`: demodulators (`fm.c`, `linear.c`) | squelch, PLL and AGC state | one thread each; the active one waits for a block, demodulates, sends PCM | slave half of the filter, PCM output |
| `radio`: tuning (`radio.c`) | frequency, second LO, Doppler, shift | `set_freq`, `set_first_LO`, `set_second_LO` | command packets to the front end |
| `radio`: status thread (`radio_status.c`, `status.c`) | last reported parameters, full-status counter | decode front-end status, decode commands, report every 120 ms | front end, `control` |
| `radio`: PCM output, RTCP (`audio.c`, `rtcp.c`) | output seq, timestamp, silence | send mono/stereo, skip silence; a sender report each second | the receivers |
| `monitor` | list of sessions, a sorted packet queue in each, a ring of mixed audio with a read pointer | receive threads, one decoder thread per session, the audio callback, the display (which deletes sessions) | PCM and Opus streams |
| `opus`, `pcmcat` | session list, frame in progress | per packet: find or create the session, gather frames, encode or copy | PCM in, Opus or standard output out |
| `opussend`, `pcmsend` | a ring of captured audio with a write and a read pointer | the sound card's callback fills the ring; main polls and sends a frame at a time | Opus or PCM out |
| `packet` | session list, a filter per session, HDLC receiver (bit stuffing, frame buffer) | input thread, a decoder thread per session; the main thread listens for the address of the audio | PCM and radio's status in, AX.25 frames out |
| `aprsfeed` (`aprs` only prints) | one TCP connection | resolve, connect, log in, relay, start again | AX.25 frames in, an APRS server |
| `iqrecord`, `iqplay` | session list, a file and position each; sequence number and timestamp | store packets, flush at a signal; send files as one stream, report, count commands | I/Q streams |
| USB HID library (`hid-libusb.c`) | one transfer, a queue of reports, `shutdown_thread`, `cancelled` | open, write, read with or without a limit, close; a read thread and its callback | `funcube`'s control thread, the dongle |
| `control`, `metadump`, `doppler` (`display.c` is not in the Makefile's list) | a copy of the parameters last seen | keyboard to command packets, of what a key has changed; status packets into the copy | `radio`, front ends |

**Hard behaviours.**

* Both demodulator threads exist all the time and use ONE slave filter and ONE
  RTP output state, which no mutex covers; a change of mode can happen while the
  old one works.  The spectrum of the master is read without the master's lock.
* `rtp_process` must keep a receiver's clock on the sender's clock through loss,
  duplication, reordering, wrap-around and restarts of the sender.
* `radio` sets its own oscillator for a tuner frequency it has only asked for;
  several commands, late statuses and other programs interfere.
* The USB callback writes the ring and broadcasts with no mutex held, and nobody
  tests whether the ring has overflowed.
* `monitor` looks up and creates sessions in two separately locked steps from two
  receive threads, the display frees sessions, and playout compares timestamps
  with a read pointer that another thread moves.
* Silence suppression, markers and send errors decide what a receiver takes for
  loss.
* `radio` reports mostly what has changed since its last report, whoever got that,
  and `control` sends only what differs from its own copy: each side relies on
  what the other may not know.

* The FUNcube's control thread asks and waits through a library whose read thread,
  transfer callback and close race; answers come late, or not at all, or the dongle is
  pulled out.
* At start-up `main` of `radio` reads what its status thread is writing, and both make
  the filter; programs learn addresses from packets of which one in eleven has them.
* An AGC works on a measurement that another thread makes, before there is any.
* `iqrecord` ends by a signal between any two steps; `aprsfeed` loses its server.

**What makes each part correct.**

* *I/Q path*: the sample count and the filter's block boundaries are the
  stream's own time; no sample is used twice; every sequence number is accounted
  for once.
* *Filter and demodulators*: no block is used twice, none is forgotten by a
  sleeping thread, what is demodulated is one whole block, audio leaves in order,
  and the thread of a newly chosen mode does take over.
* *Tuning*: once things have settled, the receiver is on the operator's
  frequency, and inside the band of the front end; and things do settle.
* *Sample ring*: what is sent was stored, in order, at the place its timestamp
  tells; a packet can always be completed; a lost wakeup is made good.
* *PCM output and receivers*: a receiver's clock is the sender's through silence;
  a step of time with nothing missing is silence and is marked; no audio is played
  at the wrong time.
* *Remote control*: the steps of an arrow key add up, a mode sets what it says, and
  every display comes to show what the radio does.
* *Sessions*: one session per sender, none lost from the list, none used after it
  has been freed.
* *Packet radio*: a frame that the decoder has had whole is sent on, in order, once;
  an outage of the server costs at most what its connection holds and one frame more, and
  nothing waits for ever.
* *Front-end control*: a status tells the truth about the dongle; every read and every
  close comes to an end.
* *Gain control*: no stage takes what another has taken; the level settles.
* *Start-up*: in whatever order programs start, and whatever status is lost, the filter
  fits the sample rate, and everybody finds the audio.
* *Recording*: a file holds one stream, byte for byte if nothing disturbed it; no
  recording is spoilt by a later one or by the end of the program; a replay keeps the
  time of the original.


## 2. Modules

| Module | Models | Runs | Proofs |
|---|---|---|---|
| `LatestBlock` | abstract: a mailbox for the newest block, with any number of readers | refined by `BlockPipeline` | |
| `BlockPipeline` | filter, demodulator threads, mode changes | `pipeline` | `BlockPipelineProofs` |
| `RtpState` | `rtp_process`, used by the modules of receivers | | in those of its users |
| `RtpInput` | front-end I/Q stream, network, `proc_samples` | `rtp_input` | `RtpInputProofs` |
| `PcmStream` | audio blocks cut into packets, silence, network, Opus framing | `pcm_stream` | `PcmStreamProofs` |
| `MonitorPlayout` | packet queue, decoder thread and audio callback of one session of `monitor` | `monitor` | `SampleRingProofs` |
| `MonitorSessions` | session list of `monitor`: receive, decoder and display threads | `sessions` | `PcmStreamProofs` |
| `ReceiverSessions` | extends it: session list of `opus`, the one stream of `pcmcat` | `sessions` | `PcmStreamProofs` |
| `Tuning` | `set_freq` and friends against the front end's command thread | `tuning` | `TuningProofs` |
| `RemoteControl` | `control` programs against radio's status thread | `control` | `TuningProofs` |
| `SampleRing` | USB callback and main thread of `hackrf`/`airspy` | `sample_ring` | `SampleRingProofs` |
| `AudioCapture` | extends it: sound card callback and main thread of `opussend`/`pcmsend` | `sample_ring` | `SampleRingProofs` |
| `HidDevice` | the USB HID library around one device | `funcube_control` | `FuncubeProofs` |
| `FuncubeControl` | extends it: exchanges with the dongle, and the control thread made of them | `funcube_control` | `FuncubeProofs` |
| `StatusPacket` | encoding, decoding and compaction of status packets | `startup` | lemmas in `BlockPipelineProofs` |
| `FrontEnd` | command thread and AGC of `hackrf`/`airspy` | `startup` | `BlockPipelineProofs` |
| `StartUp` | extends it: `radio`'s main and status threads, `packet` and `opus` finding the audio | `startup` | `BlockPipelineProofs` |
| `Recorder` | senders, network, `iqrecord` and its files | `recording` | `PlayerProofs` |
| `Player` | extends it: `iqplay` with those files, its reports and a listener | `recording` | `PlayerProofs` |
| `PacketReceiver` | transmitters, network, `packet` | `packet_radio` | lemmas in `BlockPipelineProofs` |
| `AprsFeed` | extends it: `aprsfeed` with those frames, and the server | `packet_radio` | `BlockPipelineProofs` |

`ModularArithmetic` has the lemmas on division with remainder, on casts to a signed
width and on numbers that wrap, and the least element of a set of naturals
(`LeastNatural`), which gives the induction that the provers lack; the proofs about
rings, RTP, files and lists share them.
Each `MC...` module extends the module it is named for; the `.cfg` gives the
constants.  In every component module the operators commented *Mutant* are not
part of the specification: they are the plausible bugs of `PROJECT.json`.

### BlockPipeline (`filter.c`, `fm.c`, `linear.c`, `radio.c:186-198`, `radio_status.c:246-255`)

A demodulator's program counter `phase[d]` follows the loop of `demod_fm` and
`demod_linear`: test `demod_type` (`check`, `parked`), wait for a block in
`execute_filter_output` (`poll`, `asleep`, `claimed`), multiply spectrum and
response under `response_mutex` (`multiply`), inverse FFT (`inverse`), demodulate
and send (`demodulate`).  `inputPhase` follows `execute_filter_input`: the forward
FFT runs before `filter_mutex` is taken (`transform`), then the block is counted
and broadcast (`Publish`).  A critical section that cannot block is one step; the
long computations are two, with the arrays torn in between: an array holds the
number of the block its contents belong to, or `Torn`, and `work[d]` is the block
a thread is really using.  `SetDemodType` is the mode change with its broadcast,
`SpuriousWakeup` what POSIX allows.

`late` remembers that a forward FFT began before every thread had finished with
the previous block.  It is not a guard: the system may be late, skip blocks and
recover, and all properties without `WhenOnTime` in their name hold regardless.
The ones with it say exactly what the missing locks cost: they hold as long as the
demodulators keep up, which is what the program relies on.

`LatestBlock` is the promise without the mechanism.  It has no number that readers share:
each reader has the block it was handed last and whether it still works on it, and may be
handed the newest only if no reader ever was.  `blocknum` of the one slave, which all
demodulator threads test and set, must give just that: a thread that goes on after a
wakeup without testing again (`ClaimUntested`) takes a block that another has, which no
step of `LatestBlock` allows.

### RtpState (`multicast.c:334-369`)

`struct rtp_state` and what `rtp_process` makes of it, with `SeqMod` for 65536 and
`TimeMod` for 2^32: operators on records, one for each return of the function.
`Processed` composes them for callers that do not care which return it was.

### RtpInput (`funcube.c:324-406`, `radio.c:37-205`)

A packet is the run of the front end and its index; the receiver sees its SSRC,
its sequence number modulo `SeqMod` and its timestamp modulo `TimeMod`.  The
network loses up to `MaxGap` packets in a row, makes `MaxCopies` copies and
reorders within `Window` packets; the assumptions say that both together stay
within half of the sequence numbers, which 65536 leave ample room for, and that
these many packets do not exhaust the timestamps, which holds for any packet of
fewer than 65536 samples (`RtpAssumption`).
`Receive` splits by the verdict of `rtp_process` as the code does: old sequence
number, old timestamp, a jump `radio` refuses (after `rtp_process` has already
moved on), or acceptance with a gap of zeroes.  `recent` is what proc_samples has put into
the filter, sample for sample, counted from the last one back: the buffer and the blocks
just run (`Pour`, which does a gap and a packet at once and runs the filter wherever the
buffer is full).  `Restart` gives the front end a
new SSRC or the same one (option `-S`).

### Tuning (`radio.c:254-336`, `radio_status.c:219-455`, `funcube.c:436-591`)

radio's side is one thread, so each command and each status is one step.
`Retune` is `set_freq` from the choice of LO2 on: the command goes out (or is
lost), LO2 is set at once.  The front end obeys a command (`ObeyCommand`) or
times out (`Report`), and in both cases sends what `compact_packet` would: the
frequency if it has changed or the status is full.  `Actual` is the tuner's
quantization.  `astray`
marks that LO2 was set for a first LO that is not to come (a lost command, an
intervening one, another program on the tuner); `choice` whether `set_freq` knew
the first LO when it chose LO2.

### SampleRing (`hackrf.c:442-595,822-919`, `airspy.c:471-562`)

Samples are numbered as they come from the A/D converter.  `StoreSample` stores
one, without a lock, at any moment; `EndCallback` broadcasts, without the mutex
either, so that it can fall between main's `Test` and `Block`.  main reads the ring
in chunks that stop at its end.  `late` says that the ring has been full.

### AudioCapture (`opussend.c:180-373`, `pcmsend.c:205-270`)

The callback stores sample by sample (`StoreAudio`); since `Wptr` is an ordinary variable,
main may see it move at any time up to the callback's end (`MovePointer`).  main finds a
frame ready (`FrameReady`), takes it sample by sample (`CopySample`) and sends it
(`SendOpus`, which may leave out a silent frame, or `SendPcm`).  `program` is chosen at the
start, so that one run has the front end's ring or this one, not their product.

### PcmStream (`fm.c:136-140`, `audio.c:85-135`, `multicast.c:334-369`, `opus.c:303-538`)

A sample is its number.  `StartBlock` is a block of audio from the demodulator, and a turn
of the loop of `send_mono_output` is `SendChunk`, a packet, `Suppress`, silence that only
moves the timestamp, or `FailChunk`, a call of send that fails and drops the rest of the
block.  The network loses, repeats and reorders packets.  `Input` is one packet in the Opus
transcoder: `rtp_process`, then the test for a talk spurt that resets the encoder, then
`send_samples` for each sample, which is `Gather` when no frame is completed and `Encode`
when one is, or several: at 48 kHz a packet has up to 480 samples and a frame, by the
option `-B`, from 120 (2.5 ms) to 5760.  With `-x` any of the frames may be left out.

### MonitorPlayout (`monitor.c:298-384`, `387-422`, `455-565`, `735-745`)

One session.  `Enqueue` sorts a packet into the queue by its raw sequence number.
The decoder takes the head (`Take`), keeps the distance of the packets by
their timestamps (`Keep`) or places anew the playout delay after the read pointer (`Resync`,
then `PlaceAnew`, because the code reads `Rptr` twice), and adds the samples one by
one to the ring (`WriteSample`).  The callback (`FirstChunk`, `SecondChunk`) plays
and clears part of the ring at any point of that, and `Reset` is the operator's key.
The ring remembers which round a sample was meant for.

### MonitorSessions (`monitor.c:303-382`, `425-467`, `700-825`)

`sess[i]` is the session at a place in memory, which is free or used again after
`Close`.  A receive thread looks a session up (`Receive`), or links a new one at the
end of the list (`Create`) and gives it a mutex and a decoder (`Start`), then queues
the packet (`Insert`).  The decoder waits, works and ends in one of two ways: after a
test of `terminate`, or cancelled in `pthread_cond_wait`, which leaves `qmutex` locked.
The display moves its cursor, deletes (`Delete`: terminate and cancel; `Close`: join,
unlink, free).  `clashed` remembers that a receive thread had hold of a session while
it was deleted: from there on it may wait for ever or feed another stream's
decoder, and `Insert` has both outcomes.  Deleting a session whose thread has not been
created yet crashes the program.

### ReceiverSessions (`opus.c:346-353,425-493`, `pcmcat.c`)

`node[i]` is a session of `opus` or `pcmcat` with its two pointers.  `LookUp` moves it to
the front by the assignments of the code, which leave the old front without a `prev`;
`Make` puts a new one there; `CloseDown` frees the head again and again.  `CatReceive` is
a turn of pcmcat's loop: a stream that is not the one it has is ignored, and what
`rtp_process` accepts is written.  Which of the programs runs is chosen at the start.

### RemoteControl (`control.c`, `radio_status.c:52-217`, `status.c:157-184`)

Parameters are one of each kind: `freq` for what an operator adjusts, `tuner` for
what changes by itself, `demod` and `pll`, which is reported in linear mode only,
`square`, which is reported only with the PLL on, and `env`, which a control never
decodes.  `view[c]` is the copy of control `c`; `Press` is what main does after a
key has changed the copy (send the differences), `Receive` overwrites the copy.
`SendRadioStatus` is the tail of radio's loop: delta or full report, `State[]` updated
whoever gets the packet.  `expected` is history: what frequency the keys pressed
should give as long as no control worked from an old one.

### HidDevice and FuncubeControl (`hid-libusb.c:446-1190`, `fcd.c`, `funcube.c:436-769`)

The library keeps one interrupt transfer; `urb` is where it is (flying, cancelled, in
its callback).  The callback is split at its accesses to shared variables (`Received`,
`TransferEnds`, `Resubmit`), so is `hid_close` (`BeginClose` sets `shutdown_thread` and
cancels, `FinishClose` joins and frees) and the read thread's end (`LeaveLoop`,
`StopThread`).  A read tests the queue under the mutex (`TestQueue`), waits (`Wait`), and
with a limit gives up (`ReadTimesOut`).  On top, the control thread works through lists of
exchanges `todo`: front-end initialisation, what a packet commands, readback, the AGC.  An
exchange is `WriteCommand` and a read; setting the frequency repeats it (`Retry`).  The
dongle answers in order, may drop a command that is waited for with a limit, may answer
late, may be pulled out, or be changed by another program.  `sure` is history: nothing
failed since readback began and no late answer can still come.

### StatusPacket, FrontEnd and StartUp (`status.c`, `hackrf.c`, `airspy.c`, `main.c`, `radio_status.c`, `packet.c:94-258`, `opus.c:112-278`)

A packet has the bytes of each type that is in it: zero has none, addresses have six.
`EncodedInt` and `DecodedInt` move a number down and up again byte by byte, as the code
does.
`Compacted` and `Remembered` are the two halves of `compact_packet`.  `FrontEnd` is one
pass of `ncmd` per step (a command is stored but never sent to the device; a status; the
AGC), with the transfer callback (`Measure`) at any time between; `gains` is what the
program believes, `hw` what the device was told.  Both AGCs are in, stage by stage, with
the infinite change they work out before there is any power: what a processor makes of it
is a choice.  In `StartUp`, `main` and `thread` are where radio's two threads are; the
status thread's decoding is split where another thread reads what it writes, and `set_filter`
into its computation and its swap.  For three cases the code is known to go wrong
(section 5), and what the properties except is no wider than these: `early` remembers that
main went on while the status thread was between the rate and the ratio; `overlap` is true
from edges set during main's `set_filter`, whose response main's replaces, to the next
edges; `touched` is true from a command that changes the output type to the first
`set_filter` that is called after the output has followed at the end of a block.

### Recorder and Player (`iqrecord.c:80-323`, `iqplay.c:160-359`, `attr.c`)

A byte of a file is the stream, frequency and place it comes from, or a hole.  One packet
is up to four steps (find or make the session, open a file, write attributes, seek and
write), and a signal may end the program between any two: `cleanup` then flushes each file,
or dies at a session that has none.  The program can also be killed; what the library has
buffered may then be lost.  iqplay plays any of the files one after the other; its thread
reports with full and delta packets to a listener that misses some.

### PacketReceiver and AprsFeed (`packet.c:266-543`, `ax25.c:138-210`, `aprsfeed.c:117-285`)

Time is in bits: a tone per bit.  Transmitters stuff zeroes and put flags between frames.
The input thread cuts accepted packets into blocks of a filter, closing gaps up; the decoder
takes the latest block, if it is late it misses some, and steps `Bit` by bit through flags,
ones and zeroes (`DecodedUpto`).  `due` is history: the frames whose tones it has had whole from flag to
flag.  A frame goes to the socket of `aprsfeed`, which parses its address fields, refuses or
relays.  What `fprintf` has written is on `wire` until TCP delivers it (`Deliver`).  When the
server goes away (`Outage`) the connection is `"gone"`: what is on `wire` will not arrive, but
writes go on to succeed, one after the other, until a reset arrives or TCP gives up sending
again (`Break`), whenever that is; only the buffers bound them, for a write that finds them
full waits (`SendBuffer` is how many frames they hold).  `Retry` is what follows a write
that fails.  The login line is a write like the others, except that it is not counted.


## 3. What the runs check

All runs hold.

| Run | Bounds | What it shows |
|---|---|---|
| `pipeline` | two demodulators, 4 blocks | no lost wakeup, one user and whole blocks unless late, every block taken or overtaken, mailbox refinement: no block handed out or sent twice |
| `rtp_input` | sequence numbers mod 6, timestamps mod 24, packets of 3 samples, blocks of 4, gaps of up to 4 filled, 6 packets per run, 2 runs | sample count and sequence account are the stream's, and each sample in the filter is at its place; no sample twice |
| `tuning` | 3 frequencies, 2 second LOs, queues of 2, 3 commands, one foreign retune | settled means tuned; an LO2 chosen on good knowledge has the passband in band, at once and when settled; it settles |
| `sample_ring` | a front end: ring of 16, packets of 3 x 2 samples, 8 transfers of 5; or audio: ring of 16, frames of 3, 36 samples | contents match timestamps unless the ring was full, the next callback makes a lost wakeup good; a frame of audio is one piece unless nearly half a ring is captured meanwhile, and matches its timestamp unless main has been half a ring late |
| `pcm_stream` | 3 blocks of 4 samples, packets of 3 and 1, frames of 2 (a packet completes none, one or two), up to 4 silent samples, sequence numbers mod 6, timestamps mod 16, one lost, one copied, one failed send, 2 packets in flight | frames hold audio in order and just the frames are marked that should be; a step of time with nothing missing is silence |
| `monitor` | 3 packets of 2 samples, a ring of 8, sequence numbers mod 8 from 7 and timestamps mod 128 from 125, 4 callbacks, 1 reset | samples are played in the round meant; packets keep the distance of the stream |
| `sessions` | monitor: 2 receive threads, 3 streams of 2 senders, 3 places in memory, 3 packets, 2 deletions; opus or pcmcat: 6 packets of these streams, at most one lost in a row or late, sequence numbers mod 28 from 26 | the lists hold every session; decoders get their own packets; pcmcat writes one stream in order; every packet is taken, unless a receive thread had hold of a session being deleted |
| `control` | 2 controls, modes FM and AM, 2 keys, 2 retunes, 3 of both together, a full report every third | steps add up, displays settle |
| `funcube_control` | a dongle behind two other devices, 2 passes of the loop, 2 troubles (loss, delay, unplugging, another program), 2 tries, at most one report queued | a status that had no trouble is true; a closed device is idle; reads and closes end |
| `startup` | HackRF or Airspy; per behaviour one of eight budgets: a loss, a restart, failing joins (of two programs), changing gains, options and a command, two commands, or the AGC alone with three signals; a full status every second | the filter fits and is as last asked, but for the two cases named; the AGC neither overshoots nor hunts; the gain follows; all programs find their audio |
| `recording` | an I/Q, a mono and an Opus stream of one SSRC, 2, 2 and 1 packets of 2 samples, 2 in flight, one trouble, 2 runs of iqrecord, timestamps mod 32 from 29; then 2 files in blocks of 3, 1 command, 4 reports, a full one every third | a file holds one stream, whole if undisturbed, is never spoilt, and is on disk after a signal; the replay keeps time, as far as half of the numbers reach; a hearer of a full round knows all |
| `packet_radio` | 4 frames of 8 bits (one like a flag, one all ones), packets of 16 bits, blocks of 20, one trouble, a socket of 2, a connection that holds 1, one outage | every whole frame is sent on, in order, once; an outage costs at most what the connection holds and one more; none is relayed that must not be; nothing waits for ever |

**Why the bounds are enough.**  Four blocks let a late thread be overtaken by
two blocks and recover; a third thread would only repeat the second (and the
proofs cover any number).  In `rtp_input` the number spaces are small enough to
wrap inside a run, while the packet, the block and the longest gap divide neither
each other nor the moduli, so every alignment occurs; the session can begin just
before a wrap.  In `tuning` two frequencies can share a first LO and the third
cannot, one LO2 is beyond Nyquist, the tuner's step is not 1, and three commands
allow one that is lost, one that is late and one that corrects.  The ring turns
two and a half times, at an offset that differs each time.  In `monitor` the first
packet has the last sequence number before the wrap and begins before the wrap of
the timestamp, three packets allow one that is lost and two that are swapped, and
the callbacks turn the ring more than once.  In `control` two keys let the operators
collide or one of them step twice, and two retunes with a full report every third
time are two delta reports that undo each other.  In `sessions` all three streams can
be on the list, so that the middle one is deleted, or one is deleted and comes back
at the place of another; the places that nothing points to are interchangeable.
Six packets make opus's three sessions and look up three times: a wrong pointer takes two.
The ring of audio is written more than twice round, so that main can be overtaken twice.
In `funcube_control` one trouble makes an answer late and the other meets what follows; a
second report in the queue would only wait behind the first.  In `startup` troubles come
in budgets because those of different parts do not touch: the AGC does not depend on who
listens, nor the filter on who is told of the audio; the byte has its 256 values, and
integers of 16 bits give the AGC the outcome that 32 bits give.  In `recording` the
timestamps wrap in every stream, the streams differ in one key of a session each, and the
second run meets the files of the first.  In `packet_radio` blocks end inside frames,
flags and stuffed bits, and the fourth frame is there for the decoder to recover by; a
connection that holds one frame lets one write succeed after the server has gone and makes
the next wait, and two frames wait in the socket to be written back to back.

**Deadlock.**  TLC checks deadlock in `pipeline`, `tuning` and `control`.
Elsewhere the cfg says `CHECK_DEADLOCK FALSE`: the bounded supply of packets, transfers,
callbacks, passes or reports runs out, and in `startup` radio may exit for want of a
socket and the front end's status thread then waits for a reader that keeps up.

**Fairness.**

* `BlockPipeline`: weak fairness of each demodulator thread and of a forward FFT
  once begun (they are threads of one process, none of whose steps is disabled
  by others for ever).  No fairness for arriving samples, mode changes and
  spurious wakeups.  `BlocksTaken` assumes the operator leaves the mode alone in
  the end; a thread that keeps waking spuriously still tests in between.
* `Tuning`: weak fairness of radio's status thread and of the front end's command
  thread; strong fairness of a full status that arrives: a network that loses
  every single full status is not one the protocol can work on.
* `SampleRing`: weak fairness of main and of a callback once begun; a transfer
  need not come.
* `RemoteControl`: weak fairness of radio's status thread (it answers commands and
  times out) and of every control's main loop; strong fairness of a full report that
  reaches a control, for the same reason as in `Tuning`.
* `MonitorSessions`: weak fairness of each thread in what it has begun; packets, keys
  and spurious wakeups need not come.
* `FuncubeControl`: weak fairness of the control thread, of the transfer and of the
  dongle's answers; strong fairness of the read thread's steps that need the mutex the
  reader holds again and again (`Received`, `LeaveLoop`, `StopThread`), which a mutex
  gives, and of what shows that a command hangs (`Unanswered`).
* `StartUp`: weak fairness of the front end's command thread (and of its being started),
  of a transfer, of each thread of radio and of the programs.  Losses, stops, options and
  orders need not come.
* `AprsFeed`: weak fairness of the program, of the server's return (what waits while the
  server is away for good waits for good) and of TCP, which delivers what it has taken
  while the server is there, and gives up in the end when there is no answer (`Break`, as
  long as something is on the way; an idle connection may stay as it is for good).
* `RtpInput`, `PcmStream`, `MonitorPlayout`, `Recorder` and `Player` have no liveness
  property and no fairness.  `AudioCapture` and `ReceiverSessions` add no fairness to
  that of `SampleRing` and `MonitorSessions`: what they add is safety.


## 4. What is proved

TLAPS proves these for **every** value of the constants that satisfies the named
assumptions.

* **`BlockPipelineProofs`** (any set of demodulators, any number of blocks):
  types, `NoLostWakeup`, `NoBlockClaimedTwice`, `OneUserWhenOnTime` and
  `IntactWhenOnTime` (together `SafeWhenOnTime`), the action property `InOrderWhenOnTime`,
  and that the shared block numbers implement `LatestBlock`, whose readers share none.
  *Argument*: the numbers only grow and a claim takes one nobody had (`ClaimBounds`): so a claim is the mailbox's `Take` (`ClaimTakes`),
  and every step of a thread that neither claims nor sends is none of its (`GoesOn`,
  `WokenOnly`).  `NoBlockClaimedTwice` is inductive with
  it.  That one thread is inside when on time is not inductive: one has to know
  that while a forward FFT runs on time everybody has finished and caught up, and
  that afterwards a busy thread has the newest block (`OnTime`); and which block
  the spectrum array holds at each point (`SpectrumPhase`).
  The same module has `OutageCostsBuffer` for `aprsfeed` with any frames, transmitters,
  buffers, troubles and outages.  *Argument*: what is lost, and what a broken connection may
  still lose (what its buffers can hold and one write that waits, while nobody has told the
  program; one once it is reset: `AtRisk`), is paid for by the outages (`LossesPaid`); it
  needs to know that there is a connection wherever the program writes (`Connection`), and
  that a connection holds no more than its buffers and that write, and a reset one nothing
  (`InFlight`).  And `ServerGetsFrames`.  *Argument*: the
  frames at the server and those that wait, in this order, have increasing places among
  those packet has sent (`InPlace`): what arrives is placed behind, what is refused or
  lost leaves its place, what is relayed keeps it.  The frame of a packet is one there is,
  because a decoder's registers hold only such frames after each bit of a block
  (`BlockDecoded`, by the first bit after which they would not); and nothing is missing as
  long as there has been no outage, for then no connection is broken (`NoneMissing`).
  And it has `radio` at its start, around the filter that all this is about (any options,
  statuses, commands, rates and losses): `FilterAsAsked`.  *Argument*: a response that
  either thread is about to put into use suits the edges last set and the output there is,
  but for main's older one while `overlap` and the status thread's while `touched`
  (`Responses`); the filter is there from its creation on and keeps its decimation
  (`FilterMade`), and its output type is the one chosen unless `touched` (`OutputChosen`).
  `FilterAsAsked` alone says nothing while a thread is between working a response out and swapping it in.
  And `FilterFits`: every status on its way tells the rate, if it tells any (`ReportsTold`),
  and a number that is cut into bytes and put together again is the number (`RoundTrip`,
  by the least byte at which the two would differ); so the rate radio knows is the front
  end's, and the ratio is of it as soon as the status thread has gone on (`RateKnown`); main
  can have looked before only between the two, and then it finds a ratio of zero and makes
  no filter at all (`RateFound`).  The
  proof corrected the property: with a front end slower than the audio radio divides by
  zero whatever the order (section 5).
  Last, the AGC of the front end that feeds it (either device, any signals, orders and
  restarts): the action property `NoOvershoot`.  *Argument*: until somebody orders a gain
  the device has the gains the program believes in, within the range of each stage
  (`GainsTold`), so what the stages take of a change adds up to no more than the change,
  and a fresh measurement is of just these gains (`Measured`).  The largest integer, with
  which a HackRF without power may begin, wraps in the second stage and still leaves gains
  in range (`HackrfRaisedBlindly`).
* **`TuningProofs`** (any band, sample rate, filter, tuner step, queue size):
  types, `SettledMeansTuned` and `ChosenInBand`.  *Argument*: what matters is the
  frequency the tuner will have once it has obeyed every command under way (`Final`).
  Either LO2 suits the frequency radio knows, or `Final` differs from it, so that a status
  will differ and have LO2 recalculated, or LO2 is known to have gone astray
  (`Recoverable`).  `SettledMeansTuned` alone is not inductive: it says nothing
  while commands are under way.
  The module also has the other conversation over status packets, radio's with its control
  programs (any number of them, of modes, keys and packets on the way): `StepsAddUp`.
  *Argument*: the last frequency radio has been told, on the way or obeyed, is the expected
  one (`LastWord`).  A key adds to the copy, so one must also know what is in the copy: a
  control that has all the news but for its own commands knows the expected frequency or is
  about to be told it (`Knowing`), because a report with a frequency is current only while
  it is radio's and no command is on the way (`Current`).
* **`SampleRingProofs`** (any ring, packet, decimation and transfer size with
  `BUFFERSIZE` a multiple of `Decimate` and larger than a packet, as the comment at
  `hackrf.c:476` says; any ring of audio of even size that holds four frames; any ring of
  `monitor`, playout delay, packets, silences, delays, losses, resets and callbacks within
  `PlayoutAssumption`): types, `NeverReadsAhead`, `ChunkNotEmpty`, `StampedUnlessLate`,
  `FramesAsCaptured`, `PlayedWhenDue` and the action property `SteadyClock`.
  *Argument*: the pointers are the true counts modulo the
  ring (`Pointers`), the RTP timestamp is the number of the next sample
  (`TimestampIsPlace`), the read pointer is at a whole output sample (`Aligned`),
  and while fewer samples are stored than there are slots no two share one
  (`RingIntact`).  Captured audio has no such bound, its writer waits for nobody: there
  main is never ahead of the pointer it sees, and while fewer than half a ring are
  stored during a copy, the sign of the distance between the pointers keeps what is
  rewritten out of the frame (`HoldsLatest`, `NotAhead`, `FrameHeld`, `NotYetBehind`).
  In `monitor`, what a slot holds is due within the ring that begins where the callback
  has played to (`RingSound`), so it is the sample the callback plays there; the window
  moves when the chunk is cleared, not when `Rptr` moves.  The place of the first packet
  after a new placement and its timestamp belong together but for whole turns
  (`Anchored`, `WholeTurns`), and a packet that is placed in the ring cannot be a whole
  turn away (`KeptInStep`).
* **`RtpInputProofs`** (any widths of the numbers, packets, filter blocks, losses,
  delays, copies and restarts within `RtpAssumption`): types, `SampleClock`,
  `FilterInPlace`, and the action property `NoRepeat`.  *Argument*: none of the three is
  inductive, since a step of the sequence number could be any step as long as nothing
  bounds how far apart packets are.  What is in flight is within the delay of each other
  (`NetBounds`), and something that got through is never far from the packet used last
  (`InReach`), so every step `rtp_process` accepts is the true one.  The
  proof corrected the assumption: that packets are less than half the *timestamps* apart
  is not enough, for a copy from before the gap may still come, and with 8 sequence
  numbers and 18 timestamps TLC then finds a sample counted twice.  `FilterInPlace`
  then follows from `SampleClock`: an accepted packet moves the samples before it by just
  what it adds to the count, wherever the blocks are cut, and its own lie where they belong
  because the count is right.
* **`PcmStreamProofs`** (any blocks, packets, frames, silences, losses and delays, as
  long as no packet is late by half the sequence numbers and no silence takes half of the
  timestamps, `PcmAssumption`; section 5 says what happens then): types, `FramesSound`, and the
  action property `GapIsSilence`.  *Argument*: all packets known, in flight or accepted
  last, are pieces of the audio in the order of their numbers, with only silence
  between consecutive ones (`InOrder`); `Marked` ties the marker to the silence; the first
  sample of a talk spurt waits in the buffer for as long as its marker does, and is in the
  first of the frames that the next packet completes, however many these are.
  The module also has the sessions of `monitor`, `opus` and `pcmcat` (any number of receive
  threads, groups, streams and places in memory; any packets and deletions; for `pcmcat` as
  long as all its packets and the delay fit in half the sequence numbers,
  `ReceiverAssumption`): `ReceiversSound`, whole.  *Argument*: the property says what is met
  on the way along the pointers, which no single step of the proof can follow; instead
  there is a row of the places in use such that each `next` is the place after, or NULL, and
  a `prev` is the place before, always in `monitor` (`BothWays`), unless it is NULL in
  `opus` (`Lined`).  Taking a place out of the middle, putting one at either end and moving one to
  the front each leave such a row (`LinedWithout`, `LinedLonger`, `LinedFront`, stated for any
  pointers and used by both programs), and the walk meets what stands in it
  (`AlongMeets`).  For the queues one must know that a session without a decoder has one
  thread to start it (`Starting`) and that, until the display deletes it, what a thread
  holds is of the stream of its packet (`HeldSound`).  `pcmcat` expects the packet after the
  last it wrote (`CatFollows`), and what it may be sent is too near for `rtp_process` to take
  old for new (`CatGood`).
* **`FuncubeProofs`** (any commands, settings, tries and number of troubles): types,
  `FreedIsIdle` and `StatusTrue`.  *Argument*: for the first, the transfer is with
  the USB library only while the device is open and its read thread has not seen the end
  (`TransferHeld`).  For the second, answers come in order, and an answer nobody waits
  for any more stays on its way; but only the last on the way can still be waited for
  (`OnlyLastAwaited`), so an exchange begun when none was given up has the way for itself
  (`NoneAwaited`); every list of exchanges ends with a readback (`EndsWithReadback`), and
  what readback has had no trouble with is what the dongle has (`ReadbackOK`).
* **`PlayerProofs`** (any streams, frequencies, packets, blocks, losses, kills and
  restarts): `OwnSamples`, `WholeIfUndisturbed`, the action property `RecordingsStay`,
  `HearerKnows` and `ReplayKeepsTime`.  *Argument*: a packet, the session it finds, the
  session's file and the packet that began it agree (`SessionSound`).  A file is whole
  because the packets of a sender are a packet apart for every number they are apart
  (`Spacing`): if the number is the expected one so is the place, and the seek is by
  zero.  `OwnFiles` and `Stage` say that no two sessions share a file and where the program
  is between creating a session and its first write, without which a signal could end it
  with something unflushed.  A replay keeps time because each header counts one block,
  whether or not one goes with it (`Numbered`), and a block begins where the one before
  ended (`Placed`); who has heard every report since the last full one has heard all
  there is to tell (`Reported`).  Facts about the bytes of a file are proved by their
  least counterexample.

The assumptions are `ASSUME`s of the component's module, so TLC evaluates them in the
runs.  Those that say more than a type: `RtpAssumption` and `PcmAssumption` (above);
`RecorderAssumption`, that a stream is known by its sender, SSRC and payload type, which is
all `iqrecord` looks at; `ControlAssumption`, that commands ask for settings there are;
`PlayoutAssumption`, that a stream, its reception, the ring and the playout delay together
are shorter than one turn of the timestamp, 2^32 samples or a day at 48 kHz;
`SessionAssumption` and `ReceiverAssumption`, that NULL is neither a place nor a session and
that a stream is known by sender and SSRC, with the bound on `pcmcat` above;
`CaptureAssumption`, an even ring of at least four frames (`opussend.c:25` has 2^18);
`FrontEndAssumption`, that a signal is no stronger than full scale and not fainter than
500 dB below it, so that whole dB fit in a C integer, that a byte has 256 values and that
the sample rate is a C integer; `FeedAssumption`, that the address fields of a frame are a
sequence;
`TuningAssumption`, that the filter and a step of the tuner fit beside the quarter of the
sample rate at which `set_freq` puts the signal.

**Only model-checked**:

* liveness (`BlocksTaken`, `Settles`, `ViewsSettle`, `EveryPacketTaken`,
  `NextCallbackMakesGood`, `ReadEnds`, `CloseEnds`, `AgcSettles`, `GainFollows`,
  `ChainComesUp`, `NothingWaitsForEver`), which the prover cannot do under fairness;
* `FramesInOrder` of `PacketReceiver`, the one safety property of the runs without a
  theorem.  It is not true for every value of the constants: with enough garbled tones, or
  with frames that are parts of one another, noise can become a frame nobody sent.  To
  prove it one would have to assume of `Bits` what a CRC gives, a distance between frames
  and whatever so many troubles can make of them, and to know what stuffing does to a
  whole line, a fold over data.

The type invariants of the modules without a proof, and the bounds in `ControlTypes` of
`RemoteControl` (`ControlShapes` is what its proof needs of them), are not among the properties of the
runs; they hold at the same bounds.  The models use recursive functions, no RECURSIVE
operators.


## 5. Where the code does something else than it says or seems to

Found while modelling.  Where a model contains the behaviour, the property that meets it
excepts it by name.

*Reception and tuning*

* `multicast.c:327` promises that three wild sequence numbers in a row are taken for a
  restart of the stream; `rtp_process` has no such counter, and rejects a sender that
  restarts under its SSRC until it has reached the old number (`clean` in `RtpInput`).
* `multicast.c:365` says that an old timestamp should not happen when the sequence number
  is not old.  Silence is not sent but counted (`audio.c:104`), so after more than 2^31
  samples of it the next packet looks old, and so does every one after it until the
  timestamp has come round.
* `radio.c:268` promises a retune when the LO2 required is out of range; it is worked out
  from the last *reported* LO1, which an earlier command may already have changed
  (`choice` in `Tuning`).  `radio.c:287` promises not to move LO2 when the front end does
  not retune, but `set_first_LO` returns what it asked for, not what it got.
* `monitor.c:346`: a session is used outside the critical section it was found in, and
  the display may delete it meanwhile (`clashed` in `MonitorSessions`).
* `opus.c:437`: the session that was at the front keeps a `prev` of NULL, and from then on
  lookups take it for the front and leave it where it is; no session is lost (`ChainHolds`).
* `pcmcat.c:123` takes the first stream for good: one that has ended, or whose sender came
  back with another SSRC, keeps all others out.
* `opussend.c:291`: when main falls half a ring behind, `signmod` is negative and main waits
  until the callback has gone round; a ring of audio is missing and the timestamp does not
  tell (`behind` in `AudioCapture`).
* `opus.c:512` calls a marked frame the beginning of a talk spurt, though it may begin
  with samples left over from the spurt before.

*Control and status*

* `README.md:341` says that a mode's entry specifies its option flags.  `control` sends
  the differences from its own copy, and never learns the radio's envelope option (no case
  in `decode_radio_status`, and it is reported only with the PLL on), so USB selected on a
  radio started in AM keeps the envelope detector.
* `radio_status.c:43` solicits an "immediate full status", but a command does not reset the
  full-status counter of `hackrf` and `airspy`: what comes is a delta, and start-up may take
  eleven statuses.
* `main.c:228-231` waits for the rate and the address, the status thread sets the
  decimation ratio only after them: main may divide by zero (`early` in `StartUp`); so it
  does, in any order, if the front end is slower than the audio.
* `radio_status.c:287` changes `isb` without `set_filter`, and a command that changes the
  edges too scales the response for the old output type (`touched` in `StartUp`); main and
  the status thread may both be in `set_filter`, and the older edges win until the next
  command that sets any (`overlap`).
* `encode_socket` copies 8 of the 16 bytes of an IPv6 address.  `main.c`: `-e` wants an
  argument according to `Optstring`, none according to `Options`.

*Front ends*

* `funcube.c`: the options `o`, `c` and `L` are missing from `Optstring`; when the port
  cannot be opened again (`-o`) the command thread ends; after unplugging, the status is of
  uninitialised answers; the LNA gain of a status is that of the previous frequency.
* `fcd.c:697`: an answer that comes after its limit stays in the queue for good, and every
  later exchange gets the one before its own (`sure` in `FuncubeControl`).  Exchanges
  without a limit hang with the dongle.
* `hid-libusb.c:743`: the first submission is not checked; if it fails, reads without a
  limit and `hid_close` never return.
* `hackrf.c`, `airspy.c`: gain commands are stored and reported but never sent to the
  device ("Fill this in later"); the AGC may run before the first transfer and converts an
  infinity to an integer; the HackRF's coarse stages stop up to 7 dB (mixer) or 13 dB
  (amplifier) above the window with gain left to take away (`TooStrong` in `StartUp`).
* `hackrf.c:478` waits until a packet's worth is available; a broadcast without the mutex
  between test and wait is lost, and main sleeps on until the next transfer, which
  `NextCallbackMakesGood` shows to be enough.

*Recording, playback, packet radio*

* `README.md:534` says that gaps are seeked over; `iqrecord` seeks by samples taken as
  bytes, so a gap of n samples makes a hole of n bytes and later samples are out of
  place (`smooth` in `Recorder`).  A PCM recording is big-endian and `iqplay` swaps again.
* `iqrecord`: a payload of unknown type divides by zero; a file that could not be opened
  leaves a session whose next packet, or whose cleanup, crashes, though `fflush(NULL)` has
  saved all files by then, which is why `RecordingsStay` holds.
* `iqplay`: the last block of a file is sent whole with a stale tail; a sequence number and
  a block of time are skipped between files; its status shows defaults instead of the
  file's frequency.  `iqplay.c:158` starts `ncmd` without an argument and `iqplay.c:277`
  asserts that there is one: the `Makefile` compiles with `-DNDEBUG`, but with `Makefile.osx`,
  or the flags that are commented out, the program aborts.  `Player` is of the former.
* `packet`: sessions are never removed; the end of a transmission waits in a block that is
  not full until the next.
* `aprsfeed`: `sleep(600)` is commented "5 minutes"; third-party traffic is looked for under
  `{`; the loss of the server is noticed only by a write that fails, so all the frames that
  the connection holds by then are lost, and that one (`OutageCostsBuffer`).


## 6. Plan

Done: every part of section 1 that has a discrete state of its own.  Next:

1. **Composition** of `Player` with `Tuning`: a front end that ignores commands.
2. **Demodulator control**: squelch tail, PLL lock hysteresis, AGC hang, if the estimates
   they follow can be cut down to a few cases each.

## 7. Not modelled, and why

* Floating-point work: oscillators, filter design, decimation and tone filters, FFTs,
  AGC of the linear demodulator and noise estimates.  A numerical test is the better tool.
* `pl`, `modulate`, `aprs`, `metadump`, `doppler`: single-threaded programs that print or
  convert what they receive (`pl` keeps the session list of `opus`).
* RTCP sender reports: no program of the package reads them.
* Feature reports and descriptor strings of `hid-libusb.c`, boot loader calls of `fcd.c`:
  nothing calls them.
* Curses screens, `bandplan`, `knob`, `touch`: layout and key mapping; what a key makes
  of the parameters is in `RemoteControl`.
* Address lookup, socket options and byte order of headers: I/O.
* `am.c` and `display.c` are not among the programs of the Makefile.

A component is called `partly` modelled in `PROJECT.json` when some operation of
its source files is left out; its note says which.
