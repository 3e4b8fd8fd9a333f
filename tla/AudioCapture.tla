---------------------------- MODULE AudioCapture ----------------------------
(***************************************************************************)
(* The programs that send what a sound card captures, opussend and         *)
(* pcmsend, beside the front ends of SampleRing.  Portaudio's thread calls *)
(* pa_callback with a frame of samples, which it stores in a ring; main    *)
(* polls the write pointer, sleeping in between, and takes a frame at a    *)
(* time out of the ring.  There is no lock and no condition; pcmsend has   *)
(* the same callback as opussend.                                          *)
(*                                                                         *)
(* A sample is that of all channels at one time, and its number in what    *)
(* was captured.                                                           *)
(***************************************************************************)
EXTENDS SampleRing, Sequences

CONSTANTS
  AudioSize,   \* BUFFERSIZE: samples in the ring
  Frame,       \* Opus_frame_size, FRAMESIZE: samples in a packet
  MaxCaptured  \* bound: samples captured

\* Opus_frame_size is at most 5760, and BUFFERSIZE 2^18 of which half is a channel.
ASSUME CaptureAssumption ==
  /\ {AudioSize, Frame} \subseteq Nat \ {0} /\ MaxCaptured \in Nat
  /\ AudioSize % 2 = 0 /\ 2 * Frame <= AudioSize \div 2

VARIABLES
  program,   \* what runs: "front end", "opussend", "pcmsend"
  captured,  \* samples stored by the callback
  Wptr,      \* the write pointer as main sees it
  Audiodata, \* the ring
  rptr,      \* main's read pointer
  copying,   \* main is taking a frame, or polls
  frame,     \* what it has taken of the frame
  rtpOut,    \* seq, timestamp
  during,    \* history: samples stored since main found the frame
  behind     \* history: main has been half a ring late

sourceVars == <<captured, Wptr, Audiodata>>
senderVars == <<rptr, copying, frame, rtpOut>>
audioVars  == <<sourceVars, senderVars, during, behind>>
captureVars == <<vars, program, audioVars>>

CaptureInit ==
  /\ Init
  /\ program \in {"front end", "opussend", "pcmsend"}
  /\ captured = 0 /\ Wptr = 0
  /\ Audiodata = [s \in 0..AudioSize - 1 |-> NoSample]
  /\ rptr = 0 /\ copying = FALSE /\ frame = <<>>
  /\ rtpOut = [seq |-> 0, timestamp |-> 0]
  /\ during = 0 /\ behind = FALSE

-----------------------------------------------------------------------------
(* pa_callback *)

\* Nothing obliges the compiler to store Wptr before the callback ends.
StoreAudio ==
  /\ captured < MaxCaptured
  /\ captured % Frame = 0 => Wptr = captured % AudioSize
  /\ Audiodata' = [Audiodata EXCEPT ![captured % AudioSize] = captured]
  /\ captured' = captured + 1
  /\ during' = IF copying THEN during + 1 ELSE 0
  /\ behind' = (behind \/ captured + 1 - rtpOut.timestamp >= AudioSize \div 2)
  /\ UNCHANGED <<Wptr, senderVars>>

MovePointer ==
  /\ Wptr # captured % AudioSize
  /\ Wptr' = captured % AudioSize
  /\ UNCHANGED <<captured, Audiodata, senderVars, during, behind>>

-----------------------------------------------------------------------------
(* main *)

\* Mutant: the difference of the pointers is never negative.
Unsigned(a) == a % AudioSize

signmod(a) ==
  IF a % AudioSize >= AudioSize \div 2 THEN (a % AudioSize) - AudioSize ELSE a % AudioSize

FrameReady ==
  /\ ~copying /\ signmod(Wptr - rptr) >= Frame
  /\ copying' = TRUE /\ during' = 0
  /\ UNCHANGED <<sourceVars, rptr, frame, rtpOut, behind>>

\* htons, memcpy into the bounce buffer, or the encoder's reading of the ring.
CopySample ==
  /\ copying /\ Len(frame) < Frame
  /\ frame' = Append(frame, Audiodata[rptr])
  /\ rptr' = (rptr + 1) % AudioSize
  /\ UNCHANGED <<sourceVars, copying, rtpOut, during, behind>>

\* With -x, a frame that is silent is not sent, and takes no sequence number.
SendOpus ==
  /\ program = "opussend"
  /\ copying /\ Len(frame) = Frame
  /\ \E sent \in {0, 1} :
       rtpOut' = [seq |-> rtpOut.seq + sent, timestamp |-> rtpOut.timestamp + Frame]
  /\ copying' = FALSE /\ frame' = <<>>
  /\ UNCHANGED <<sourceVars, rptr, during, behind>>

SendPcm ==
  /\ program = "pcmsend"
  /\ copying /\ Len(frame) = Frame
  /\ rtpOut' = [seq |-> rtpOut.seq + 1, timestamp |-> rtpOut.timestamp + Frame]
  /\ copying' = FALSE /\ frame' = <<>>
  /\ UNCHANGED <<sourceVars, rptr, during, behind>>

-----------------------------------------------------------------------------
Capture == StoreAudio \/ MovePointer \/ FrameReady \/ CopySample \/ SendOpus \/ SendPcm

CaptureNext ==
  \/ program = "front end" /\ Next /\ UNCHANGED <<program, audioVars>>
  \/ program # "front end" /\ Capture /\ UNCHANGED <<vars, program>>

CaptureSpec == CaptureInit /\ [][CaptureNext]_captureVars /\ Fairness

-----------------------------------------------------------------------------
(* Properties *)

\* A packet is one piece of what was captured unless nearly half a ring more is
\* captured while main takes it, however late main has been before: only the
\* sign that signmod gives to the distance keeps main out of the part of the ring
\* that is being overwritten.  And unless main has ever been half a ring late, the
\* timestamp tells the place of the samples (opussend.c:282-330, pcmsend.c:210-246).
FramesAsCaptured ==
  \A i \in DOMAIN frame :
    /\ during + Frame <= AudioSize \div 2 => frame[i] = frame[1] + i - 1
    /\ ~behind => frame[i] = rtpOut.timestamp + i - 1
=============================================================================
