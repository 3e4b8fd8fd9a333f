------------------------------ MODULE HidDevice ------------------------------
(***************************************************************************)
(* A USB HID device as the library in hid-libusb.c lets one thread use it: *)
(* that thread opens it, writes commands, waits for reports and closes it, *)
(* while a read thread of the library's keeps one interrupt transfer       *)
(* pending and queues what it brings.                                      *)
(*                                                                         *)
(* dev->mutex protects the queue.  shutdown_thread and cancelled are       *)
(* written by the read thread's callback and by hid_close without it.      *)
(* The device takes commands and answers them in order, and may be pulled  *)
(* out at any time.  A report is a record; of its fields only `late' means *)
(* something here: who asked for it will not get it (history).             *)
(***************************************************************************)
EXTENDS Naturals, Sequences, SequencesExt

CONSTANTS
  QueueLimit,  \* the 30 of read_callback
  Vendor,      \* _usVID: only devices of this vendor and these products
  Products,    \*   (_usPID, _usPID_plus) are counted
  OtherDevices \* what else is on the bus: [vendor, product, hid] records,
               \*   hid being the number of HID interfaces

ASSUME HidAssumption ==
  /\ QueueLimit \in Nat
  /\ \A i \in DOMAIN OtherDevices : OtherDevices[i].hid \in Nat

VARIABLES
  handle,    \* the device is open: phd is not NULL
  thread,    \* read_thread: "none", "run", "drain", "stopped"
  urb,       \* dev->transfer: "none", "unsubmitted", "flying", "cancelled"
             \*   or "callback", when read_callback has it
  shutdown,  \* dev->shutdown_thread
  cancelled, \* dev->cancelled
  reports,   \* dev->input_reports
  reader,    \* hid_read_timeout: "out", "test", "hold" (the mutex), "asleep"
  timed,     \* with a timeout, not blocking
  answer,    \* what it returned: a report, or Failed, TimedOut, NoReport
  asked,     \* commands the device has yet to treat
  outbox,    \* answers that wait in the device for an interrupt transfer
  plugged    \* the device is on the bus

libVars    == <<handle, thread, urb, shutdown, cancelled, reports>>
readVars   == <<reader, timed, answer>>
deviceVars == <<asked, outbox, plugged>>

Failed == [cmd |-> "failed"]
TimedOut == [cmd |-> "timed out"]
NoReport == [cmd |-> "none"]

HidTypeOK(Commands, Answers) ==
  /\ handle \in BOOLEAN /\ plugged \in BOOLEAN /\ timed \in BOOLEAN
  /\ shutdown \in BOOLEAN /\ cancelled \in BOOLEAN
  /\ thread \in {"none", "run", "drain", "stopped"}
  /\ urb \in {"none", "unsubmitted", "flying", "cancelled", "callback"}
  /\ reader \in {"out", "test", "hold", "asleep"}
  /\ answer \in Answers \cup {Failed, TimedOut, NoReport}
  /\ asked \in Seq(Commands)
  /\ outbox \in Seq(Answers)
  /\ reports \in Seq(Answers)

HidInit ==
  /\ handle = FALSE /\ thread = "none" /\ urb = "none"
  /\ shutdown = FALSE /\ cancelled = FALSE
  /\ reports = <<>> /\ asked = <<>> /\ outbox = <<>>
  /\ reader = "out" /\ timed = FALSE /\ answer = NoReport
  /\ plugged = TRUE

-----------------------------------------------------------------------------
(* Opening *)

Dongle == [vendor |-> Vendor, product |-> CHOOSE p \in Products : TRUE, hid |-> 1]

Bus == IF plugged THEN OtherDevices \o <<Dongle>> ELSE OtherDevices

\* One entry for every HID interface, in the order of the bus.
hid_enumerate(bus) ==
  FlattenSeq([i \in DOMAIN bus |-> [k \in 1..bus[i].hid |-> i]])

\* The device number `which' among those of the right vendor and product, or 0.
fcdFind(bus, which) ==
  LET found == SelectSeq(hid_enumerate(bus),
                         LAMBDA i : bus[i].vendor = Vendor /\ bus[i].product \in Products)
  IN  IF which < Len(found) THEN found[which + 1] ELSE 0

\* hid_open_path: claims the interface, starts the read thread, which submits the
\* first transfer, and waits for it at the barrier.  Whether that submission
\* succeeded nobody looks: it does unless the device has just gone.
OpenDevice ==
  /\ ~handle /\ fcdFind(Bus, 0) # 0
  /\ handle' = TRUE
  /\ thread' = "run"
  /\ shutdown' = FALSE /\ cancelled' = FALSE
  /\ reports' = <<>>
  /\ \/ urb' = "flying" /\ UNCHANGED <<plugged, asked, outbox>>
     \/ /\ urb' = "unsubmitted" /\ plugged' = FALSE
        /\ asked' = <<>> /\ outbox' = <<>>
  /\ UNCHANGED readVars

-----------------------------------------------------------------------------
(* The read thread and its callback *)

\* read_callback with LIBUSB_TRANSFER_COMPLETED.  num_queued does not count the
\* first of the list nor the new one.  The signal is given only to an empty list.
Received ==
  /\ urb = "flying" /\ plugged
  /\ outbox # <<>>
  /\ reader # "hold"
  /\ LET grown == Append(reports, Head(outbox))
     IN  reports' = IF Len(reports) > QueueLimit + 1 THEN Tail(grown) ELSE grown
  /\ reader' = IF reader = "asleep" /\ reports = <<>> THEN "test" ELSE reader
  /\ outbox' = Tail(outbox)
  /\ urb' = "callback"
  /\ UNCHANGED <<handle, thread, shutdown, cancelled, timed, answer, asked, plugged>>

\* LIBUSB_TRANSFER_TIMED_OUT after five seconds, or an unknown status.
NothingReceived ==
  /\ urb = "flying" /\ outbox = <<>>
  /\ urb' = "callback"
  /\ UNCHANGED <<handle, thread, shutdown, cancelled, reports, readVars, deviceVars>>

\* The end of read_callback; submitting fails when the device is gone.
Resubmit ==
  /\ urb = "callback"
  /\ IF plugged
     THEN urb' = "flying" /\ UNCHANGED <<shutdown, cancelled>>
     ELSE urb' = "none" /\ shutdown' = TRUE /\ cancelled' = TRUE
  /\ UNCHANGED <<handle, thread, reports, readVars, deviceVars>>

\* read_callback with LIBUSB_TRANSFER_CANCELLED or _NO_DEVICE.
TransferEnds ==
  /\ \/ urb = "cancelled"
     \/ urb = "flying" /\ ~plugged
  /\ urb' = "none"
  /\ shutdown' = TRUE /\ cancelled' = TRUE
  /\ UNCHANGED <<handle, thread, reports, readVars, deviceVars>>

AfterCancel == IF urb = "flying" THEN "cancelled" ELSE urb

\* Mutant: hid_close has cancelled the transfer already.
LeaveLoopTrusting ==
  /\ thread = "run" /\ shutdown /\ urb # "callback"
  /\ thread' = "drain"
  /\ UNCHANGED <<handle, urb, shutdown, cancelled, reports, readVars, deviceVars>>

\* read_thread leaves its loop, which it looks at between callbacks.
LeaveLoop ==
  /\ thread = "run" /\ shutdown /\ urb # "callback"
  /\ thread' = "drain"
  /\ urb' = AfterCancel
  /\ UNCHANGED <<handle, shutdown, cancelled, reports, readVars, deviceVars>>

\* Mutant: the thread ends without waiting for its transfer.
StopAtOnce ==
  /\ thread = "drain" /\ reader # "hold"
  /\ thread' = "stopped"
  /\ reader' = IF reader = "asleep" THEN "test" ELSE reader
  /\ UNCHANGED <<handle, urb, shutdown, cancelled, reports, timed, answer, deviceVars>>

\* Mutant: the broadcast is made without the mutex.
StopUnlocked ==
  /\ thread = "drain" /\ cancelled
  /\ thread' = "stopped"
  /\ reader' = IF reader = "asleep" THEN "test" ELSE reader
  /\ UNCHANGED <<handle, urb, shutdown, cancelled, reports, timed, answer, deviceVars>>

\* The transfer has ended; wake whoever waits for reports, under the mutex.
StopThread ==
  /\ thread = "drain" /\ cancelled /\ reader # "hold"
  /\ thread' = "stopped"
  /\ reader' = IF reader = "asleep" THEN "test" ELSE reader
  /\ UNCHANGED <<handle, urb, shutdown, cancelled, reports, timed, answer, deviceVars>>

ReadThread == Received \/ NothingReceived \/ Resubmit \/ TransferEnds \/ LeaveLoop \/ StopThread

-----------------------------------------------------------------------------
(* The thread that uses the device *)

\* hid_write: the device has the command, or is gone; the result is ignored.
Write(c) == asked' = IF plugged THEN Append(asked, c) ELSE asked

\* The readers of these answers have given up, or have taken others for them.
GiveUp(s) == [i \in DOMAIN s |-> [s[i] EXCEPT !.late = TRUE]]

\* return_data, for a report that may be late.
TakeReport ==
  /\ reports # <<>>
  /\ answer' = Head(reports)
  /\ reader' = "out"
  /\ IF Head(reports).late
     THEN asked' = GiveUp(asked) /\ outbox' = GiveUp(outbox) /\ reports' = GiveUp(Tail(reports))
     ELSE reports' = Tail(reports) /\ UNCHANGED <<asked, outbox>>

\* Under the mutex: a queued report is taken even after the read thread stopped.
TestQueue ==
  /\ reader = "test"
  /\ \/ TakeReport
     \/ /\ reports = <<>>
        /\ IF shutdown
           THEN reader' = "out" /\ answer' = Failed
           ELSE reader' = "hold" /\ UNCHANGED answer
        /\ UNCHANGED <<reports, asked, outbox>>
  /\ UNCHANGED <<handle, thread, urb, shutdown, cancelled, timed, plugged>>

\* pthread_cond_wait or _timedwait gives the mutex back.
Wait ==
  /\ reader = "hold"
  /\ reader' = "asleep"
  /\ UNCHANGED <<libVars, timed, answer, deviceVars>>

SpuriousWakeup ==
  /\ reader = "asleep"
  /\ reader' = "test"
  /\ UNCHANGED <<libVars, timed, answer, deviceVars>>

\* ETIMEDOUT: returns 0, also when a report has just been queued.
ReadTimesOut ==
  /\ reader = "asleep" /\ timed
  /\ reader' = "out" /\ answer' = TimedOut
  /\ asked' = GiveUp(asked) /\ outbox' = GiveUp(outbox) /\ reports' = GiveUp(reports)
  /\ UNCHANGED <<handle, thread, urb, shutdown, cancelled, timed, plugged>>

\* hid_close up to pthread_join.
BeginClose ==
  /\ shutdown' = TRUE
  /\ urb' = AfterCancel
  /\ UNCHANGED <<handle, thread, cancelled, reports, readVars, deviceVars>>

\* ... and after: the transfer, the queue and the device are freed.
FinishClose ==
  /\ thread = "stopped"
  /\ thread' = "none" /\ handle' = FALSE /\ reports' = <<>>
  /\ UNCHANGED <<urb, shutdown, cancelled, readVars, deviceVars>>

\* Answers that may still come and will be taken for those to later commands.
LateOnes ==
  \E s \in {asked, outbox, reports} : \E i \in DOMAIN s : s[i].late
=============================================================================
