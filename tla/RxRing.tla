------------------------------- MODULE RxRing -------------------------------
(***************************************************************************)
(* Candle/candle.c: the ring of overlapped bulk-in reads (URBs) that       *)
(* candle_dev_open submits, candle_frame_read takes results from and       *)
(* submits again, and candle_dev_close cancels.                            *)
(*                                                                         *)
(* WinUSB and the device complete the submitted reads in the order of      *)
(* submission, at any time: also between the steps of candle_frame_read,   *)
(* and before WinUsb_ReadPipe returns.  A completed read keeps its         *)
(* manual-reset event signalled until the URB is submitted again.  A       *)
(* transfer is known by its number since the device was opened.  The       *)
(* events are taken to have been created (NativeDevice has the others).    *)
(***************************************************************************)
EXTENDS Naturals, Sequences, FiniteSets

CONSTANTS
  UrbCount,     \* CANDLE_URB_COUNT (30)
  MaxTransfers  \* bound: the transfers the device completes per open

ASSUME RxRingAssumption == UrbCount \in Nat \ {0} /\ MaxTransfers \in Nat

Urbs == 0 .. UrbCount - 1

\* What WinUsb_GetOverlappedResult reports: a frame, a frame without its
\* timestamp, fewer bytes than that, or a failed transfer.
Results == {"frame", "short", "runt", "failed"}

VARIABLES
  dev,        \* "closed", "opening", "open", or "leaked" by a half-done open
  next,       \* candle_dev_open's i
  urb,        \* of each URB: "idle" (not submitted), "pending" or "done" (signalled)
  holds,      \* the transfer whose bytes are in its buffer, 0 for none
  stamp,      \* the transfer whose timestamp is in its buffer, 0 for none
  submitted,  \* the pending URBs, in the order of submission
  results,    \* the result of each transfer since the device was opened
  taken,      \* candle_frame_read's urb_num, while it has one
  delivered,  \* the transfers that candle_frame_read returned, in that order
  stamps,     \* the timestamps that they were returned with
  lastError,  \* dev->last_error
  returned    \* what the last candle_frame_read returned

buffers == <<holds, stamp>>
ring == <<urb, buffers, submitted>>
output == <<delivered, stamps>>
vars == <<dev, next, ring, results, taken, output, lastError, returned>>

Errors == {"OK", "OPEN", "PREPARE_READ", "READ_TIMEOUT", "READ_WAIT",
           "READ_RESULT", "READ_SIZE"}

TypeOK ==
  /\ dev \in {"closed", "opening", "open", "leaked"}
  /\ next \in 0 .. UrbCount
  /\ urb \in [Urbs -> {"idle", "pending", "done"}]
  /\ holds \in [Urbs -> Nat]
  /\ stamp \in [Urbs -> Nat]
  /\ submitted \in Seq(Urbs)
  /\ results \in Seq(Results)
  /\ taken \in {{}} \cup {{u} : u \in Urbs}
  /\ delivered \in Seq(Nat)
  /\ stamps \in Seq(Nat)
  /\ lastError \in Errors
  /\ returned \in BOOLEAN

Init ==
  /\ dev = "closed" /\ next = 0
  /\ urb = [u \in Urbs |-> "idle"]
  /\ holds = [u \in Urbs |-> 0]
  /\ stamp = holds
  /\ submitted = <<>>
  /\ results = <<>> /\ taken = {} /\ delivered = <<>> /\ stamps = <<>>
  /\ lastError = "OK" /\ returned = FALSE

-----------------------------------------------------------------------------
(* candle_prepare_read, and what the device does with the reads.           *)

\* The next transfer goes to URB u, with result r.
Filled(u, r) ==
  /\ results' = Append(results, r)
  /\ urb' = [urb EXCEPT ![u] = "done"]
  /\ holds' = [holds EXCEPT ![u] = Len(results) + 1]
  /\ stamp' = IF r = "frame" THEN [stamp EXCEPT ![u] = Len(results) + 1] ELSE stamp

\* ERROR_IO_PENDING: the one outcome for which candle_prepare_read returns true.
Submitted(u) ==
  /\ urb' = [urb EXCEPT ![u] = "pending"]
  /\ submitted' = Append(submitted, u)
  /\ UNCHANGED <<buffers, results>>

\* A read that WinUSB refuses has reset the URB's event, or has left it as it was.
Refused(u) ==
  /\ urb' \in {urb, [urb EXCEPT ![u] = "idle"]}
  /\ UNCHANGED <<submitted, buffers, results>>

\* WinUsb_ReadPipe returns TRUE: no other read is before this one, and the device
\* has answered it already.
CompletedAtOnce(u) ==
  /\ submitted = <<>>
  /\ Len(results) < MaxTransfers
  /\ \E r \in Results \ {"failed"} : Filled(u, r)
  /\ UNCHANGED submitted

\* candle_prepare_read takes both for a failure.
NotPending(u) == Refused(u) \/ CompletedAtOnce(u)

-----------------------------------------------------------------------------

\* Mutant: the memset of rxurbs is left out.
BuffersKept == UNCHANGED buffers

\* The memset of rxurbs.
BuffersCleared ==
  /\ holds' = [u \in Urbs |-> 0]
  /\ stamp' = [u \in Urbs |-> 0]

\* candle_dev_interal_open, which clears the URBs first.  Only one handle to
\* the device can be open, so that a leaked one makes this fail.
BeginOpen ==
  /\ dev \in {"closed", "leaked"}
  /\ BuffersCleared
  /\ \/ /\ dev = "closed"
        /\ dev' = "opening"
        /\ urb' = [u \in Urbs |-> "idle"]
        /\ results' = <<>> /\ delivered' = <<>> /\ stamps' = <<>>
        /\ lastError' = "OK"
     \/ lastError' = "OPEN" /\ UNCHANGED <<dev, urb, results, output>>
  /\ next' = 0
  /\ UNCHANGED <<submitted, taken, returned>>

\* Mutant: i <= CANDLE_URB_COUNT.
SubmitOneTooMany ==
  /\ dev = "opening" /\ next <= UrbCount
  /\ \/ /\ Submitted(next)
        /\ next' = next + 1
        /\ lastError' = "OK"
        /\ UNCHANGED dev
     \/ /\ NotPending(next)
        /\ dev' = "leaked"
        /\ lastError' = "PREPARE_READ"
        /\ UNCHANGED next
  /\ UNCHANGED <<taken, output, returned>>

\* One turn of candle_dev_open's loop.  When the read is not pending the events
\* are closed, but neither the WinUSB handle nor the reads already submitted.
SubmitNext ==
  /\ dev = "opening" /\ next < UrbCount
  /\ \/ /\ Submitted(next)
        /\ next' = next + 1
        /\ lastError' = "OK"
        /\ UNCHANGED dev
     \/ /\ NotPending(next)
        /\ dev' = "leaked"
        /\ lastError' = "PREPARE_READ"
        /\ UNCHANGED next
  /\ UNCHANGED <<taken, output, returned>>

EndOpen ==
  /\ dev = "opening" /\ next = UrbCount
  /\ dev' = "open"
  /\ lastError' = "OK"
  /\ UNCHANGED <<next, ring, results, taken, output, returned>>

\* Mutant: nothing cancels the reads.
CloseWithoutCancel ==
  /\ dev = "open" /\ taken = {}
  /\ dev' = "closed"
  /\ urb' = [u \in Urbs |-> "idle"]
  /\ lastError' = "OK"
  /\ UNCHANGED <<next, buffers, submitted, results, taken, output, returned>>

\* candle_dev_close, which is not called during a candle_frame_read: WinUsb_Free
\* cancels what is pending.
CloseDev ==
  /\ dev = "open" /\ taken = {}
  /\ dev' = "closed"
  /\ urb' = [u \in Urbs |-> "idle"]
  /\ submitted' = <<>>
  /\ lastError' = "OK"
  /\ UNCHANGED <<next, buffers, results, taken, output, returned>>

\* The device answers the oldest submitted read.
Complete ==
  /\ submitted # <<>>
  /\ Len(results) < MaxTransfers
  /\ \E r \in Results : Filled(Head(submitted), r)
  /\ submitted' = Tail(submitted)
  /\ UNCHANGED <<dev, next, taken, output, lastError, returned>>

-----------------------------------------------------------------------------
(* candle_frame_read.                                                      *)

Done == {u \in Urbs : urb[u] = "done"}

\* Mutant: any signalled event.
AnySignalled(S) == S

\* WaitForMultipleObjects reports the signalled event with the lowest index.
Lowest(S) == {u \in S : \A v \in S : u <= v}

\* The events are null or closed, and the wait fails.
ReadUnopened ==
  /\ dev \in {"closed", "leaked"}
  /\ lastError' = "READ_WAIT" /\ returned' = FALSE
  /\ UNCHANGED <<dev, next, ring, results, taken, output>>

ReadTimeout ==
  /\ dev = "open" /\ taken = {} /\ Done = {}
  /\ lastError' = "READ_TIMEOUT" /\ returned' = FALSE
  /\ UNCHANGED <<dev, next, ring, results, taken, output>>

\* The wait reports a URB.
Take ==
  /\ dev = "open" /\ taken = {}
  /\ \E u \in Lowest(Done) : taken' = {u}
  /\ UNCHANGED <<dev, next, ring, results, output, lastError, returned>>

\* Mutant: without the - 4, only a frame with its timestamp is long enough.
LongEnoughWithStamp(r) == r = "frame"

\* bytes_transfered >= sizeof(*frame) - 4
LongEnough(r) == r \in {"frame", "short"}

\* Mutant: the URB is submitted again after last_error has been set.
ReadBadThenSubmit ==
  /\ \E u \in taken :
       /\ ~LongEnough(results[holds[u]])
       /\ \/ Submitted(u) /\ lastError' = "OK"
          \/ NotPending(u) /\ lastError' = "PREPARE_READ"
  /\ taken' = {} /\ returned' = FALSE
  /\ UNCHANGED <<dev, next, output>>

\* A failed or too short transfer: the URB is submitted again, whether that
\* succeeds or not, and the error is that of the transfer.
ReadBad ==
  /\ \E u \in taken :
       /\ ~LongEnough(results[holds[u]])
       /\ Submitted(u) \/ NotPending(u)
       /\ lastError' = IF results[holds[u]] = "failed" THEN "READ_RESULT" ELSE "READ_SIZE"
  /\ taken' = {} /\ returned' = FALSE
  /\ UNCHANGED <<dev, next, output>>

\* The memcpy, before the URB is submitted again, copies the whole buffer: the
\* timestamp_us that was set to 0 for a short transfer is overwritten with what an
\* older one has left there.
CopiedOut(u) ==
  /\ delivered' = Append(delivered, holds[u])
  /\ stamps' = Append(stamps, stamp[u])

\* Mutant: the frame is returned whatever becomes of the URB.
ReadFrameAlways ==
  /\ \E u \in taken :
       /\ LongEnough(results[holds[u]])
       /\ \/ Submitted(u) /\ lastError' = "OK"
          \/ NotPending(u) /\ lastError' = "PREPARE_READ"
       /\ CopiedOut(u)
  /\ taken' = {} /\ returned' = TRUE
  /\ UNCHANGED <<dev, next>>

\* A frame: it is copied out, and returned if the URB's next read is pending.
ReadFrame ==
  /\ \E u \in taken :
       /\ LongEnough(results[holds[u]])
       /\ \/ /\ Submitted(u)
             /\ CopiedOut(u)
             /\ lastError' = "OK" /\ returned' = TRUE
          \/ /\ NotPending(u)
             /\ lastError' = "PREPARE_READ" /\ returned' = FALSE
             /\ UNCHANGED output
  /\ taken' = {}
  /\ UNCHANGED <<dev, next>>

Open == BeginOpen \/ SubmitNext \/ EndOpen

\* The ends of candle_frame_read.
Read == ReadUnopened \/ ReadTimeout \/ ReadBad \/ ReadFrame

Next == Open \/ CloseDev \/ Complete \/ Take \/ Read

Spec == Init /\ [][Next]_vars

-----------------------------------------------------------------------------
(* Properties.                                                             *)

Pending == {u \in Urbs : urb[u] = "pending"}

\* The device is asked to fill each buffer at most once at a time: the submitted
\* reads are the pending URBs, each once.  So no buffer is handed to the device
\* while candle_frame_read may still copy from it.
\* (candle_dev_open, candle_prepare_read, candle_frame_read)
OneReadPerBuffer ==
  /\ \A u \in Pending : \E i \in DOMAIN submitted : submitted[i] = u
  /\ \A i, j \in DOMAIN submitted :
       /\ submitted[i] \in Pending
       /\ submitted[i] = submitted[j] => i = j

\* No frame is returned twice, nor returned and still there to be read, even
\* when a refused read leaves the event of the old one signalled, or the read that
\* replaces it is completed at once.
\* (candle_frame_read returns what candle_prepare_read returns)
AtMostOnce ==
  /\ \A i, j \in DOMAIN delivered : delivered[i] = delivered[j] => i = j
  /\ \A u \in Done, i \in DOMAIN delivered : delivered[i] # holds[u]

\* The transfers that are frames: with or without its timestamp.
Frames == {"frame", "short"}

Lost == {k \in DOMAIN results :
           /\ results[k] \in Frames
           /\ \A i \in DOMAIN delivered : delivered[i] # k
           /\ \A u \in Done : holds[u] # k}

\* An open device never loses a frame silently.  A frame is lost only by the
\* candle_frame_read that has taken it and fails with PREPARE_READ: not by a
\* transfer that arrives, nor by a read that succeeds, times out, or reports a bad
\* transfer; and that read loses no other frame with it.
\* (candle_frame_read, return candle_prepare_read)
LossIsReported ==
  [][dev = "open" /\ dev' = "open" =>
       \A k \in Lost' \ Lost :
         /\ \E u \in taken : holds[u] = k
         /\ Read /\ lastError' = "PREPARE_READ" /\ ~returned']_vars

\* Whatever the reader's delay, the first UrbCount transfers after an open are
\* returned in order.  (Later ones need not be: the lowest signalled URB goes
\* first, and the ring wraps.)
FirstRoundInOrder ==
  \A i, j \in DOMAIN delivered :
    i < j /\ delivered[i] <= UrbCount /\ delivered[j] <= UrbCount =>
      delivered[i] < delivered[j]

\* A full transfer is returned with its own timestamp, a short one with none or
\* with that of an older full transfer of this open: never with one from before
\* the device was opened, whose clock may have been another.
\* (candle_frame_read's memcpy, candle_dev_interal_open's memset)
StampsOfThisOpen ==
  \A i \in DOMAIN delivered :
    LET k == delivered[i] IN
    IF results[k] = "frame"
      THEN stamps[i] = k
      ELSE stamps[i] # 0 => stamps[i] < k /\ results[stamps[i]] = "frame"

\* After a candle_frame_read, last_error is OK exactly when a frame was
\* returned: the error of a bad transfer is set after the one of the read that
\* replaces it.
ErrorAgrees ==
  [][Read => (lastError' = "OK" <=> returned')]_vars
=============================================================================
