------------------------------ MODULE SendFlow ------------------------------
(***************************************************************************)
(* The balance of sends and reads: the passes of the worker                *)
(* (Device.ThreadedUpdate) against the reads submitted by candle.c and the *)
(* buffers of the device.                                                  *)
(*                                                                         *)
(* The device keeps every frame it is sent in one of its buffers, until it *)
(* can answer a submitted read with the frame's echo.  When all buffers    *)
(* are in use it refuses the send.  Only frame_read submits a read again.  *)
(* All sends are non-blocking, so that a refused one ends the pass.  The   *)
(* bus may be slower than the worker, or faster: echoes come at any time.  *)
(* That a read cannot be submitted again is left to RxRing.                *)
(***************************************************************************)
EXTENDS Integers

CONSTANTS
  UrbCount,     \* CANDLE_URB_COUNT (30)
  BufferCount,  \* the frames the device can hold (64)
  BatchLimit,   \* actions are taken in a row until count++ > BatchLimit (64)
  MaxSends      \* bound: the sends the application makes

\* There is an URB and the device has a buffer: with none, every send would fail.
ASSUME SendFlowAssumption ==
  /\ UrbCount \in Nat \ {0} /\ BufferCount \in Nat \ {0}
  /\ BatchLimit \in Nat /\ MaxSends \in Nat

VARIABLES
  queued,   \* sends in FActionQueue
  sends,    \* sends made so far, queued ones included
  pass,     \* where the worker is: "read", "take"
  count,    \* ThreadedUpdate's local count
  held,     \* frames in the buffers of the device
  signalled,\* echoes in URBs that frame_read has not returned yet
  received, \* frames handed to the Channel
  refused,  \* sends that failed: exceptions in FExceptionQueue
  dropped   \* sends that failed with no error reported (README.md:19)

vars == <<queued, sends, pass, count, held, signalled, received, refused, dropped>>

TypeOK ==
  /\ queued \in Nat /\ sends \in Nat
  /\ pass \in {"read", "take"}
  /\ count \in 0 .. BatchLimit + 2
  /\ held \in 0 .. BufferCount
  /\ signalled \in 0 .. UrbCount
  /\ received \in Nat /\ refused \in Nat /\ dropped \in Nat

Init ==
  /\ queued = 0 /\ sends = 0
  /\ pass = "read" /\ count = 0
  /\ held = 0 /\ signalled = 0 /\ received = 0
  /\ refused = 0 /\ dropped = 0

\* Channel.Send: the application never waits for room.
Send ==
  /\ sends < MaxSends
  /\ sends' = sends + 1 /\ queued' = queued + 1
  /\ UNCHANGED <<pass, count, held, signalled, received, refused, dropped>>

\* The device answers a submitted read.
Echo ==
  /\ held > 0 /\ signalled < UrbCount
  /\ held' = held - 1 /\ signalled' = signalled + 1
  /\ UNCHANGED <<queued, sends, pass, count, received, refused, dropped>>

\* Mutant: the result of frame_read is not looked at.
ReadUntested ==
  /\ pass = "read"
  /\ signalled' = signalled - 1 /\ received' = received + 1
  /\ pass' = "take" /\ count' = 0
  /\ UNCHANGED <<queued, sends, held, refused, dropped>>

\* Mutant: a read only when there is something to send.
ReadOnlyWhenSending ==
  /\ pass = "read"
  /\ IF signalled > 0 /\ queued > 0
       THEN signalled' = signalled - 1 /\ received' = received + 1
       ELSE UNCHANGED <<signalled, received>>
  /\ pass' = "take" /\ count' = 0
  /\ UNCHANGED <<queued, sends, held, refused, dropped>>

\* Mutant: the URB that was read is not submitted again, so that it stays
\* signalled.
ReadAndKeep ==
  /\ pass = "read"
  /\ received' = IF signalled > 0 THEN received + 1 ELSE received
  /\ UNCHANGED signalled
  /\ pass' = "take" /\ count' = 0
  /\ UNCHANGED <<queued, sends, held, refused, dropped>>

\* One frame_read per pass; an empty queue waits for 10 ms at most.
ReadOne ==
  /\ pass = "read"
  /\ IF signalled > 0
       THEN signalled' = signalled - 1 /\ received' = received + 1
       ELSE UNCHANGED <<signalled, received>>
  /\ pass' = "take" /\ count' = 0
  /\ UNCHANGED <<queued, sends, held, refused, dropped>>

\* if (count++ > 64) break;
AfterAction == IF count > BatchLimit THEN "read" ELSE "take"

\* candle_frame_send; a failure that it reports throws out of the batch to the
\* worker's catch.
Take ==
  /\ pass = "take" /\ queued > 0
  /\ queued' = queued - 1
  /\ count' = count + 1
  /\ \/ /\ held < BufferCount
        /\ held' = held + 1
        /\ pass' = AfterAction
        /\ UNCHANGED <<refused, dropped>>
     \/ /\ held = BufferCount
        /\ \/ refused' = refused + 1 /\ pass' = "read" /\ UNCHANGED dropped
           \/ dropped' = dropped + 1 /\ pass' = AfterAction /\ UNCHANGED refused
        /\ UNCHANGED held
  /\ UNCHANGED <<sends, signalled, received>>

TakeNothing ==
  /\ pass = "take" /\ queued = 0
  /\ pass' = "read"
  /\ UNCHANGED <<queued, sends, count, held, signalled, received, refused, dropped>>

Next == Send \/ Echo \/ ReadOne \/ Take \/ TakeNothing

Spec == Init /\ [][Next]_vars

(* The bus, the device and the worker go on by themselves, at whatever     *)
(* speed; nothing makes the application send.                              *)
FairSpec == Spec /\ WF_vars(Echo) /\ WF_vars(ReadOne \/ Take \/ TakeNothing)

-----------------------------------------------------------------------------
(* Properties.                                                             *)

Failed == refused + dropped

\* What an application can count: its sends that have neither failed nor come back.
UnderWay == sends - received - Failed

\* The bus has kept up: what can be echoed has been.
Echoed == held = 0 \/ signalled = UrbCount

\* A send fails only when more frames are under way than the device has buffers
\* for, whatever the order of sends, echoes and reads: an application that never
\* has more than BufferCount under way sees no failure.  When the bus has kept up,
\* the URBs hold their share as well.
\* (candle_frame_send, ThreadedUpdate; the 94 messages of NativeTest.cpp:46)
FailureNeedsOverrun ==
  [][Failed' > Failed =>
       /\ UnderWay > BufferCount
       /\ Echoed => UnderWay > UrbCount + BufferCount]_vars

\* Once the application has stopped sending (it sends a bounded number of
\* frames here), every send has failed or its echo is received: the worker goes
\* on reading with an empty queue.  (ThreadedUpdate, README.md:11)
EverythingReceived == <>[](sends = received + Failed)

\* The background thread does the receiving that sending needs: when it comes to a
\* send while all URBs wait to be read, the device still has a buffer free.
\* (README.md:11)
ReadsKeepUp ==
  pass = "take" /\ queued > 0 /\ signalled = UrbCount => held < BufferCount
=============================================================================
