------------------------------ MODULE DeviceRx ------------------------------
(***************************************************************************)
(* Device.cs on top of candle.c's receive ring: the same steps as in       *)
(* modules Device and RxRing, each native call that touches the ring made  *)
(* by the thread that makes it, at the step at which it makes it.  The     *)
(* device completes reads at any time.                                     *)
(***************************************************************************)
EXTENDS Naturals, Sequences, FiniteSets

CONSTANTS Owner, Clients, BatchLimit, MaxQueue, MaxErrors  \* of Device
CONSTANTS UrbCount, MaxTransfers                           \* of RxRing

ASSUME DeviceRxAssumption ==
  /\ Owner \notin Clients
  /\ BatchLimit \in Nat /\ MaxQueue \in Nat /\ MaxErrors \in Nat
  /\ UrbCount \in Nat \ {0} /\ MaxTransfers \in Nat

VARIABLES fThread, isClosing, actionMode, actionQueue, errorMode, errors, native,
          wpc, current, count, sendRun, pc, call, returnEvent  \* of Device
VARIABLES dev, next, urb, holds, stamp, submitted, results, taken, delivered,
          stamps, lastError, returned                                  \* of RxRing

D == INSTANCE Device
R == INSTANCE RxRing

deviceVars == <<fThread, isClosing, actionMode, actionQueue, errorMode, errors, native,
                wpc, current, count, sendRun, pc, call, returnEvent>>
ringVars == <<dev, next, urb, holds, stamp, submitted, results, taken, delivered,
              stamps, lastError, returned>>
vars == <<deviceVars, ringVars>>

Init == D!Init /\ R!Init

-----------------------------------------------------------------------------
(* candle_dev_open, inside Device.Open.                                    *)

Opening == D!Alive /\ pc[Owner] = "nativeOpen"

OpenThrows == D!NativeOpen /\ native' = native

BeginOpen ==
  /\ Opening
  /\ R!BeginOpen
  /\ IF dev' = "opening" THEN UNCHANGED deviceVars ELSE OpenThrows

\* Mutant: what candle_prepare_read returns is not looked at.
RefusalIgnored == D!NativeOpen /\ native' = "open"

\* A read is refused: candle_dev_open returns false.
Refusal == OpenThrows

SubmitNext ==
  /\ Opening
  /\ R!SubmitNext
  /\ IF dev' = "opening" THEN UNCHANGED deviceVars ELSE Refusal

EndOpen ==
  /\ Opening
  /\ R!EndOpen
  /\ D!NativeOpen /\ native' = "open"

\* Open's flush, once the queues are there: frames are thrown away until a read
\* returns none, for whatever reason.
FlushTake == D!Alive /\ pc[Owner] = "flush" /\ R!Take /\ UNCHANGED deviceVars

FlushRead == R!Read /\ IF returned' THEN D!FlushFrame ELSE D!FlushEnd

-----------------------------------------------------------------------------
(* The worker.                                                             *)

WorkerTake == wpc = "read" /\ R!Take /\ UNCHANGED deviceVars

\* Mutant: no read while there is something to send.
ReadWhenIdle ==
  IF actionQueue # <<>> /\ taken = {} THEN D!Receive /\ UNCHANGED ringVars
  ELSE R!Read /\ (D!Receive \/ (returned' /\ D!ReceiveFault))

\* One frame_read, whose failure is ignored; the conversion of a frame may throw.
WorkerRead == R!Read /\ (D!Receive \/ (returned' /\ D!ReceiveFault))

\* The only queued action that touches the ring is Close's.
WorkerAct ==
  /\ D!PerformAction
  /\ IF current.req.op = "close" THEN R!CloseDev ELSE UNCHANGED ringVars

WorkerElse == (D!LoopTest \/ D!TryTake \/ D!Catch) /\ UNCHANGED ringVars

Worker == WorkerTake \/ WorkerRead \/ WorkerAct \/ WorkerElse

-----------------------------------------------------------------------------

OwnerElse ==
  /\ \/ D!CompleteActions \/ D!CompleteErrors \/ D!Join \/ D!DropQueues
     \/ D!CreateQueues \/ D!FlushAgain \/ D!CreateThread \/ D!StartThread \/ D!Free
  /\ UNCHANGED ringVars

OpenClose ==
  BeginOpen \/ SubmitNext \/ EndOpen \/ FlushTake \/ FlushRead \/ OwnerElse

Calls(t) == D!Continue(t) /\ UNCHANGED ringVars

Application == (D!Begin \/ D!Ended) /\ UNCHANGED ringVars

Transfer == R!Complete /\ UNCHANGED deviceVars

Next ==
  \/ Worker \/ OpenClose \/ Application \/ Transfer
  \/ \E t \in D!Threads : Calls(t)

\* A read that takes the URB back into the ring.
ReadAccepted == WorkerRead /\ Len(submitted') > Len(submitted)

\* Threads are scheduled, and WinUSB does not refuse every read for ever.
Fairness ==
  /\ WF_vars(Worker)
  /\ SF_vars(ReadAccepted)
  /\ \A t \in D!Threads : WF_vars(Calls(t))
  /\ WF_vars(OpenClose)

Spec == Init /\ [][Next]_vars /\ Fairness

-----------------------------------------------------------------------------
(* Properties.                                                             *)

\* The two layers agree on whether the device is open; whoever reads does so from
\* an open ring, and nobody else is inside a candle_frame_read; and a Device that is
\* closed has a read submitted only when an open of it was refused one.
\* (Device.Open, Close, ThreadedUpdate; candle_dev_open, candle_dev_close)
RingFollowsDevice ==
  /\ native = "open" <=> dev = "open"
  /\ wpc = "read" \/ pc[Owner] \in {"createQueues", "flush", "discard"} => dev = "open"
  /\ dev = "opening" => pc[Owner] = "nativeOpen" /\ ~fThread
  /\ taken # {} => wpc = "read" \/ pc[Owner] = "flush"
  /\ submitted # <<>> => dev \in {"opening", "open", "leaked"}

\* The memory of a device is given back while reads into it are submitted only
\* when an open of it was refused a read.  (That handle stays, with the reads that
\* were not refused, and every later open fails.)
\* (Device.Dispose, candle_dev_close, candle_dev_open's early return)
FreedWhenQuiet == native = "freed" /\ submitted # <<>> => dev = "leaked"

\* When the bus is quiet, nothing stays behind in the URBs of an open device:
\* the flush of Open and the worker take out every transfer, good or bad, whatever
\* else is queued and whichever replacement reads are refused.  (On a bus that is
\* never quiet a high URB may wait for ever, as the lowest event goes first.)
\* (Device.ThreadedUpdate, candle_frame_read)
UrbsAreEmptied == R!Done # {} ~> (R!Done = {} \/ dev # "open")
=============================================================================
