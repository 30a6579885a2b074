------------------------------- MODULE Device -------------------------------
(***************************************************************************)
(* Candle.NET/Device.cs: one Device object, its background thread (the     *)
(* worker, ThreadedUpdate) and the application threads that call it.       *)
(*                                                                         *)
(* One application thread, the Owner, opens, closes and disposes of the    *)
(* Device; any other thread (Clients, possibly none) only sends, queries   *)
(* and reads errors.  A native call is a value in a small set of outcomes; *)
(* the native device is modelled as closed, open or freed.  Channel.cs     *)
(* reaches the Device only through the calls modelled here.                *)
(***************************************************************************)
EXTENDS Naturals, Sequences

CONSTANTS
  Owner,       \* the thread that calls Open, Close and Dispose
  Clients,     \* the other application threads
  BatchLimit,  \* actions are taken in a row until count++ > BatchLimit (64)
  MaxQueue,    \* bound: no new call begins while so many actions are queued
  MaxErrors    \* bound: no avoidable failure while so many errors are queued

ASSUME DeviceAssumption ==
  /\ Owner \notin Clients
  /\ BatchLimit \in Nat
  /\ MaxQueue \in Nat
  /\ MaxErrors \in Nat

Threads == Clients \cup {Owner}

-----------------------------------------------------------------------------
(* Actions of the queue.  "send" is frame_send; "control" a native request *)
(* that needs the device (Channel.Start, Stop, SetBitrate, SetTiming);     *)
(* "query" one of the properties Path, Timestamp, DeviceState, some of     *)
(* which need no device; "barrier" an action that cannot fail              *)
(* (BlockUntilActionsComplete, Channel.Capabilities); "close" is the       *)
(* lambda of Close.                                                        *)

Requests ==
  [op : {"send"}, blocking : BOOLEAN] \cup
  [op : {"query", "control", "barrier"}, blocking : {TRUE}]

CloseRequest == [op |-> "close", blocking |-> TRUE]

\* A queued action remembers the thread whose returnEvent it sets.
Actions == [by : Threads, req : Requests \cup {CloseRequest}]

\* No call in progress; no action taken.
NoRequest == [op |-> "none", blocking |-> FALSE]
NoAction == [by |-> Owner, req |-> NoRequest]

\* The calls that go through PerformInRightThread instead of PerformBlocking.
RightThreadOps == {"send", "query"}

VARIABLES
  fThread,      \* FThread # null, that is IsOpen
  isClosing,    \* FIsClosing
  actionMode,   \* FActionQueue: "null" (or disposed), "adding", "completed"
  actionQueue,  \* its contents
  errorMode,    \* FExceptionQueue: the same three
  errors,       \* its Count
  native,       \* the native device: "closed", "open" or "freed"
  wpc,          \* where the worker is in ThreadedUpdate
  current,      \* the action the worker has taken
  count,        \* ThreadedUpdate's local count
  sendRun,      \* frame_sends by the worker since its last frame_read
  pc,           \* where each application thread is
  call,         \* the action it is passing to the Device
  returnEvent   \* its ManualResetEvent: "unset", or set with the outcome

worker == <<wpc, current, count, sendRun>>
queues == <<actionMode, actionQueue, errorMode, errors>>
vars == <<fThread, isClosing, queues, native, worker, pc, call, returnEvent>>

OwnerPcs == {"completeActions", "completeErrors", "join", "dropQueues",
             "nativeOpen", "createQueues", "flush", "discard", "createThread",
             "startThread", "free"}
Outcomes == {"ok", "failed"}
Modes == {"null", "adding", "completed"}

TypeOK ==
  /\ fThread \in BOOLEAN
  /\ isClosing \in BOOLEAN
  /\ actionMode \in Modes
  /\ actionQueue \in Seq(Actions)
  /\ errorMode \in Modes
  /\ errors \in Nat
  /\ native \in {"closed", "open", "freed"}
  /\ wpc \in {"none", "loop", "read", "take", "act", "caught", "exited", "crashed"}
  /\ current \in Actions \cup {NoAction}
  /\ count \in Nat
  /\ sendRun \in Nat
  /\ pc \in [Threads -> {"idle", "inline", "add", "wait", "drain"} \cup OwnerPcs]
  /\ call \in [Threads -> Requests \cup {CloseRequest, NoRequest}]
  /\ returnEvent \in [Threads -> Outcomes \cup {"unset"}]

\* A new Device: the constructor only stores the native handle.
Init ==
  /\ fThread = FALSE
  /\ isClosing = FALSE
  /\ actionMode = "null" /\ actionQueue = <<>>
  /\ errorMode = "null" /\ errors = 0
  /\ native = "closed"
  /\ wpc = "none"
  /\ current = NoAction
  /\ count = 0 /\ sendRun = 0
  /\ pc = [t \in Threads |-> "idle"]
  /\ call = [t \in Threads |-> NoRequest]
  /\ returnEvent = [t \in Threads |-> "unset"]

\* An exception that leaves the worker ends the process, and every thread with it.
Alive == wpc # "crashed"

Goto(t, from, to) == Alive /\ pc[t] = from /\ pc' = [pc EXCEPT ![t] = to]

\* A call returns to the application.
Finish(t, from) == Goto(t, from, "idle") /\ call' = [call EXCEPT ![t] = NoRequest]

-----------------------------------------------------------------------------
(* The worker: ThreadedUpdate.                                             *)

\* while (!FIsClosing); the locals of a pass are new in the next.
LoopTest ==
  /\ wpc = "loop"
  /\ wpc' = IF isClosing THEN "exited" ELSE "read"
  /\ current' = NoAction /\ count' = 0
  /\ UNCHANGED <<fThread, isClosing, queues, native, sendRun, pc, call,
                 returnEvent>>

\* frame_read gave nothing, or a frame that a Channel has taken.
Receive ==
  /\ wpc = "read"
  /\ wpc' = "take"
  /\ sendRun' = 0
  /\ UNCHANGED <<fThread, isClosing, queues, native, current, count, pc, call,
                 returnEvent>>

\* The frame names no Channel, or its dlc exceeds its data: the conversion
\* throws and this pass performs no action.
ReceiveFault ==
  /\ wpc = "read"
  /\ errors < MaxErrors
  /\ wpc' = "caught"
  /\ sendRun' = 0
  /\ UNCHANGED <<fThread, isClosing, queues, native, current, count, pc, call,
                 returnEvent>>

\* Mutant: the action queued last is taken first.
TryTakeLast ==
  /\ wpc = "take"
  /\ \/ /\ actionQueue = <<>>
        /\ wpc' = "loop"
        /\ current' = NoAction
        /\ UNCHANGED actionQueue
     \/ /\ actionQueue # <<>>
        /\ wpc' = "act"
        /\ current' = actionQueue[Len(actionQueue)]
        /\ actionQueue' = SubSeq(actionQueue, 1, Len(actionQueue) - 1)
  /\ UNCHANGED <<fThread, isClosing, actionMode, errorMode, errors, native,
                 count, sendRun, pc, call, returnEvent>>

\* while (FActionQueue.TryTake(out action))
TryTake ==
  /\ wpc = "take"
  /\ \/ /\ actionQueue = <<>>
        /\ wpc' = "loop"
        /\ current' = NoAction
        /\ UNCHANGED actionQueue
     \/ /\ actionQueue # <<>>
        /\ wpc' = "act"
        /\ current' = Head(actionQueue)
        /\ actionQueue' = Tail(actionQueue)
  /\ UNCHANGED <<fThread, isClosing, actionMode, errorMode, errors, native,
                 count, sendRun, pc, call, returnEvent>>

\* What the native call of an operation may answer.
Results(op) ==
  IF op \in {"close", "barrier"} THEN {"ok"}
  ELSE IF native = "open" \/ op = "query" THEN Outcomes
  ELSE {"failed"}

\* Mutant: the batch has no limit.
AfterActionUnlimited == "take"

\* if (count++ > 64) break;
AfterAction == IF count > BatchLimit THEN "loop" ELSE "take"

\* action(): a blocking action catches its exception and sets its caller's
\* event; an exception of another action reaches the worker's catch.
PerformAction ==
  /\ wpc = "act"
  /\ \E result \in Results(current.req.op) :
       \/ /\ current.req.blocking
          /\ returnEvent' = [returnEvent EXCEPT ![current.by] = result]
          /\ wpc' = AfterAction
       \/ /\ ~current.req.blocking
          /\ result = "failed" /\ native = "open" => errors < MaxErrors
          /\ wpc' = IF result = "ok" THEN AfterAction ELSE "caught"
          /\ UNCHANGED returnEvent
  /\ isClosing' = (isClosing \/ current.req.op = "close")
  /\ native' = IF current.req.op = "close" THEN "closed" ELSE native
  /\ sendRun' = IF current.req.op = "send" THEN sendRun + 1 ELSE sendRun
  /\ count' = count + 1
  /\ UNCHANGED <<fThread, queues, current, pc, call>>

\* catch (Exception e) { FExceptionQueue.Add(e); }: the Add itself throws on a
\* completed collection; nothing catches that, and the process ends.
Catch ==
  /\ wpc = "caught"
  /\ \/ /\ errorMode = "adding"
        /\ errors' = errors + 1
        /\ wpc' = "loop"
     \/ /\ errorMode # "adding"
        /\ wpc' = "crashed"
        /\ UNCHANGED errors
  /\ UNCHANGED <<fThread, isClosing, actionMode, actionQueue, errorMode, native,
                 current, count, sendRun, pc, call, returnEvent>>

Worker ==
  LoopTest \/ Receive \/ ReceiveFault \/ TryTake \/ PerformAction \/ Catch

-----------------------------------------------------------------------------
(* Calls of any application thread.                                        *)

\* A call begins.  PerformInRightThread reads IsOpen here: when it is false
\* the thread will run the action itself.
BeginCall(t) ==
  /\ native # "freed"
  /\ Len(actionQueue) < MaxQueue
  /\ \E r \in Requests :
       /\ call' = [call EXCEPT ![t] = r]
       /\ Goto(t, "idle", IF r.op \in RightThreadOps /\ ~fThread
                          THEN "inline" ELSE "add")
  /\ UNCHANGED <<fThread, isClosing, queues, native, worker, returnEvent>>

\* The action runs in the calling thread; an exception reaches the caller.
Inline(t) ==
  /\ Finish(t, "inline")
  /\ UNCHANGED <<fThread, isClosing, queues, native, worker, returnEvent>>

\* FActionQueue.Add throws when the queue is null, disposed or completed.
Add(t) ==
  /\ \/ /\ actionMode = "adding"
        /\ actionQueue' = Append(actionQueue, [by |-> t, req |-> call[t]])
        /\ IF call[t].blocking
             THEN Goto(t, "add", "wait") /\ UNCHANGED call
             ELSE Finish(t, "add")
     \/ /\ actionMode # "adding"
        /\ Finish(t, "add")
        /\ UNCHANGED actionQueue
  /\ UNCHANGED <<fThread, isClosing, actionMode, errorMode, errors, native,
                 worker, returnEvent>>

\* Mutant: one event per thread, used again without Reset.
ReturnWithoutReset(t) ==
  /\ returnEvent[t] # "unset"
  /\ IF call[t].op = "close"
       THEN Goto(t, "wait", "completeActions") /\ UNCHANGED call
       ELSE Finish(t, "wait")
  /\ UNCHANGED <<fThread, isClosing, queues, native, worker, returnEvent>>

\* returnEvent.WaitOne() returns; the next call makes a new event.
Return(t) ==
  /\ returnEvent[t] # "unset"
  /\ returnEvent' = [returnEvent EXCEPT ![t] = "unset"]
  /\ IF call[t].op = "close"
       THEN Goto(t, "wait", "completeActions") /\ UNCHANGED call
       ELSE Finish(t, "wait")
  /\ UNCHANGED <<fThread, isClosing, queues, native, worker>>

\* ReceiveErrors: the IsOpen test, then the TryTake loop (which throws to the
\* caller when a Close has set the queue to null in between).
BeginReceiveErrors(t) ==
  /\ native # "freed"
  /\ fThread
  /\ Goto(t, "idle", "drain")
  /\ UNCHANGED <<fThread, isClosing, queues, native, worker, call, returnEvent>>

\* Mutant: one Take, without a look at the Count.
DrainErrorsUntested(t) ==
  /\ Goto(t, "drain", "idle")
  /\ errors' = errors - 1
  /\ UNCHANGED <<fThread, isClosing, actionMode, actionQueue, errorMode, native,
                 worker, call, returnEvent>>

DrainErrors(t) ==
  /\ Goto(t, "drain", "idle")
  /\ errors' = 0
  /\ UNCHANGED <<fThread, isClosing, actionMode, actionQueue, errorMode, native,
                 worker, call, returnEvent>>

\* NotifyError: the application adds an exception of its own.
NotifyError(t) ==
  /\ Alive /\ pc[t] = "idle" /\ native # "freed"
  /\ errorMode = "adding" /\ errors < MaxErrors
  /\ errors' = errors + 1
  /\ UNCHANGED <<fThread, isClosing, actionMode, actionQueue, errorMode, native,
                 worker, pc, call, returnEvent>>

-----------------------------------------------------------------------------
(* Open, Close and Dispose, called by the Owner.  Open and Dispose begin   *)
(* with Close; which of the three it was shows when Close is over.         *)

AfterClose == {"idle", "nativeOpen", "free"}

\* Mutant: FIsClosing is set by the caller and not in the close action.
BeginCloseFlagged ==
  /\ native # "freed"
  /\ \/ /\ fThread
        /\ isClosing' = TRUE
        /\ Goto(Owner, "idle", "add")
        /\ call' = [call EXCEPT ![Owner] = CloseRequest]
     \/ /\ ~fThread
        /\ \E next \in AfterClose \ {"idle"} : Goto(Owner, "idle", next)
        /\ UNCHANGED <<call, isClosing>>
  /\ UNCHANGED <<fThread, queues, native, worker, returnEvent>>

\* if (FThread != null) PerformBlocking(close)
BeginClose ==
  /\ native # "freed"
  /\ \/ /\ fThread
        /\ Goto(Owner, "idle", "add")
        /\ call' = [call EXCEPT ![Owner] = CloseRequest]
     \/ /\ ~fThread
        /\ \E next \in AfterClose \ {"idle"} : Goto(Owner, "idle", next)
        /\ UNCHANGED call
  /\ UNCHANGED <<fThread, isClosing, queues, native, worker, returnEvent>>

\* FActionQueue.CompleteAdding()
CompleteActions ==
  /\ Goto(Owner, "completeActions", "completeErrors")
  /\ actionMode' = "completed"
  /\ UNCHANGED <<fThread, isClosing, actionQueue, errorMode, errors, native,
                 worker, call, returnEvent>>

\* FExceptionQueue.CompleteAdding()
CompleteErrors ==
  /\ Goto(Owner, "completeErrors", "join")
  /\ errorMode' = "completed"
  /\ UNCHANGED <<fThread, isClosing, actionMode, actionQueue, errors, native,
                 worker, call, returnEvent>>

\* Mutant: no Join.
NoJoin ==
  /\ Goto(Owner, "join", "dropQueues")
  /\ fThread' = FALSE
  /\ UNCHANGED <<isClosing, queues, native, worker, call, returnEvent>>

\* FThread.Join(); FThread = null
Join ==
  /\ Goto(Owner, "join", "dropQueues")
  /\ wpc = "exited"
  /\ fThread' = FALSE
  /\ UNCHANGED <<isClosing, queues, native, worker, call, returnEvent>>

\* Both queues are disposed of and set to null, with what they still hold.
DropQueues ==
  /\ \E next \in AfterClose : Goto(Owner, "dropQueues", next)
  /\ call' = [call EXCEPT ![Owner] = NoRequest]
  /\ actionMode' = "null" /\ actionQueue' = <<>>
  /\ errorMode' = "null" /\ errors' = 0
  /\ UNCHANGED <<fThread, isClosing, native, worker, returnEvent>>

\* candle_dev_open, which may fail and then throws.
NativeOpen ==
  /\ \/ native' = "open" /\ Goto(Owner, "nativeOpen", "createQueues")
     \/ UNCHANGED native /\ Goto(Owner, "nativeOpen", "idle")
  /\ UNCHANGED <<fThread, isClosing, queues, worker, call, returnEvent>>

CreateQueues ==
  /\ Goto(Owner, "createQueues", "flush")
  /\ actionMode' = "adding" /\ actionQueue' = <<>>
  /\ errorMode' = "adding" /\ errors' = 0
  /\ UNCHANGED <<fThread, isClosing, native, worker, call, returnEvent>>

\* The Owner itself reads what the device has received, and throws it away, until
\* a candle_frame_read returns false.
FlushFrame ==
  /\ Goto(Owner, "flush", "discard")
  /\ UNCHANGED <<fThread, isClosing, queues, native, worker, call, returnEvent>>

FlushAgain ==
  /\ Goto(Owner, "discard", "flush")
  /\ UNCHANGED <<fThread, isClosing, queues, native, worker, call, returnEvent>>

FlushEnd ==
  /\ Goto(Owner, "flush", "createThread")
  /\ UNCHANGED <<fThread, isClosing, queues, native, worker, call, returnEvent>>

CreateThread ==
  /\ Goto(Owner, "createThread", "startThread")
  /\ isClosing' = FALSE
  /\ fThread' = TRUE
  /\ UNCHANGED <<queues, native, worker, call, returnEvent>>

\* The Channels are built anew (candle_channel_count cannot fail), and the
\* worker starts.
StartThread ==
  /\ Goto(Owner, "startThread", "idle")
  /\ wpc' = "loop"
  /\ UNCHANGED <<fThread, isClosing, queues, native, current, count, sendRun,
                 call, returnEvent>>

\* candle_dev_free
Free ==
  /\ Goto(Owner, "free", "idle")
  /\ native' = "freed"
  /\ UNCHANGED <<fThread, isClosing, queues, worker, call, returnEvent>>

-----------------------------------------------------------------------------

\* What a thread does once its call has begun, and the Owner's own steps.
Continue(t) == Inline(t) \/ Add(t) \/ Return(t) \/ DrainErrors(t)

OpenClose ==
  \/ CompleteActions \/ CompleteErrors \/ Join \/ DropQueues
  \/ NativeOpen \/ CreateQueues \/ FlushFrame \/ FlushAgain \/ FlushEnd
  \/ CreateThread \/ StartThread \/ Free

Begin ==
  \/ \E t \in Threads : BeginCall(t) \/ BeginReceiveErrors(t) \/ NotifyError(t)
  \/ BeginClose

\* The Device has been disposed of and every thread has returned, or the
\* process is gone.
Ended ==
  /\ \/ native = "freed" /\ \A t \in Threads : pc[t] = "idle"
     \/ ~Alive
  /\ UNCHANGED vars

Next ==
  \/ Worker
  \/ Begin
  \/ \E t \in Threads : Continue(t)
  \/ OpenClose
  \/ Ended

Spec == Init /\ [][Next]_vars

(* The operating system schedules every runnable thread.  Nothing is       *)
(* assumed of what candle_frame_read returns, and nothing makes the        *)
(* application begin a call.                                               *)
Fairness ==
  /\ WF_vars(Worker)
  /\ \A t \in Threads : WF_vars(Continue(t))
  /\ WF_vars(OpenClose)

FairSpec == Spec /\ Fairness

-----------------------------------------------------------------------------
(* Properties.                                                             *)

Running == wpc \in {"loop", "read", "take", "act", "caught"}

\* Where the blocking action of thread t may still be waited for.
QueuedFor(t) == {i \in DOMAIN actionQueue : /\ actionQueue[i].by = t
                                            /\ actionQueue[i].req.blocking}
PerformingFor(t) == wpc = "act" /\ current.by = t /\ current.req.blocking

\* The native handle has one user at a time among the Owner and the worker:
\* the worker reads only from an open device, because the close action runs in
\* the worker, between two reads; and the Owner uses the handle itself (the
\* flush of Open, candle_dev_open, candle_dev_free, an inline action) only
\* while no worker runs.  (Device.Close, Open, PerformInRightThread)
HandleHandoff ==
  /\ wpc = "read" => native = "open"
  /\ pc[Owner] \in {"inline", "nativeOpen", "createQueues", "flush", "discard",
                    "createThread", "free"}
       => ~Running

\* A running worker never meets a null queue: Close sets the queues to null
\* after Join, Open starts the thread after creating them.
WorkerHasQueues == Running => actionMode # "null" /\ errorMode # "null"

\* A thread blocked in PerformBlocking is owed at most one thing: its action is
\* queued once, or is being performed, or has set the event.  So WaitOne returns
\* only after the action of this very call, performed once.
BlockedCallAccounted ==
  \A t \in Threads : pc[t] = "wait" =>
    /\ \A i, j \in QueuedFor(t) : i = j
    /\ PerformingFor(t) => QueuedFor(t) = {}
    /\ returnEvent[t] # "unset" => QueuedFor(t) = {} /\ ~PerformingFor(t)

\* While the Owner waits for an action, its action is queued or being performed
\* and the worker is there to perform it, unless the event is already set or the
\* process is gone.  Clients have no such guarantee: a Close may overtake their
\* call.
OwnerNotAbandoned ==
  pc[Owner] = "wait" /\ returnEvent[Owner] = "unset" =>
    /\ Running \/ ~Alive
    /\ PerformingFor(Owner) \/ QueuedFor(Owner) # {}

\* The close action is behind everything its caller has queued: once it has
\* run, nothing of the Owner's is left to be performed on a closed device, or
\* dropped with the queue.
NothingOfOwnerBehindClose ==
  isClosing => \A i \in DOMAIN actionQueue : actionQueue[i].by # Owner

\* The worker's catch throws only for an action that another thread queued
\* while the Owner was closing the Device; a Device used by one thread never
\* loses its worker that way.
CrashNeedsClient == wpc = "crashed" => isClosing /\ current.by \in Clients

\* Between two reads the worker sends no more than one batch: the limit of
\* Device.cs:355 against "more than 92 message in a row between receives".
SendRunBounded == sendRun <= BatchLimit + 2

\* Open's flush finds a frame at every read, for ever: a bus that fills URBs faster
\* than they are read.
FlushedForEver == <>[](pc[Owner] \in {"flush", "discard"})

\* From some pass on every pass of the worker meets a frame that cannot be
\* converted, and performs no action.
EveryPassFails == <>[](Running /\ wpc # "take")

\* Every call of the Owner comes back, Close and Open included, whatever other
\* threads do, unless the process has crashed.  There are two ways in which the bus
\* can keep the Owner for ever, and no third.
\* (Device.Open, Close, PerformBlocking, ThreadedUpdate)
OwnerCallsReturn ==
  \/ FlushedForEver
  \/ EveryPassFails
  \/ pc[Owner] # "idle" ~> (pc[Owner] = "idle" \/ ~Alive)

\* BlockUntilActionsComplete(TimeSpan timeout) comes back, its action performed
\* or its timeout over, at least when the bus keeps neither Owner nor worker.
BarrierReturns ==
  \/ FlushedForEver
  \/ EveryPassFails
  \/ \A t \in Clients :
       (pc[t] = "wait" /\ call[t].op = "barrier") ~> (pc[t] # "wait" \/ ~Alive)
=============================================================================
