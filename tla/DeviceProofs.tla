----------------------------- MODULE DeviceProofs -----------------------------
(***************************************************************************)
(* For every set of client threads and every value of the bounds: IInv is  *)
(* an inductive invariant of Device, and the safety properties follow.     *)
(*                                                                         *)
(* One lemma per conjunct of IInv says that a step from a state of IInv    *)
(* preserves it; each has one proof step per action of the worker and of   *)
(* the threads, and one for those of Open and Close together, which write  *)
(* only the Owner's pc and the modes.                                      *)
(***************************************************************************)
EXTENDS DeviceInvariant, SequenceTheorems, TLAPS

-----------------------------------------------------------------------------
(* Data: requests, actions and the two operations on the queue.            *)

\* What sets the requests apart: which blocks, and which the Owner alone makes.
\* (the actions passed to Perform and PerformBlocking)
LEMMA RequestShape ==
  /\ \A r \in Requests \cup {CloseRequest, NoRequest} : r.blocking \in BOOLEAN
  /\ \A r \in Requests : r.op \in {"send", "query", "control", "barrier"}
  /\ \A r \in Requests : r.op # "send" => r.blocking = TRUE
  /\ CloseRequest.op = "close" /\ CloseRequest.blocking = TRUE
  /\ NoRequest.op = "none" /\ NoRequest.blocking = FALSE
  /\ CloseRequest \notin Requests /\ NoRequest \notin Requests
  /\ NoRequest # CloseRequest
<1>1. \A r \in Requests : r.op \in {"send", "query", "control", "barrier"}
  BY DEF Requests
<1>2. \A r \in Requests : r.op # "send" => r.blocking = TRUE
  BY DEF Requests
<1>3. \A r \in Requests : r.blocking \in BOOLEAN
  BY DEF Requests
<1>4. CloseRequest.op = "close" /\ CloseRequest.blocking = TRUE
  BY DEF CloseRequest
<1>5. NoRequest.op = "none" /\ NoRequest.blocking = FALSE
  BY DEF NoRequest
<1>6. \A r \in Requests \cup {CloseRequest, NoRequest} : r.blocking \in BOOLEAN
  BY <1>3, <1>4, <1>5
<1>7. /\ CloseRequest \notin Requests /\ NoRequest \notin Requests
      /\ NoRequest # CloseRequest
  BY <1>1, <1>4, <1>5
<1> QED
  BY <1>1, <1>2, <1>4, <1>5, <1>6, <1>7

\* An action has the thread that queued it and a request; NoAction is none of them.
\* (FActionQueue's elements)
LEMMA ActionShape ==
  /\ \A a \in Actions : /\ a.by \in Threads
                         /\ a.req \in Requests \cup {CloseRequest}
  /\ \A t \in Threads, r \in Requests \cup {CloseRequest} :
       [by |-> t, req |-> r] \in Actions
  /\ NoAction.by = Owner /\ NoAction.req = NoRequest
  /\ Owner \in Threads /\ \A t \in Threads : t = Owner \/ t \in Clients
  /\ \A t \in Clients : t \in Threads /\ t # Owner
  BY DeviceAssumption DEF Actions, NoAction, Threads

\* What is queued is an action.  (FActionQueue)
LEMMA QueueElements ==
  ASSUME actionQueue \in Seq(Actions)
  PROVE  \A i \in DOMAIN actionQueue : i \in Nat /\ actionQueue[i] \in Actions
  BY ElementOfSeq, LenProperties

\* The queue of a new collection is a queue of actions, and holds none.
\* (Open, FActionQueue = new)
LEMMA EmptyQueue == <<>> \in Seq(Actions) /\ DOMAIN <<>> = {}
<1>1. <<>> \in Seq(Actions) /\ Len(<<>>) = 0
  BY EmptySeq
<1>2. DOMAIN <<>> = 1 .. 0
  BY <1>1, LenProperties
<1> QED
  BY <1>1, <1>2

\* What TryTake does to a queue that is not empty.
LEMMA TakenAction ==
  ASSUME actionQueue \in Seq(Actions), actionQueue # <<>>, TryTake
  PROVE  /\ wpc = "take" /\ wpc' = "act"
         /\ 1 \in DOMAIN actionQueue /\ current' = actionQueue[1]
         /\ current' \in Actions /\ actionQueue' \in Seq(Actions)
         /\ \A i \in DOMAIN actionQueue' :
              /\ i \in Nat /\ i + 1 # 1 /\ i + 1 \in DOMAIN actionQueue
              /\ actionQueue'[i] = actionQueue[i + 1]
         /\ \A i \in DOMAIN actionQueue : i # 1 =>
              i - 1 \in DOMAIN actionQueue' /\ actionQueue'[i - 1] = actionQueue[i]
<1>1. /\ Head(actionQueue) \in Actions /\ Tail(actionQueue) \in Seq(Actions)
      /\ Len(Tail(actionQueue)) = Len(actionQueue) - 1
      /\ \A i \in 1 .. Len(Tail(actionQueue)) : Tail(actionQueue)[i] = actionQueue[i + 1]
  BY HeadTailProperties
<1>2. Len(actionQueue) \in Nat /\ DOMAIN actionQueue = 1 .. Len(actionQueue)
  BY LenProperties
<1>3. Len(actionQueue) # 0
  BY EmptySeq
<1>4. DOMAIN Tail(actionQueue) = 1 .. Len(actionQueue) - 1
  BY <1>1, LenProperties
<1>5. Head(actionQueue) = actionQueue[1]
  OBVIOUS
<1>6. /\ wpc = "take" /\ wpc' = "act"
      /\ current' = Head(actionQueue) /\ actionQueue' = Tail(actionQueue)
  BY DEF TryTake
<1> QED
  BY <1>1, <1>2, <1>3, <1>4, <1>5, <1>6

\* What Add does to a queue that accepts the action.
LEMMA Added ==
  ASSUME actionQueue \in Seq(Actions), NEW t \in Threads,
         call[t] \in Requests \cup {CloseRequest}, Add(t), actionMode = "adding",
         NEW new, new = [by |-> t, req |-> call[t]]
  PROVE  /\ new \in Actions /\ new.by = t /\ new.req = call[t]
         /\ actionQueue' \in Seq(Actions)
         /\ Len(actionQueue) + 1 \in DOMAIN actionQueue'
         /\ Len(actionQueue) + 1 \notin DOMAIN actionQueue
         /\ actionQueue'[Len(actionQueue) + 1] = new
         /\ \A i \in DOMAIN actionQueue :
              /\ i \in Nat /\ i <= Len(actionQueue) + 1 /\ i \in DOMAIN actionQueue'
              /\ actionQueue'[i] = actionQueue[i]
         /\ \A i \in DOMAIN actionQueue' :
              i \in DOMAIN actionQueue \/ i = Len(actionQueue) + 1
<1>1. new \in Actions /\ new.by = t /\ new.req = call[t]
  BY ActionShape
<1>2. Len(actionQueue) \in Nat /\ DOMAIN actionQueue = 1 .. Len(actionQueue)
  BY LenProperties
<1>3. actionQueue' = Append(actionQueue, new)
  BY DEF Add
<1>4. /\ actionQueue' \in Seq(Actions) /\ Len(actionQueue') = Len(actionQueue) + 1
      /\ \A i \in 1 .. Len(actionQueue) : actionQueue'[i] = actionQueue[i]
      /\ actionQueue'[Len(actionQueue) + 1] = new
  BY <1>1, <1>3, AppendProperties
<1>5. DOMAIN actionQueue' = 1 .. Len(actionQueue) + 1
  BY <1>4, LenProperties
<1> QED
  BY <1>1, <1>2, <1>4, <1>5

\* No step changes the type of a variable.  (Device.cs, all of it)
LEMMA TypeOKStep ==
  ASSUME IInv, [Next]_vars PROVE TypeOK'
<1> USE RequestShape, ActionShape
    DEF IInv, TypeOK, CallsTyped, Outcomes, Modes, vars, worker, queues, Alive,
             Goto, Finish, OwnerPcs, AfterAction, AfterClose
<1>1. CASE LoopTest
  BY <1>1 DEF LoopTest
<1>2. CASE Receive
  BY <1>2 DEF Receive
<1>3. CASE ReceiveFault
  BY <1>3 DEF ReceiveFault
<1>4. CASE TryTake
  <2>1. CASE actionQueue = <<>>
    BY <1>4, <2>1 DEF TryTake
  <2>2. CASE actionQueue # <<>>
    BY <1>4, <2>2, TakenAction DEF TryTake
  <2> QED
    BY <2>1, <2>2
<1>5. CASE PerformAction
  BY <1>5 DEF PerformAction, Results
<1>6. CASE Catch
  BY <1>6 DEF Catch
<1>7. ASSUME NEW t \in Threads, BeginCall(t) PROVE TypeOK'
  BY <1>7 DEF BeginCall, RightThreadOps
<1>8. ASSUME NEW t \in Threads, BeginReceiveErrors(t) PROVE TypeOK'
  BY <1>8 DEF BeginReceiveErrors
<1>9. ASSUME NEW t \in Threads, NotifyError(t) PROVE TypeOK'
  BY <1>9 DEF NotifyError
<1>10. ASSUME NEW t \in Threads, Inline(t) PROVE TypeOK'
  BY <1>10 DEF Inline
<1>11. ASSUME NEW t \in Threads, Add(t) PROVE TypeOK'
  <2>1. CASE actionMode # "adding"
    BY <1>11, <2>1 DEF Add
  <2>2. CASE actionMode = "adding"
    <3>1. call[t] \in Requests \cup {CloseRequest}
      BY <1>11 DEF Add
    <3>2. PICK new : new = [by |-> t, req |-> call[t]]
      OBVIOUS
    <3>3. actionQueue' \in Seq(Actions)
      BY <1>11, <2>2, <3>1, <3>2, Added
    <3>4. pc' \in [Threads -> {"idle", "inline", "add", "wait", "drain"} \cup OwnerPcs]
      BY <1>11 DEF Add
    <3>5. call' \in [Threads -> Requests \cup {CloseRequest, NoRequest}]
      BY <1>11 DEF Add
    <3> QED
      BY <1>11, <2>2, <3>3, <3>4, <3>5 DEF Add
  <2> QED
    BY <2>1, <2>2
<1>12. ASSUME NEW t \in Threads, Return(t) PROVE TypeOK'
  BY <1>12 DEF Return
<1>13. ASSUME NEW t \in Threads, DrainErrors(t) PROVE TypeOK'
  BY <1>13 DEF DrainErrors
<1>14. CASE BeginClose
  BY <1>14 DEF BeginClose
<1>15. CASE OpenClose
  <2>1. fThread' \in BOOLEAN /\ isClosing' \in BOOLEAN
    BY <1>15 DEF OpenClose, CompleteActions, CompleteErrors, Join, DropQueues,
                NativeOpen, CreateQueues, FlushFrame, FlushAgain, FlushEnd,
                CreateThread, StartThread, Free
  <2>2. actionQueue' \in Seq(Actions)
    BY <1>15, EmptyQueue DEF OpenClose, CompleteActions, CompleteErrors, Join,
      DropQueues, NativeOpen, CreateQueues, FlushFrame, FlushAgain, FlushEnd,
      CreateThread, StartThread, Free
  <2> QED
    BY <1>15, <2>1, <2>2 DEF OpenClose, CompleteActions, CompleteErrors, Join,
      DropQueues, NativeOpen, CreateQueues, FlushFrame, FlushAgain, FlushEnd,
      CreateThread, StartThread, Free
<1>16. CASE UNCHANGED vars
  BY <1>16
<1> QED
  BY <1>1, <1>2, <1>3, <1>4, <1>5, <1>6, <1>7, <1>8, <1>9, <1>10, <1>11, <1>12,
           <1>13, <1>14, <1>15, <1>16 DEF Next, Worker, Begin, Continue, Ended

\* The worker exists from Open's StartThread to Close's Join, at every place of the
\* Owner in between.  (Open, Close, ThreadedUpdate)
LEMMA WorkerLifecycleStep ==
  ASSUME IInv, [Next]_vars PROVE WorkerLifecycle'
<1> USE RequestShape, ActionShape, QueueElements
    DEF IInv, Lifecycle, TypeOK, WorkerLifecycle, CloseLifecycle, CallsMatch,
             CallsTyped, QueueLifecycle, Running, Parked, InClose, InOpen, QueuesNew,
             vars, worker, queues, Alive, Goto, Finish, OwnerPcs, AfterAction,
             AfterClose
<1>1. CASE LoopTest
  BY <1>1 DEF LoopTest
<1>2. CASE Receive
  BY <1>2 DEF Receive
<1>3. CASE ReceiveFault
  BY <1>3 DEF ReceiveFault
<1>4. CASE TryTake
  BY <1>4, TakenAction DEF TryTake
<1>5. CASE PerformAction
  BY <1>5 DEF PerformAction, Results
<1>6. CASE Catch
  BY <1>6 DEF Catch
<1>7. ASSUME NEW t \in Threads, BeginCall(t) PROVE WorkerLifecycle'
  BY <1>7 DEF BeginCall, RightThreadOps
<1>8. ASSUME NEW t \in Threads, BeginReceiveErrors(t) PROVE WorkerLifecycle'
  BY <1>8 DEF BeginReceiveErrors
<1>9. ASSUME NEW t \in Threads, NotifyError(t) PROVE WorkerLifecycle'
  BY <1>9 DEF NotifyError
<1>10. ASSUME NEW t \in Threads, Inline(t) PROVE WorkerLifecycle'
  BY <1>10 DEF Inline
<1>11. ASSUME NEW t \in Threads, Add(t) PROVE WorkerLifecycle'
  BY <1>11, Added DEF Add
<1>12. ASSUME NEW t \in Threads, Return(t) PROVE WorkerLifecycle'
  BY <1>12 DEF Return
<1>13. ASSUME NEW t \in Threads, DrainErrors(t) PROVE WorkerLifecycle'
  BY <1>13 DEF DrainErrors
<1>14. CASE BeginClose
  BY <1>14 DEF BeginClose
<1>15. CASE OpenClose
  BY <1>15 DEF OpenClose, CompleteActions, CompleteErrors, Join, DropQueues,
           NativeOpen, CreateQueues, FlushFrame, FlushAgain, FlushEnd,
           CreateThread, StartThread, Free
<1>16. CASE UNCHANGED vars
  BY <1>16
<1> QED
  BY <1>1, <1>2, <1>3, <1>4, <1>5, <1>6, <1>7, <1>8, <1>9, <1>10, <1>11, <1>12,
           <1>13, <1>14, <1>15, <1>16 DEF Next, Worker, Begin, Continue, Ended

\* The queues are made, completed and dropped in the order of Open and Close.
\* (Open, 97-115; Close, 139-152)
LEMMA QueueLifecycleStep ==
  ASSUME IInv, [Next]_vars PROVE QueueLifecycle'
<1> USE RequestShape, ActionShape, QueueElements
    DEF IInv, Lifecycle, TypeOK, QueueLifecycle, WorkerLifecycle, CallsTyped,
             Running, Parked, InClose, InOpen, QueuesNew, vars, worker, queues, Alive,
             Goto, Finish, OwnerPcs, AfterAction, AfterClose
<1>1. CASE LoopTest
  BY <1>1 DEF LoopTest
<1>2. CASE Receive
  BY <1>2 DEF Receive
<1>3. CASE ReceiveFault
  BY <1>3 DEF ReceiveFault
<1>4. CASE TryTake
  BY <1>4, TakenAction DEF TryTake
<1>5. CASE PerformAction
  BY <1>5 DEF PerformAction, Results
<1>6. CASE Catch
  BY <1>6 DEF Catch
<1>7. ASSUME NEW t \in Threads, BeginCall(t) PROVE QueueLifecycle'
  BY <1>7 DEF BeginCall, RightThreadOps
<1>8. ASSUME NEW t \in Threads, BeginReceiveErrors(t) PROVE QueueLifecycle'
  BY <1>8 DEF BeginReceiveErrors
<1>9. ASSUME NEW t \in Threads, NotifyError(t) PROVE QueueLifecycle'
  BY <1>9 DEF NotifyError
<1>10. ASSUME NEW t \in Threads, Inline(t) PROVE QueueLifecycle'
  BY <1>10 DEF Inline
<1>11. ASSUME NEW t \in Threads, Add(t) PROVE QueueLifecycle'
  BY <1>11, Added DEF Add
<1>12. ASSUME NEW t \in Threads, Return(t) PROVE QueueLifecycle'
  BY <1>12 DEF Return
<1>13. ASSUME NEW t \in Threads, DrainErrors(t) PROVE QueueLifecycle'
  BY <1>13 DEF DrainErrors
<1>14. CASE BeginClose
  BY <1>14 DEF BeginClose
<1>15. CASE OpenClose
  BY <1>15 DEF OpenClose, CompleteActions, CompleteErrors, Join, DropQueues,
           NativeOpen, CreateQueues, FlushFrame, FlushAgain, FlushEnd,
           CreateThread, StartThread, Free
<1>16. CASE UNCHANGED vars
  BY <1>16
<1> QED
  BY <1>1, <1>2, <1>3, <1>4, <1>5, <1>6, <1>7, <1>8, <1>9, <1>10, <1>11, <1>12,
           <1>13, <1>14, <1>15, <1>16 DEF Next, Worker, Begin, Continue, Ended

\* The native device is open from candle_dev_open to the close action.
\* (Open, the action of Close)
LEMMA NativeLifecycleStep ==
  ASSUME IInv, [Next]_vars PROVE NativeLifecycle'
<1> USE RequestShape, ActionShape, QueueElements
    DEF IInv, Lifecycle, TypeOK, NativeLifecycle, WorkerLifecycle,
             CloseLifecycle, CallsMatch, CallsTyped, Running, Parked, InClose,
             InOpen, QueuesNew, vars, worker, queues, Alive, Goto, Finish, OwnerPcs,
             AfterAction, AfterClose
<1>1. CASE LoopTest
  BY <1>1 DEF LoopTest
<1>2. CASE Receive
  BY <1>2 DEF Receive
<1>3. CASE ReceiveFault
  BY <1>3 DEF ReceiveFault
<1>4. CASE TryTake
  BY <1>4, TakenAction DEF TryTake
<1>5. CASE PerformAction
  BY <1>5 DEF PerformAction, Results
<1>6. CASE Catch
  BY <1>6 DEF Catch
<1>7. ASSUME NEW t \in Threads, BeginCall(t) PROVE NativeLifecycle'
  BY <1>7 DEF BeginCall, RightThreadOps
<1>8. ASSUME NEW t \in Threads, BeginReceiveErrors(t) PROVE NativeLifecycle'
  BY <1>8 DEF BeginReceiveErrors
<1>9. ASSUME NEW t \in Threads, NotifyError(t) PROVE NativeLifecycle'
  BY <1>9 DEF NotifyError
<1>10. ASSUME NEW t \in Threads, Inline(t) PROVE NativeLifecycle'
  BY <1>10 DEF Inline
<1>11. ASSUME NEW t \in Threads, Add(t) PROVE NativeLifecycle'
  BY <1>11, Added DEF Add
<1>12. ASSUME NEW t \in Threads, Return(t) PROVE NativeLifecycle'
  BY <1>12 DEF Return
<1>13. ASSUME NEW t \in Threads, DrainErrors(t) PROVE NativeLifecycle'
  BY <1>13 DEF DrainErrors
<1>14. CASE BeginClose
  BY <1>14 DEF BeginClose
<1>15. CASE OpenClose
  BY <1>15 DEF OpenClose, CompleteActions, CompleteErrors, Join, DropQueues,
           NativeOpen, CreateQueues, FlushFrame, FlushAgain, FlushEnd,
           CreateThread, StartThread, Free
<1>16. CASE UNCHANGED vars
  BY <1>16
<1> QED
  BY <1>1, <1>2, <1>3, <1>4, <1>5, <1>6, <1>7, <1>8, <1>9, <1>10, <1>11, <1>12,
           <1>13, <1>14, <1>15, <1>16 DEF Next, Worker, Begin, Continue, Ended

\* FIsClosing is set only between the close action and the end of Close.
\* (Close, 132-152)
LEMMA CloseLifecycleStep ==
  ASSUME IInv, [Next]_vars PROVE CloseLifecycle'
<1> USE RequestShape, ActionShape, QueueElements
    DEF IInv, Lifecycle, TypeOK, CloseLifecycle, WorkerLifecycle,
             NativeLifecycle, CallsMatch, CallsTyped, EventsFresh, Running,
             Parked, InClose, InOpen, QueuesNew, vars, worker, queues, Alive, Goto,
             Finish, OwnerPcs, AfterAction, AfterClose
<1>1. CASE LoopTest
  BY <1>1 DEF LoopTest
<1>2. CASE Receive
  BY <1>2 DEF Receive
<1>3. CASE ReceiveFault
  BY <1>3 DEF ReceiveFault
<1>4. CASE TryTake
  BY <1>4, TakenAction DEF TryTake
<1>5. CASE PerformAction
  BY <1>5 DEF PerformAction, Results
<1>6. CASE Catch
  BY <1>6 DEF Catch
<1>7. ASSUME NEW t \in Threads, BeginCall(t) PROVE CloseLifecycle'
  BY <1>7 DEF BeginCall, RightThreadOps
<1>8. ASSUME NEW t \in Threads, BeginReceiveErrors(t) PROVE CloseLifecycle'
  BY <1>8 DEF BeginReceiveErrors
<1>9. ASSUME NEW t \in Threads, NotifyError(t) PROVE CloseLifecycle'
  BY <1>9 DEF NotifyError
<1>10. ASSUME NEW t \in Threads, Inline(t) PROVE CloseLifecycle'
  BY <1>10 DEF Inline
<1>11. ASSUME NEW t \in Threads, Add(t) PROVE CloseLifecycle'
  BY <1>11, Added DEF Add
<1>12. ASSUME NEW t \in Threads, Return(t) PROVE CloseLifecycle'
  BY <1>12 DEF Return
<1>13. ASSUME NEW t \in Threads, DrainErrors(t) PROVE CloseLifecycle'
  BY <1>13 DEF DrainErrors
<1>14. CASE BeginClose
  BY <1>14 DEF BeginClose
<1>15. CASE OpenClose
  BY <1>15 DEF OpenClose, CompleteActions, CompleteErrors, Join, DropQueues,
           NativeOpen, CreateQueues, FlushFrame, FlushAgain, FlushEnd,
           CreateThread, StartThread, Free
<1>16. CASE UNCHANGED vars
  BY <1>16
<1> QED
  BY <1>1, <1>2, <1>3, <1>4, <1>5, <1>6, <1>7, <1>8, <1>9, <1>10, <1>11, <1>12,
           <1>13, <1>14, <1>15, <1>16 DEF Next, Worker, Begin, Continue, Ended

\* A thread inside a call passes a request that it may make.
\* (PerformInRightThread, Perform, PerformBlocking)
LEMMA CallsTypedStep ==
  ASSUME IInv, [Next]_vars PROVE CallsTyped'
<1> USE RequestShape, ActionShape, QueueElements
    DEF IInv, TypeOK, CallsTyped, vars, worker, queues, Alive, Goto, Finish,
             OwnerPcs, AfterAction, AfterClose
<1>1. CASE LoopTest
  BY <1>1 DEF LoopTest
<1>2. CASE Receive
  BY <1>2 DEF Receive
<1>3. CASE ReceiveFault
  BY <1>3 DEF ReceiveFault
<1>4. CASE TryTake
  BY <1>4, TakenAction DEF TryTake
<1>5. CASE PerformAction
  BY <1>5 DEF PerformAction, Results
<1>6. CASE Catch
  BY <1>6 DEF Catch
<1>7. ASSUME NEW t \in Threads, BeginCall(t) PROVE CallsTyped'
  BY <1>7 DEF BeginCall, RightThreadOps
<1>8. ASSUME NEW t \in Threads, BeginReceiveErrors(t) PROVE CallsTyped'
  BY <1>8 DEF BeginReceiveErrors
<1>9. ASSUME NEW t \in Threads, NotifyError(t) PROVE CallsTyped'
  BY <1>9 DEF NotifyError
<1>10. ASSUME NEW t \in Threads, Inline(t) PROVE CallsTyped'
  BY <1>10 DEF Inline
<1>11. ASSUME NEW t \in Threads, Add(t) PROVE CallsTyped'
  BY <1>11 DEF Add
<1>12. ASSUME NEW t \in Threads, Return(t) PROVE CallsTyped'
  BY <1>12 DEF Return
<1>13. ASSUME NEW t \in Threads, DrainErrors(t) PROVE CallsTyped'
  BY <1>13 DEF DrainErrors
<1>14. CASE BeginClose
  BY <1>14 DEF BeginClose
<1>15. CASE OpenClose
  BY <1>15 DEF OpenClose, CompleteActions, CompleteErrors, Join, DropQueues,
           NativeOpen, CreateQueues, FlushFrame, FlushAgain, FlushEnd,
           CreateThread, StartThread, Free
<1>16. CASE UNCHANGED vars
  BY <1>16
<1> QED
  BY <1>1, <1>2, <1>3, <1>4, <1>5, <1>6, <1>7, <1>8, <1>9, <1>10, <1>11, <1>12,
           <1>13, <1>14, <1>15, <1>16 DEF Next, Worker, Begin, Continue, Ended

\* An event is set only while its thread waits for it.  (PerformBlocking, 280-298)
LEMMA EventsFreshStep ==
  ASSUME IInv, [Next]_vars PROVE EventsFresh'
<1> USE RequestShape, ActionShape, QueueElements
    DEF IInv, TypeOK, CallsTyped, EventsFresh, CallsMatch, vars, worker,
             queues, Alive, Goto, Finish, OwnerPcs, AfterAction, AfterClose
<1>1. CASE LoopTest
  BY <1>1 DEF LoopTest
<1>2. CASE Receive
  BY <1>2 DEF Receive
<1>3. CASE ReceiveFault
  BY <1>3 DEF ReceiveFault
<1>4. CASE TryTake
  BY <1>4, TakenAction DEF TryTake
<1>5. CASE PerformAction
  BY <1>5 DEF PerformAction, Results
<1>6. CASE Catch
  BY <1>6 DEF Catch
<1>7. ASSUME NEW t \in Threads, BeginCall(t) PROVE EventsFresh'
  BY <1>7 DEF BeginCall, RightThreadOps
<1>8. ASSUME NEW t \in Threads, BeginReceiveErrors(t) PROVE EventsFresh'
  BY <1>8 DEF BeginReceiveErrors
<1>9. ASSUME NEW t \in Threads, NotifyError(t) PROVE EventsFresh'
  BY <1>9 DEF NotifyError
<1>10. ASSUME NEW t \in Threads, Inline(t) PROVE EventsFresh'
  BY <1>10 DEF Inline
<1>11. ASSUME NEW t \in Threads, Add(t) PROVE EventsFresh'
  BY <1>11, Added DEF Add
<1>12. ASSUME NEW t \in Threads, Return(t) PROVE EventsFresh'
  BY <1>12 DEF Return
<1>13. ASSUME NEW t \in Threads, DrainErrors(t) PROVE EventsFresh'
  BY <1>13 DEF DrainErrors
<1>14. CASE BeginClose
  BY <1>14 DEF BeginClose
<1>15. CASE OpenClose
  BY <1>15 DEF OpenClose, CompleteActions, CompleteErrors, Join, DropQueues,
           NativeOpen, CreateQueues, FlushFrame, FlushAgain, FlushEnd,
           CreateThread, StartThread, Free
<1>16. CASE UNCHANGED vars
  BY <1>16
<1> QED
  BY <1>1, <1>2, <1>3, <1>4, <1>5, <1>6, <1>7, <1>8, <1>9, <1>10, <1>11, <1>12,
           <1>13, <1>14, <1>15, <1>16 DEF Next, Worker, Begin, Continue, Ended

\* A blocking action belongs to the call its thread is blocked in.
\* (PerformBlocking, ThreadedUpdate)
LEMMA CallsMatchStep ==
  ASSUME IInv, [Next]_vars PROVE CallsMatch'
<1> USE RequestShape, ActionShape, QueueElements
    DEF IInv, TypeOK, CallsTyped, CallsMatch, BlockedCallAccounted, QueuedFor,
             PerformingFor, vars, worker, queues, Alive, Goto, Finish,
             OwnerPcs, AfterAction, AfterClose
<1>1. CASE LoopTest
  BY <1>1 DEF LoopTest
<1>2. CASE Receive
  BY <1>2 DEF Receive
<1>3. CASE ReceiveFault
  BY <1>3 DEF ReceiveFault
<1>4. CASE TryTake
  <2>1. CASE actionQueue = <<>>
    BY <1>4, <2>1 DEF TryTake
  <2>2. CASE actionQueue # <<>>
    BY <1>4, <2>2, TakenAction DEF TryTake
  <2> QED
    BY <2>1, <2>2
<1>5. CASE PerformAction
  BY <1>5 DEF PerformAction, Results
<1>6. CASE Catch
  BY <1>6 DEF Catch
<1>7. ASSUME NEW t \in Threads, BeginCall(t) PROVE CallsMatch'
  BY <1>7 DEF BeginCall, RightThreadOps
<1>8. ASSUME NEW t \in Threads, BeginReceiveErrors(t) PROVE CallsMatch'
  BY <1>8 DEF BeginReceiveErrors
<1>9. ASSUME NEW t \in Threads, NotifyError(t) PROVE CallsMatch'
  BY <1>9 DEF NotifyError
<1>10. ASSUME NEW t \in Threads, Inline(t) PROVE CallsMatch'
  BY <1>10 DEF Inline
<1>11. ASSUME NEW t \in Threads, Add(t) PROVE CallsMatch'
  <2>1. CASE actionMode # "adding"
    BY <1>11, <2>1 DEF Add
  <2>2. CASE actionMode = "adding"
    <3>1. call[t] \in Requests \cup {CloseRequest}
      BY <1>11 DEF Add
    <3>2. PICK new : new = [by |-> t, req |-> call[t]]
      OBVIOUS
    <3> QED
      BY <1>11, <2>2, <3>1, <3>2, Added DEF Add
  <2> QED
    BY <2>1, <2>2
<1>12. ASSUME NEW t \in Threads, Return(t) PROVE CallsMatch'
  BY <1>12 DEF Return
<1>13. ASSUME NEW t \in Threads, DrainErrors(t) PROVE CallsMatch'
  BY <1>13 DEF DrainErrors
<1>14. CASE BeginClose
  BY <1>14 DEF BeginClose
<1>15. CASE OpenClose
  BY <1>15 DEF OpenClose, CompleteActions, CompleteErrors, Join, DropQueues,
           NativeOpen, CreateQueues, FlushFrame, FlushAgain, FlushEnd,
           CreateThread, StartThread, Free
<1>16. CASE UNCHANGED vars
  BY <1>16
<1> QED
  BY <1>1, <1>2, <1>3, <1>4, <1>5, <1>6, <1>7, <1>8, <1>9, <1>10, <1>11, <1>12,
           <1>13, <1>14, <1>15, <1>16 DEF Next, Worker, Begin, Continue, Ended

\* The Owner queues nothing behind its close action.  (Close, PerformBlocking)
LEMMA CloseIsLastStep ==
  ASSUME IInv, [Next]_vars PROVE CloseIsLast'
<1> USE RequestShape, ActionShape, QueueElements
    DEF IInv, Lifecycle, TypeOK, CallsTyped, CallsMatch, CloseIsLast,
             CrashNeedsClient, NothingOfOwnerBehindClose, WorkerLifecycle,
             Running, Parked, InClose, InOpen, QueuesNew, vars, worker, queues, Alive,
             Goto, Finish, OwnerPcs, AfterAction, AfterClose
<1>1. CASE LoopTest
  BY <1>1 DEF LoopTest
<1>2. CASE Receive
  BY <1>2 DEF Receive
<1>3. CASE ReceiveFault
  BY <1>3 DEF ReceiveFault
<1>4. CASE TryTake
  <2>1. CASE actionQueue = <<>>
    BY <1>4, <2>1 DEF TryTake
  <2>2. CASE actionQueue # <<>>
    BY <1>4, <2>2, TakenAction DEF TryTake
  <2> QED
    BY <2>1, <2>2
<1>5. CASE PerformAction
  BY <1>5 DEF PerformAction, Results
<1>6. CASE Catch
  BY <1>6 DEF Catch
<1>7. ASSUME NEW t \in Threads, BeginCall(t) PROVE CloseIsLast'
  BY <1>7 DEF BeginCall, RightThreadOps
<1>8. ASSUME NEW t \in Threads, BeginReceiveErrors(t) PROVE CloseIsLast'
  BY <1>8 DEF BeginReceiveErrors
<1>9. ASSUME NEW t \in Threads, NotifyError(t) PROVE CloseIsLast'
  BY <1>9 DEF NotifyError
<1>10. ASSUME NEW t \in Threads, Inline(t) PROVE CloseIsLast'
  BY <1>10 DEF Inline
<1>11. ASSUME NEW t \in Threads, Add(t) PROVE CloseIsLast'
  <2>1. CASE actionMode # "adding"
    BY <1>11, <2>1 DEF Add
  <2>2. CASE actionMode = "adding"
    <3>1. call[t] \in Requests \cup {CloseRequest}
      BY <1>11 DEF Add
    <3>2. PICK new : new = [by |-> t, req |-> call[t]]
      OBVIOUS
    <3>3. ASSUME NEW i \in DOMAIN actionQueue', NEW j \in DOMAIN actionQueue',
                 actionQueue'[i].req = CloseRequest, actionQueue'[j].by = Owner
          PROVE  j <= i
      <4>1. CASE i \in DOMAIN actionQueue /\ j \in DOMAIN actionQueue
        BY <1>11, <2>2, <3>1, <3>2, <3>3, <4>1, Added
      <4>2. CASE i \in DOMAIN actionQueue /\ j = Len(actionQueue) + 1
        <5>1. actionQueue[i].req = CloseRequest /\ t = Owner
          BY <1>11, <2>2, <3>1, <3>2, <3>3, <4>2, Added
        <5>2. actionQueue[i].by = Owner /\ pc[Owner] = "wait"
          BY <4>2, <5>1
        <5> QED
          BY <1>11, <2>2, <5>1, <5>2 DEF Add
      <4>3. CASE i = Len(actionQueue) + 1
        BY <1>11, <2>2, <3>1, <3>2, <4>3, Added
      <4> QED
        BY <1>11, <2>2, <3>1, <3>2, <4>1, <4>2, <4>3, Added
    <3> QED
      BY <1>11, <2>2, <3>1, <3>2, <3>3, Added DEF Add
  <2> QED
    BY <2>1, <2>2
<1>12. ASSUME NEW t \in Threads, Return(t) PROVE CloseIsLast'
  BY <1>12 DEF Return
<1>13. ASSUME NEW t \in Threads, DrainErrors(t) PROVE CloseIsLast'
  BY <1>13 DEF DrainErrors
<1>14. CASE BeginClose
  BY <1>14 DEF BeginClose
<1>15. CASE OpenClose
  BY <1>15 DEF OpenClose, CompleteActions, CompleteErrors, Join, DropQueues,
           NativeOpen, CreateQueues, FlushFrame, FlushAgain, FlushEnd,
           CreateThread, StartThread, Free
<1>16. CASE UNCHANGED vars
  BY <1>16
<1> QED
  BY <1>1, <1>2, <1>3, <1>4, <1>5, <1>6, <1>7, <1>8, <1>9, <1>10, <1>11, <1>12,
           <1>13, <1>14, <1>15, <1>16 DEF Next, Worker, Begin, Continue, Ended

\* Preservation of BlockedCallAccounted: what is taken is set, what is dropped stays
\* owed.  (PerformBlocking, ThreadedUpdate, Close)
LEMMA BlockedCallAccountedStep ==
  ASSUME IInv, [Next]_vars PROVE BlockedCallAccounted'
<1> USE RequestShape, ActionShape, QueueElements
    DEF IInv, TypeOK, CallsTyped, CallsMatch, EventsFresh,
             BlockedCallAccounted, QueuedFor, PerformingFor, vars, worker,
             queues, Alive, Goto, Finish, OwnerPcs, AfterAction, AfterClose
<1>1. CASE LoopTest
  BY <1>1 DEF LoopTest
<1>2. CASE Receive
  BY <1>2 DEF Receive
<1>3. CASE ReceiveFault
  BY <1>3 DEF ReceiveFault
<1>4. CASE TryTake
  <2>1. CASE actionQueue = <<>>
    BY <1>4, <2>1 DEF TryTake
  <2>2. CASE actionQueue # <<>>
    <3> HIDE DEF OwnerPcs, Goto, Finish, AfterAction, AfterClose, Alive
    <3> QED
      BY <1>4, <2>2, TakenAction DEF TryTake
  <2> QED
    BY <2>1, <2>2
<1>5. CASE PerformAction
  BY <1>5 DEF PerformAction, Results
<1>6. CASE Catch
  BY <1>6 DEF Catch
<1>7. ASSUME NEW t \in Threads, BeginCall(t) PROVE BlockedCallAccounted'
  BY <1>7 DEF BeginCall, RightThreadOps
<1>8. ASSUME NEW t \in Threads, BeginReceiveErrors(t) PROVE BlockedCallAccounted'
  BY <1>8 DEF BeginReceiveErrors
<1>9. ASSUME NEW t \in Threads, NotifyError(t) PROVE BlockedCallAccounted'
  BY <1>9 DEF NotifyError
<1>10. ASSUME NEW t \in Threads, Inline(t) PROVE BlockedCallAccounted'
  BY <1>10 DEF Inline
<1>11. ASSUME NEW t \in Threads, Add(t) PROVE BlockedCallAccounted'
  <2>1. CASE actionMode # "adding"
    BY <1>11, <2>1 DEF Add
  <2>2. CASE actionMode = "adding"
    <3>1. call[t] \in Requests \cup {CloseRequest}
      BY <1>11 DEF Add
    <3>2. PICK new : new = [by |-> t, req |-> call[t]]
      OBVIOUS
    <3> QED
      BY <1>11, <2>2, <3>1, <3>2, Added DEF Add
  <2> QED
    BY <2>1, <2>2
<1>12. ASSUME NEW t \in Threads, Return(t) PROVE BlockedCallAccounted'
  BY <1>12 DEF Return
<1>13. ASSUME NEW t \in Threads, DrainErrors(t) PROVE BlockedCallAccounted'
  BY <1>13 DEF DrainErrors
<1>14. CASE BeginClose
  BY <1>14 DEF BeginClose
<1>15. CASE OpenClose
  BY <1>15 DEF OpenClose, CompleteActions, CompleteErrors, Join, DropQueues,
           NativeOpen, CreateQueues, FlushFrame, FlushAgain, FlushEnd,
           CreateThread, StartThread, Free
<1>16. CASE UNCHANGED vars
  BY <1>16
<1> QED
  BY <1>1, <1>2, <1>3, <1>4, <1>5, <1>6, <1>7, <1>8, <1>9, <1>10, <1>11, <1>12,
           <1>13, <1>14, <1>15, <1>16 DEF Next, Worker, Begin, Continue, Ended

\* Preservation of OwnerNotAbandoned: only the close action ends the worker, and it
\* is behind what the Owner waits for.  (Close, ThreadedUpdate)
LEMMA OwnerNotAbandonedStep ==
  ASSUME IInv, [Next]_vars PROVE OwnerNotAbandoned'
<1> USE RequestShape, ActionShape, QueueElements
    DEF IInv, Lifecycle, TypeOK, CallsTyped, CallsMatch, EventsFresh,
             CloseIsLast, OwnerNotAbandoned, NothingOfOwnerBehindClose,
             WorkerLifecycle, QueueLifecycle, CloseLifecycle, QueuedFor,
             PerformingFor, Running, Parked, InClose, InOpen, QueuesNew, vars, worker,
             queues, Alive, Goto, Finish, OwnerPcs, AfterAction, AfterClose
<1>1. CASE LoopTest
  BY <1>1 DEF LoopTest
<1>2. CASE Receive
  BY <1>2 DEF Receive
<1>3. CASE ReceiveFault
  BY <1>3 DEF ReceiveFault
<1>4. CASE TryTake
  <2>1. CASE actionQueue = <<>>
    BY <1>4, <2>1 DEF TryTake
  <2>2. CASE actionQueue # <<>>
    <3> SUFFICES ASSUME pc[Owner] = "wait", returnEvent[Owner] = "unset"
                 PROVE  PerformingFor(Owner)' \/ QueuedFor(Owner)' # {}
      BY <1>4, <2>2, TakenAction DEF TryTake
    <3>1. PICK i \in DOMAIN actionQueue :
                 actionQueue[i].by = Owner /\ actionQueue[i].req.blocking
      BY <1>4 DEF TryTake
    <3>2. CASE i = 1
      BY <1>4, <2>2, <3>1, <3>2, TakenAction
    <3>3. CASE i # 1
      <4>1. i - 1 \in DOMAIN actionQueue' /\ actionQueue'[i - 1] = actionQueue[i]
        BY <1>4, <2>2, <3>3, TakenAction
      <4> QED
        BY <3>1, <4>1
    <3> QED
      BY <3>2, <3>3
  <2> QED
    BY <2>1, <2>2
<1>5. CASE PerformAction
  <2> SUFFICES ASSUME pc[Owner] = "wait", returnEvent'[Owner] = "unset"
               PROVE  Running' /\ QueuedFor(Owner)' # {}
    BY <1>5 DEF PerformAction
  <2>1. Running'
    BY <1>5 DEF PerformAction
  <2>2. ~ (current.by = Owner /\ current.req.blocking)
    BY <1>5 DEF PerformAction, Results, Outcomes
  <2>3. returnEvent[Owner] = "unset"
    BY <1>5, <2>2 DEF PerformAction
  <2> QED
    BY <1>5, <2>1, <2>2, <2>3 DEF PerformAction
<1>6. CASE Catch
  BY <1>6 DEF Catch
<1>7. ASSUME NEW t \in Threads, BeginCall(t) PROVE OwnerNotAbandoned'
  BY <1>7 DEF BeginCall, RightThreadOps
<1>8. ASSUME NEW t \in Threads, BeginReceiveErrors(t) PROVE OwnerNotAbandoned'
  BY <1>8 DEF BeginReceiveErrors
<1>9. ASSUME NEW t \in Threads, NotifyError(t) PROVE OwnerNotAbandoned'
  BY <1>9 DEF NotifyError
<1>10. ASSUME NEW t \in Threads, Inline(t) PROVE OwnerNotAbandoned'
  BY <1>10 DEF Inline
<1>11. ASSUME NEW t \in Threads, Add(t) PROVE OwnerNotAbandoned'
  <2>1. CASE actionMode # "adding"
    BY <1>11, <2>1 DEF Add
  <2>2. CASE actionMode = "adding"
    <3>1. call[t] \in Requests \cup {CloseRequest}
      BY <1>11 DEF Add
    <3>2. PICK new : new = [by |-> t, req |-> call[t]]
      OBVIOUS
    <3> QED
      BY <1>11, <2>2, <3>1, <3>2, Added DEF Add
  <2> QED
    BY <2>1, <2>2
<1>12. ASSUME NEW t \in Threads, Return(t) PROVE OwnerNotAbandoned'
  BY <1>12 DEF Return
<1>13. ASSUME NEW t \in Threads, DrainErrors(t) PROVE OwnerNotAbandoned'
  BY <1>13 DEF DrainErrors
<1>14. CASE BeginClose
  BY <1>14 DEF BeginClose
<1>15. CASE OpenClose
  BY <1>15 DEF OpenClose, CompleteActions, CompleteErrors, Join, DropQueues,
           NativeOpen, CreateQueues, FlushFrame, FlushAgain, FlushEnd,
           CreateThread, StartThread, Free
<1>16. CASE UNCHANGED vars
  BY <1>16
<1> QED
  BY <1>1, <1>2, <1>3, <1>4, <1>5, <1>6, <1>7, <1>8, <1>9, <1>10, <1>11, <1>12,
           <1>13, <1>14, <1>15, <1>16 DEF Next, Worker, Begin, Continue, Ended

\* Preservation of NothingOfOwnerBehindClose: the close action is the last of the
\* Owner's.  (Close, ThreadedUpdate)
LEMMA NothingOfOwnerBehindCloseStep ==
  ASSUME IInv, [Next]_vars PROVE NothingOfOwnerBehindClose'
<1> USE RequestShape, ActionShape, QueueElements
    DEF IInv, Lifecycle, TypeOK, CallsTyped, CallsMatch, CloseIsLast,
             NothingOfOwnerBehindClose, WorkerLifecycle, QueueLifecycle,
             CloseLifecycle, Running, Parked, InClose, InOpen, QueuesNew, vars, worker,
             queues, Alive, Goto, Finish, OwnerPcs, AfterAction, AfterClose
<1>1. CASE LoopTest
  BY <1>1 DEF LoopTest
<1>2. CASE Receive
  BY <1>2 DEF Receive
<1>3. CASE ReceiveFault
  BY <1>3 DEF ReceiveFault
<1>4. CASE TryTake
  <2>1. CASE actionQueue = <<>>
    BY <1>4, <2>1 DEF TryTake
  <2>2. CASE actionQueue # <<>>
    BY <1>4, <2>2, TakenAction DEF TryTake
  <2> QED
    BY <2>1, <2>2
<1>5. CASE PerformAction
  BY <1>5 DEF PerformAction, Results
<1>6. CASE Catch
  BY <1>6 DEF Catch
<1>7. ASSUME NEW t \in Threads, BeginCall(t) PROVE NothingOfOwnerBehindClose'
  BY <1>7 DEF BeginCall, RightThreadOps
<1>8. ASSUME NEW t \in Threads, BeginReceiveErrors(t) PROVE NothingOfOwnerBehindClose'
  BY <1>8 DEF BeginReceiveErrors
<1>9. ASSUME NEW t \in Threads, NotifyError(t) PROVE NothingOfOwnerBehindClose'
  BY <1>9 DEF NotifyError
<1>10. ASSUME NEW t \in Threads, Inline(t) PROVE NothingOfOwnerBehindClose'
  BY <1>10 DEF Inline
<1>11. ASSUME NEW t \in Threads, Add(t) PROVE NothingOfOwnerBehindClose'
  <2>1. CASE actionMode # "adding"
    BY <1>11, <2>1 DEF Add
  <2>2. CASE actionMode = "adding"
    <3>1. call[t] \in Requests \cup {CloseRequest}
      BY <1>11 DEF Add
    <3>2. PICK new : new = [by |-> t, req |-> call[t]]
      OBVIOUS
    <3> QED
      BY <1>11, <2>2, <3>1, <3>2, Added DEF Add
  <2> QED
    BY <2>1, <2>2
<1>12. ASSUME NEW t \in Threads, Return(t) PROVE NothingOfOwnerBehindClose'
  BY <1>12 DEF Return
<1>13. ASSUME NEW t \in Threads, DrainErrors(t) PROVE NothingOfOwnerBehindClose'
  BY <1>13 DEF DrainErrors
<1>14. CASE BeginClose
  BY <1>14 DEF BeginClose
<1>15. CASE OpenClose
  <2>1. CASE DropQueues \/ CreateQueues
    BY <2>1, EmptyQueue DEF DropQueues, CreateQueues
  <2>2. CASE ~ (DropQueues \/ CreateQueues)
    BY <1>15, <2>2 DEF OpenClose, CompleteActions, CompleteErrors, Join, NativeOpen,
                      FlushFrame, FlushAgain, FlushEnd, CreateThread, StartThread,
                      Free
  <2> QED
    BY <2>1, <2>2
<1>16. CASE UNCHANGED vars
  BY <1>16
<1> QED
  BY <1>1, <1>2, <1>3, <1>4, <1>5, <1>6, <1>7, <1>8, <1>9, <1>10, <1>11, <1>12,
           <1>13, <1>14, <1>15, <1>16 DEF Next, Worker, Begin, Continue, Ended

\* Preservation of CrashNeedsClient: FExceptionQueue is complete only while the
\* worker that closed has nothing of the Owner left.  (ThreadedUpdate, its catch)
LEMMA CrashNeedsClientStep ==
  ASSUME IInv, [Next]_vars PROVE CrashNeedsClient'
<1> USE RequestShape, ActionShape, QueueElements
    DEF IInv, Lifecycle, TypeOK, CallsMatch, CloseIsLast, CrashNeedsClient,
             WorkerLifecycle, QueueLifecycle, CloseLifecycle, Running, Parked,
             InClose, InOpen, QueuesNew, vars, worker, queues, Alive, Goto, Finish,
             OwnerPcs, AfterAction, AfterClose
<1>1. CASE LoopTest
  BY <1>1 DEF LoopTest
<1>2. CASE Receive
  BY <1>2 DEF Receive
<1>3. CASE ReceiveFault
  BY <1>3 DEF ReceiveFault
<1>4. CASE TryTake
  BY <1>4, TakenAction DEF TryTake
<1>5. CASE PerformAction
  BY <1>5 DEF PerformAction, Results
<1>6. CASE Catch
  BY <1>6 DEF Catch
<1>7. ASSUME NEW t \in Threads, BeginCall(t) PROVE CrashNeedsClient'
  BY <1>7 DEF BeginCall, RightThreadOps
<1>8. ASSUME NEW t \in Threads, BeginReceiveErrors(t) PROVE CrashNeedsClient'
  BY <1>8 DEF BeginReceiveErrors
<1>9. ASSUME NEW t \in Threads, NotifyError(t) PROVE CrashNeedsClient'
  BY <1>9 DEF NotifyError
<1>10. ASSUME NEW t \in Threads, Inline(t) PROVE CrashNeedsClient'
  BY <1>10 DEF Inline
<1>11. ASSUME NEW t \in Threads, Add(t) PROVE CrashNeedsClient'
  BY <1>11, Added DEF Add
<1>12. ASSUME NEW t \in Threads, Return(t) PROVE CrashNeedsClient'
  BY <1>12 DEF Return
<1>13. ASSUME NEW t \in Threads, DrainErrors(t) PROVE CrashNeedsClient'
  BY <1>13 DEF DrainErrors
<1>14. CASE BeginClose
  BY <1>14 DEF BeginClose
<1>15. CASE OpenClose
  BY <1>15 DEF OpenClose, CompleteActions, CompleteErrors, Join, DropQueues,
           NativeOpen, CreateQueues, FlushFrame, FlushAgain, FlushEnd,
           CreateThread, StartThread, Free
<1>16. CASE UNCHANGED vars
  BY <1>16
<1> QED
  BY <1>1, <1>2, <1>3, <1>4, <1>5, <1>6, <1>7, <1>8, <1>9, <1>10, <1>11, <1>12,
           <1>13, <1>14, <1>15, <1>16 DEF Next, Worker, Begin, Continue, Ended

\* Preservation of Batch: the post-increment of count against the sends.
\* (ThreadedUpdate, 342-359)
LEMMA BatchStep ==
  ASSUME IInv, [Next]_vars PROVE Batch'
<1> USE DeviceAssumption, RequestShape, ActionShape
    DEF IInv, TypeOK, Batch, vars, worker, queues, Alive, Goto, Finish,
             OwnerPcs, AfterAction, AfterClose
<1>1. CASE LoopTest
  BY <1>1 DEF LoopTest
<1>2. CASE Receive
  BY <1>2 DEF Receive
<1>3. CASE ReceiveFault
  BY <1>3 DEF ReceiveFault
<1>4. CASE TryTake
  BY <1>4, TakenAction DEF TryTake
<1>5. CASE PerformAction
  BY <1>5 DEF PerformAction, Results
<1>6. CASE Catch
  BY <1>6 DEF Catch
<1>7. ASSUME NEW t \in Threads, BeginCall(t) PROVE Batch'
  BY <1>7 DEF BeginCall, RightThreadOps
<1>8. ASSUME NEW t \in Threads, BeginReceiveErrors(t) PROVE Batch'
  BY <1>8 DEF BeginReceiveErrors
<1>9. ASSUME NEW t \in Threads, NotifyError(t) PROVE Batch'
  BY <1>9 DEF NotifyError
<1>10. ASSUME NEW t \in Threads, Inline(t) PROVE Batch'
  BY <1>10 DEF Inline
<1>11. ASSUME NEW t \in Threads, Add(t) PROVE Batch'
  BY <1>11, Added DEF Add
<1>12. ASSUME NEW t \in Threads, Return(t) PROVE Batch'
  BY <1>12 DEF Return
<1>13. ASSUME NEW t \in Threads, DrainErrors(t) PROVE Batch'
  BY <1>13 DEF DrainErrors
<1>14. CASE BeginClose
  BY <1>14 DEF BeginClose
<1>15. CASE OpenClose
  BY <1>15 DEF OpenClose, CompleteActions, CompleteErrors, Join, DropQueues,
           NativeOpen, CreateQueues, FlushFrame, FlushAgain, FlushEnd,
           CreateThread, StartThread, Free
<1>16. CASE UNCHANGED vars
  BY <1>16
<1> QED
  BY <1>1, <1>2, <1>3, <1>4, <1>5, <1>6, <1>7, <1>8, <1>9, <1>10, <1>11, <1>12,
           <1>13, <1>14, <1>15, <1>16 DEF Next, Worker, Begin, Continue, Ended

-----------------------------------------------------------------------------
(* The inductive invariant, and what follows from it.                      *)

\* A Device that was never opened satisfies the invariant.  (Device.cs, the constructor)
LEMMA InitIInv == Init => IInv
<1> SUFFICES ASSUME Init PROVE IInv
  OBVIOUS
<1> USE ActionShape, RequestShape, EmptyQueue, DeviceAssumption DEF Init
<1>1. TypeOK
  BY DEF TypeOK, Modes
<1>2. Lifecycle
  BY DEF Lifecycle, WorkerLifecycle, QueueLifecycle, NativeLifecycle,
         CloseLifecycle, Running, Parked, InClose, InOpen, QueuesNew
<1>3. CallsTyped /\ EventsFresh
  BY DEF CallsTyped, EventsFresh, OwnerPcs
<1>4. CallsMatch /\ CloseIsLast /\ BlockedCallAccounted
  BY DEF CallsMatch, CloseIsLast, BlockedCallAccounted
<1>5. OwnerNotAbandoned /\ NothingOfOwnerBehindClose /\ CrashNeedsClient
  BY DEF OwnerNotAbandoned, NothingOfOwnerBehindClose, CrashNeedsClient
<1>6. Batch
  BY DEF Batch
<1> QED
  BY <1>1, <1>2, <1>3, <1>4, <1>5, <1>6 DEF IInv

\* Every step of every thread keeps the invariant.  (Device.cs, all of it)
LEMMA NextIInv == IInv /\ [Next]_vars => IInv'
  BY TypeOKStep, WorkerLifecycleStep, QueueLifecycleStep, NativeLifecycleStep,
     CloseLifecycleStep, CallsTypedStep, EventsFreshStep, CallsMatchStep,
     CloseIsLastStep, BlockedCallAccountedStep, OwnerNotAbandonedStep,
     NothingOfOwnerBehindCloseStep, CrashNeedsClientStep, BatchStep
  DEF IInv, Lifecycle

\* IInv holds in every reachable state of a Device, whatever its clients do.
\* (Device.cs, all of it)
THEOREM InductiveInvariant == Spec => []IInv
  BY InitIInv, NextIInv, PTL DEF Spec

\* Every variable keeps its type: the queue holds actions only, the counters
\* never fall below zero.  (Device.cs, its fields)
THEOREM TypeCorrect == Spec => []TypeOK
<1>1. IInv => TypeOK
  BY DEF IInv
<1> QED
  BY <1>1, InductiveInvariant, PTL

\* The Owner and the worker hand the native handle to each other and never use
\* it together.  (Open, Close, PerformInRightThread against ThreadedUpdate)
THEOREM HandleIsHandedOff == Spec => []HandleHandoff
<1>1. IInv => HandleHandoff
  BY DEF IInv, Lifecycle, WorkerLifecycle, NativeLifecycle, HandleHandoff,
         Running, Parked, InOpen
<1> QED
  BY <1>1, InductiveInvariant, PTL

\* The worker never meets a queue that Close has set to null.
\* (Close's Join before FActionQueue = null, Open's order)
THEOREM WorkerKeepsQueues == Spec => []WorkerHasQueues
<1>1. IInv => WorkerHasQueues
  BY DEF IInv, TypeOK, Lifecycle, WorkerLifecycle, QueueLifecycle, WorkerHasQueues,
         Running, Parked, Modes
<1> QED
  BY <1>1, InductiveInvariant, PTL

\* A thread blocked in PerformBlocking is served once, by the action of this
\* call.  (PerformBlocking)
THEOREM BlockedCallsAreAccounted == Spec => []BlockedCallAccounted
<1>1. IInv => BlockedCallAccounted
  BY DEF IInv
<1> QED
  BY <1>1, InductiveInvariant, PTL

\* No interleaving with other threads can make the Owner wait for an action
\* that nobody will perform.  (Close, PerformBlocking)
THEOREM OwnerIsNotAbandoned == Spec => []OwnerNotAbandoned
<1>1. IInv => OwnerNotAbandoned
  BY DEF IInv
<1> QED
  BY <1>1, InductiveInvariant, PTL

\* The close action is behind all that its caller has queued.
\* (Close, ThreadedUpdate)
THEOREM CloseIsBehindItsOwner == Spec => []NothingOfOwnerBehindClose
<1>1. IInv => NothingOfOwnerBehindClose
  BY DEF IInv
<1> QED
  BY <1>1, InductiveInvariant, PTL

\* The worker's own catch can end the process only through the action of a
\* thread that does not close the Device.  (ThreadedUpdate, its catch)
THEOREM CrashesNeedClients == Spec => []CrashNeedsClient
<1>1. IInv => CrashNeedsClient
  BY DEF IInv
<1> QED
  BY <1>1, InductiveInvariant, PTL

\* The worker sends at most BatchLimit + 2 frames between two reads: 66 for the
\* limit in the code.  (ThreadedUpdate, if (count++ > 64) break)
THEOREM SendRunsAreBounded == Spec => []SendRunBounded
<1>1. IInv => SendRunBounded
  BY DEF IInv, Batch, SendRunBounded
<1> QED
  BY <1>1, InductiveInvariant, PTL
=============================================================================
