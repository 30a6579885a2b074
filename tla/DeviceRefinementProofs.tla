----------------------- MODULE DeviceRefinementProofs -----------------------
(***************************************************************************)
(* Device implements ActionQueue, for any number of clients.               *)
(*                                                                         *)
(* Five kinds of steps show in ActionQueue: Add submits, PerformAction     *)
(* performs, Return releases, DropQueues drops and CreateThread reopens.   *)
(* Every other step stutters: TryTake, above all, moves an action from the *)
(* queue to the worker, and the mapping keeps it pending.                  *)
(***************************************************************************)
EXTENDS DeviceRefinement, DeviceProofs

-----------------------------------------------------------------------------
(* Facts about the mapping.                                                *)

\* The action in the worker's hands is the first of those pending.
LEMMA TakenFirst ==
  ASSUME NEW S, NEW a \in S, NEW s \in Seq(S)
  PROVE  /\ <<a>> \o s # <<>>
         /\ Head(<<a>> \o s) = a
         /\ Tail(<<a>> \o s) = s
<1>1. <<a>> \in Seq(S) /\ Len(<<a>>) = 1 /\ <<a>>[1] = a /\ Len(s) \in Nat
  BY LenProperties
<1>2. /\ <<a>> \o s \in Seq(S) /\ Len(<<a>> \o s) = 1 + Len(s)
      /\ (<<a>> \o s)[1] = a
      /\ \A i \in 1 .. Len(s) : (<<a>> \o s)[i + 1] = s[i]
  BY <1>1, ConcatProperties
<1>3. <<a>> \o s # <<>>
  BY <1>1, <1>2, EmptySeq
<1>4. /\ Tail(<<a>> \o s) \in Seq(S)
      /\ Len(Tail(<<a>> \o s)) = Len(s)
      /\ \A i \in 1 .. Len(s) : Tail(<<a>> \o s)[i] = s[i]
  BY <1>1, <1>2, <1>3, HeadTailProperties
<1>5. Tail(<<a>> \o s) = s
  BY <1>4, SeqEqual
<1>. QED
  BY <1>2, <1>3, <1>5

\* Taking the first action apart and putting it in front changes nothing.
LEMMA HeadThenTail ==
  ASSUME NEW S, NEW s \in Seq(S), s # <<>>
  PROVE  <<Head(s)>> \o Tail(s) = s
<1>1. /\ Len(s) \in Nat \ {0} /\ Head(s) = s[1] /\ Head(s) \in S
      /\ Tail(s) \in Seq(S) /\ Len(Tail(s)) = Len(s) - 1
      /\ \A i \in 1 .. Len(s) - 1 : Tail(s)[i] = s[i + 1]
  BY EmptySeq, HeadTailProperties
<1>2. <<Head(s)>> \in Seq(S) /\ Len(<<Head(s)>>) = 1 /\ <<Head(s)>>[1] = Head(s)
  BY <1>1
<1>3. /\ <<Head(s)>> \o Tail(s) \in Seq(S)
      /\ Len(<<Head(s)>> \o Tail(s)) = Len(s)
      /\ \A i \in 1 .. Len(s) :
           (<<Head(s)>> \o Tail(s))[i] = IF i <= 1 THEN Head(s) ELSE Tail(s)[i - 1]
  BY <1>1, <1>2, ConcatProperties
<1>4. \A i \in 1 .. Len(s) : (<<Head(s)>> \o Tail(s))[i] = s[i]
  <2> TAKE i \in 1 .. Len(s)
  <2>1. CASE i = 1
    BY <1>1, <1>3, <2>1
  <2>2. CASE i # 1
    <3>1. i - 1 \in 1 .. Len(s) - 1 /\ (i - 1) + 1 = i /\ ~(i <= 1)
      BY <1>1, <2>2
    <3>. QED
      BY <1>1, <1>3, <3>1
  <2>. QED
    BY <2>1, <2>2
<1>. QED
  BY <1>3, <1>4, SeqEqual

\* An action that is queued comes last, whether or not one is being performed.
LEMMA AppendBehind ==
  ASSUME NEW S, NEW r \in Seq(S), NEW s \in Seq(S), NEW a \in S
  PROVE  r \o Append(s, a) = Append(r \o s, a)
<1>1. <<a>> \in Seq(S)
  OBVIOUS
<1>2. Append(s, a) = s \o <<a>> /\ Append(r \o s, a) = (r \o s) \o <<a>>
  BY AppendIsConcat, ConcatProperties
<1>. QED
  BY <1>1, <1>2, ConcatAssociative

\* Nobody begins or ends to wait for an action.
LEMMA NobodyWaits ==
  ASSUME TypeOK, NEW t \in Threads, NEW from, NEW to, Goto(t, from, to),
         from # "wait", to # "wait", UNCHANGED returnEvent
  PROVE  Waiting' = Waiting /\ Served' = Served
  BY DEF TypeOK, Goto, Waiting, Served

\* The worker has no action of its own before and after the step.
LEMMA NothingTaken ==
  ASSUME TypeOK, wpc # "act", wpc' # "act", UNCHANGED actionQueue
  PROVE  UNCHANGED (Taken \o actionQueue)
  BY DEF Taken

\* A step that changes neither the queue nor the action taken.
LEMMA SamePending ==
  ASSUME UNCHANGED <<wpc, current, actionQueue>>
  PROVE  UNCHANGED (Taken \o actionQueue)
  BY DEF Taken

-----------------------------------------------------------------------------
(* The steps.                                                              *)

\* A new Device has no pending action.
LEMMA InitRefines == Init => Queue!Init
<1> SUFFICES ASSUME Init PROVE Queue!Init
  OBVIOUS
<1>1. Taken \o actionQueue = <<>>
  BY ConcatEmptySeq, EmptyQueue DEF Init, Taken
<1>2. Waiting = {} /\ Served = {}
  BY DEF Init, Waiting, Served
<1>. QED
  BY <1>1, <1>2 DEF Init, Queue!Init

\* The worker: only the performing of an action shows.
LEMMA WorkerRefines ==
  ASSUME IInv, Worker PROVE Queue!Perform \/ UNCHANGED Queue!vars
<1> TypeOK /\ actionQueue \in Seq(Actions)
  BY DEF IInv, TypeOK
<1>0. ASSUME UNCHANGED <<pc, returnEvent, isClosing>>, UNCHANGED (Taken \o actionQueue)
      PROVE  UNCHANGED Queue!vars
  BY <1>0 DEF Queue!vars, Waiting, Served
<1>1. CASE LoopTest
  BY <1>0, <1>1, NothingTaken DEF LoopTest, queues
<1>2. CASE Receive
  BY <1>0, <1>2, NothingTaken DEF Receive, queues
<1>3. CASE ReceiveFault
  BY <1>0, <1>3, NothingTaken DEF ReceiveFault, queues
<1>4. CASE TryTake
  <2>1. CASE actionQueue = <<>>
    BY <1>0, <1>4, <2>1, NothingTaken DEF TryTake
  <2>2. CASE actionQueue # <<>>
    <3>1. /\ Taken = <<>>
          /\ Taken' = <<Head(actionQueue)>> /\ actionQueue' = Tail(actionQueue)
      BY <1>4, <2>2 DEF TryTake, Taken
    <3>2. Taken \o actionQueue = actionQueue
      BY <3>1, ConcatEmptySeq
    <3>3. Taken' \o actionQueue' = actionQueue
      BY <2>2, <3>1, HeadThenTail
    <3>. QED
      BY <1>0, <1>4, <3>2, <3>3 DEF TryTake
  <2>. QED
    BY <2>1, <2>2
<1>5. CASE PerformAction
  <2>1. /\ wpc = "act" /\ wpc' # "act" /\ UNCHANGED <<actionQueue, pc>>
        /\ isClosing' = (isClosing \/ current.req.op = "close")
    BY <1>5 DEF PerformAction, AfterAction, queues
  <2>2. /\ current \in Actions
        /\ current.req.blocking => pc[current.by] = "wait"
    BY <2>1 DEF IInv, CallsMatch
  <2>3. current.by \in Threads
    BY <2>2, ActionShape
  <2>4. Taken = <<current>> /\ Taken' \o actionQueue' = actionQueue
    BY <2>1, ConcatEmptySeq DEF Taken
  <2>5. /\ Taken \o actionQueue # <<>>
        /\ Head(Taken \o actionQueue) = current
        /\ Tail(Taken \o actionQueue) = actionQueue
    BY <2>2, <2>4, TakenFirst
  <2>6. Waiting' = Waiting
    BY <2>1 DEF Waiting
  <2>7. Served' = IF current.req.blocking THEN Served \cup {current.by} ELSE Served
    <3>1. CASE current.req.blocking
      <4>1. PICK result \in Results(current.req.op) :
              returnEvent' = [returnEvent EXCEPT ![current.by] = result]
        BY <1>5, <3>1 DEF PerformAction
      <4>2. result # "unset"
        BY <4>1 DEF Results, Outcomes
      <4>3. \A t \in Threads :
              returnEvent'[t] = IF t = current.by THEN result ELSE returnEvent[t]
        BY <4>1 DEF TypeOK
      <4>4. \A t \in Waiting : t \in Threads
        BY DEF Waiting
      <4>5. current.by \in Waiting
        BY <2>2, <2>3, <3>1 DEF Waiting
      <4>. QED
        BY <2>6, <3>1, <4>2, <4>3, <4>4, <4>5 DEF Served
    <3>2. CASE ~current.req.blocking
      BY <1>5, <2>6, <3>2 DEF PerformAction, Served
    <3>. QED
      BY <3>1, <3>2
  <2>. QED
    BY <2>1, <2>4, <2>5, <2>6, <2>7 DEF Queue!Perform
<1>6. CASE Catch
  BY <1>0, <1>6, NothingTaken DEF Catch
<1>. QED
  BY <1>1, <1>2, <1>3, <1>4, <1>5, <1>6 DEF Worker

\* A call that begins is not yet an action.
LEMMA BeginRefines == ASSUME IInv, Begin PROVE UNCHANGED Queue!vars
<1> TypeOK /\ Owner \in Threads
  BY ActionShape DEF IInv
<1>0. ASSUME UNCHANGED <<wpc, current, actionQueue, isClosing>>,
             Waiting' = Waiting /\ Served' = Served
      PROVE  UNCHANGED Queue!vars
  BY <1>0, SamePending DEF Queue!vars
<1>1. ASSUME NEW t \in Threads, BeginCall(t) PROVE UNCHANGED Queue!vars
  <2>1. PICK r \in Requests :
          Goto(t, "idle", IF r.op \in RightThreadOps /\ ~fThread THEN "inline" ELSE "add")
    BY <1>1 DEF BeginCall
  <2>2. UNCHANGED <<wpc, current, actionQueue, isClosing, returnEvent>>
    BY <1>1 DEF BeginCall, queues, worker
  <2>3. Waiting' = Waiting /\ Served' = Served
    BY <2>1, <2>2, NobodyWaits
  <2>. QED
    BY <1>0, <2>2, <2>3
<1>2. ASSUME NEW t \in Threads, BeginReceiveErrors(t) PROVE UNCHANGED Queue!vars
  BY <1>0, <1>2, NobodyWaits DEF BeginReceiveErrors, queues, worker
<1>3. ASSUME NEW t \in Threads, NotifyError(t) PROVE UNCHANGED Queue!vars
  BY <1>0, <1>3 DEF NotifyError, worker, Waiting, Served
<1>4. CASE BeginClose
  <2>1. \E to \in {"add"} \cup AfterClose : to # "wait" /\ Goto(Owner, "idle", to)
    BY <1>4 DEF BeginClose, AfterClose
  <2>2. UNCHANGED <<wpc, current, actionQueue, isClosing, returnEvent>>
    BY <1>4 DEF BeginClose, queues, worker
  <2>3. Waiting' = Waiting /\ Served' = Served
    BY <2>1, <2>2, NobodyWaits
  <2>. QED
    BY <1>0, <2>2, <2>3
<1>. QED
  BY <1>1, <1>2, <1>3, <1>4 DEF Begin

\* A call submits its action, or returns.
LEMMA ContinueRefines ==
  ASSUME IInv, NEW t \in Threads, Continue(t)
  PROVE  \/ \E a \in Actions : Queue!Submit(a)
         \/ \E u \in Served : Queue!Release(u)
         \/ UNCHANGED Queue!vars
<1> TypeOK /\ actionQueue \in Seq(Actions)
  BY DEF IInv, TypeOK
<1>0. ASSUME UNCHANGED <<wpc, current, actionQueue, isClosing>>,
             Waiting' = Waiting /\ Served' = Served
      PROVE  UNCHANGED Queue!vars
  BY <1>0, SamePending DEF Queue!vars
<1>1. CASE Inline(t)
  BY <1>0, <1>1, NobodyWaits DEF Inline, Finish, queues, worker
<1>2. CASE Add(t)
  <2>0. UNCHANGED <<wpc, current, isClosing, returnEvent>> /\ pc[t] = "add"
    BY <1>2 DEF Add, worker, Finish, Goto
  <2>1. CASE actionMode # "adding"
    BY <1>0, <1>2, <2>0, <2>1, NobodyWaits DEF Add, Finish
  <2>2. CASE actionMode = "adding"
    <3> DEFINE a == [by |-> t, req |-> call[t]]
    <3>1. call[t] \in Requests \cup {CloseRequest}
      BY <2>0 DEF IInv, CallsTyped, TypeOK
    <3>2. a \in Actions /\ a.by = t /\ a.req = call[t]
      BY <3>1, ActionShape
    <3>3. actionQueue' = Append(actionQueue, a)
      BY <1>2, <2>2 DEF Add
    <3>4. Taken \in Seq(Actions) /\ Taken' = Taken
      BY <2>0 DEF IInv, CallsMatch, Taken
    <3>5. Taken' \o actionQueue' = Append(Taken \o actionQueue, a)
      BY <3>2, <3>3, <3>4, AppendBehind
    <3>6. t \notin Waiting /\ returnEvent[t] = "unset"
      BY <2>0 DEF Waiting, IInv, EventsFresh
    <3>7. /\ Waiting' = IF a.req.blocking THEN Waiting \cup {t} ELSE Waiting
          /\ Served' = Served
      <4>1. CASE call[t].blocking
        <5>1. \A u \in Threads : pc'[u] = IF u = t THEN "wait" ELSE pc[u]
          BY <1>2, <2>2, <4>1 DEF Add, Goto, TypeOK
        <5>2. Waiting' = Waiting \cup {t}
          BY <5>1 DEF Waiting
        <5>. QED
          BY <2>0, <3>2, <3>6, <4>1, <5>2 DEF Served
      <4>2. CASE ~call[t].blocking
        BY <1>2, <2>0, <2>2, <3>2, <4>2, NobodyWaits DEF Add, Finish
      <4>. QED
        BY <4>1, <4>2
    <3>8. Queue!Submit(a)
      BY <2>0, <3>2, <3>5, <3>6, <3>7 DEF Queue!Submit
    <3>. QED
      BY <3>2, <3>8
  <2>. QED
    BY <2>1, <2>2
<1>3. CASE Return(t)
  <2>1. /\ pc[t] = "wait" /\ returnEvent[t] # "unset"
        /\ UNCHANGED <<wpc, current, actionQueue, isClosing>>
    BY <1>3 DEF Return, Finish, Goto, queues, worker
  <2>2. /\ \A u \in Threads : u # t => pc'[u] = pc[u] /\ returnEvent'[u] = returnEvent[u]
        /\ pc'[t] # "wait"
    BY <1>3 DEF Return, Finish, Goto, TypeOK
  <2>3. t \in Served
    BY <2>1 DEF Served, Waiting
  <2>4. Waiting' = Waiting \ {t}
    BY <2>2 DEF Waiting
  <2>5. Served' = Served \ {t}
    BY <2>2, <2>4 DEF Served, Waiting
  <2>6. Queue!Release(t)
    BY <2>1, <2>3, <2>4, <2>5, SamePending DEF Queue!Release
  <2>. QED
    BY <2>3, <2>6
<1>4. CASE DrainErrors(t)
  BY <1>0, <1>4, NobodyWaits DEF DrainErrors, worker
<1>. QED
  BY <1>1, <1>2, <1>3, <1>4 DEF Continue

\* Close drops what is left in the queue, and Open begins anew.
LEMMA OpenCloseRefines ==
  ASSUME IInv, OpenClose
  PROVE  Queue!Drop \/ Queue!Reopen \/ UNCHANGED Queue!vars
<1> TypeOK /\ Owner \in Threads /\ Lifecycle /\ actionQueue \in Seq(Actions)
  BY ActionShape DEF IInv, TypeOK
<1>0. ASSUME UNCHANGED <<wpc, current, actionQueue, isClosing>>,
             Waiting' = Waiting /\ Served' = Served
      PROVE  UNCHANGED Queue!vars
  BY <1>0, SamePending DEF Queue!vars
<1>1. CASE CompleteActions
  BY <1>0, <1>1, NobodyWaits DEF CompleteActions, worker
<1>2. CASE CompleteErrors
  BY <1>0, <1>2, NobodyWaits DEF CompleteErrors, worker
<1>3. CASE Join
  BY <1>0, <1>3, NobodyWaits DEF Join, queues, worker
<1>4. CASE DropQueues
  <2>1. /\ pc[Owner] = "dropQueues" /\ actionQueue' = <<>>
        /\ UNCHANGED <<wpc, isClosing, returnEvent>>
    BY <1>4 DEF DropQueues, Goto, worker
  <2>2. Parked /\ isClosing
    BY <2>1 DEF Lifecycle, WorkerLifecycle, CloseLifecycle
  <2>3. Taken = <<>> /\ Taken' = <<>>
    BY <2>1, <2>2 DEF Parked, Taken
  <2>4. Taken \o actionQueue = actionQueue /\ Taken' \o actionQueue' = <<>>
    BY <2>1, <2>3, ConcatEmptySeq, EmptyQueue
  <2>5. \A i \in DOMAIN actionQueue : actionQueue[i].by # Owner
    BY <2>2 DEF IInv, NothingOfOwnerBehindClose
  <2>6. Waiting' = Waiting /\ Served' = Served
    BY <1>4, <2>1, NobodyWaits DEF DropQueues, AfterClose
  <2>. QED
    BY <2>1, <2>2, <2>4, <2>5, <2>6 DEF Queue!Drop
<1>5. CASE NativeOpen
  BY <1>0, <1>5, NobodyWaits DEF NativeOpen, queues, worker
<1>6. CASE CreateQueues
  <2>1. pc[Owner] = "createQueues" /\ actionQueue' = <<>>
        /\ UNCHANGED <<wpc, current, isClosing, returnEvent>>
    BY <1>6 DEF CreateQueues, Goto, worker
  <2>2. actionQueue = <<>>
    BY <2>1 DEF Lifecycle, WorkerLifecycle, QueueLifecycle, InOpen, QueuesNew
  <2>. QED
    BY <1>0, <1>6, <2>1, <2>2, NobodyWaits DEF CreateQueues
<1>7. CASE FlushFrame \/ FlushAgain \/ FlushEnd
  BY <1>0, <1>7, NobodyWaits DEF FlushFrame, FlushAgain, FlushEnd, queues, worker
<1>8. CASE CreateThread
  BY <1>8, NobodyWaits, SamePending DEF CreateThread, Queue!Reopen, queues, worker
<1>9. CASE StartThread
  <2>1. /\ pc[Owner] = "startThread" /\ wpc' = "loop"
        /\ UNCHANGED <<actionQueue, isClosing, returnEvent>>
    BY <1>9 DEF StartThread, Goto, queues
  <2>2. Parked
    BY <2>1 DEF Lifecycle, WorkerLifecycle
  <2>3. UNCHANGED (Taken \o actionQueue)
    BY <2>1, <2>2, NothingTaken DEF Parked
  <2>4. Waiting' = Waiting /\ Served' = Served
    BY <1>9, <2>1, NobodyWaits DEF StartThread
  <2>. QED
    BY <2>1, <2>3, <2>4 DEF Queue!vars
<1>10. CASE Free
  BY <1>0, <1>10, NobodyWaits DEF Free, queues, worker
<1>. QED
  BY <1>1, <1>2, <1>3, <1>4, <1>5, <1>6, <1>7, <1>8, <1>9, <1>10 DEF OpenClose

\* Every step of Device is one of ActionQueue, or changes nothing there.
LEMMA NextRefines == IInv /\ [Next]_vars => [Queue!Next]_Queue!vars
<1> SUFFICES ASSUME IInv, [Next]_vars PROVE Queue!Next \/ UNCHANGED Queue!vars
  OBVIOUS
<1>1. CASE Worker
  BY <1>1, WorkerRefines DEF Queue!Next
<1>2. CASE Begin
  BY <1>2, BeginRefines
<1>3. CASE \E t \in Threads : Continue(t)
  BY <1>3, ContinueRefines DEF Queue!Next
<1>4. CASE OpenClose
  BY <1>4, OpenCloseRefines DEF Queue!Next
<1>5. CASE UNCHANGED vars
  BY <1>5, SamePending DEF vars, queues, worker, Queue!vars, Waiting, Served
<1>. QED
  BY <1>1, <1>2, <1>3, <1>4, <1>5 DEF Next, Ended

-----------------------------------------------------------------------------
\* The queue, the worker, PerformBlocking and Close together keep the promise of
\* ActionQueue, whatever the number of clients and the interleaving.
\* (Device.PerformBlocking, Perform, ThreadedUpdate, Close)
THEOREM DeviceImplementsActionQueue == Spec => ImplementsActionQueue
  BY InitRefines, NextRefines, InductiveInvariant, PTL
     DEF Spec, ImplementsActionQueue, Queue!Spec
=============================================================================
