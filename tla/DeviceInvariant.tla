---------------------------- MODULE DeviceInvariant ----------------------------
(***************************************************************************)
(* The inductive invariant of Device.  The properties of Device are not    *)
(* inductive by themselves: they rest on what each point of Open and Close *)
(* implies for the thread, the queues and the native device (Lifecycle),   *)
(* on which call each blocking action belongs to (CallsMatch), and on the  *)
(* place of the close action in the queue (CloseIsLast).                   *)
(***************************************************************************)
EXTENDS Device

Parked == wpc \in {"none", "exited"}
InClose == {"completeActions", "completeErrors", "join"}
InOpen == {"createQueues", "flush", "discard", "createThread"}
QueuesNew == {"flush", "discard", "createThread"}

\* What the worker does, seen from the Owner's place in Open and Close.
WorkerLifecycle ==
  /\ ~fThread => Parked
  /\ pc[Owner] \in InOpen \cup {"nativeOpen", "free", "inline", "dropQueues"} => ~fThread
  /\ pc[Owner] \in InClose \cup {"startThread", "wait", "drain"} => fThread
  /\ pc[Owner] = "startThread" => Parked /\ ~isClosing
  /\ fThread /\ pc[Owner] # "startThread" /\ ~Running =>
       isClosing /\ wpc \in {"exited", "crashed"}
  /\ wpc = "read" => ~isClosing

\* The states of the two queues.
QueueLifecycle ==
  /\ fThread /\ pc[Owner] \notin {"completeErrors", "join"} => actionMode = "adding"
  /\ fThread /\ pc[Owner] # "join" => errorMode = "adding"
  /\ pc[Owner] \in {"completeErrors", "join"} => actionMode = "completed"
  /\ pc[Owner] = "join" => errorMode = "completed"
  /\ pc[Owner] \in QueuesNew => actionMode = "adding" /\ errorMode = "adding"
  /\ ~fThread /\ pc[Owner] \notin QueuesNew \cup {"dropQueues"} =>
       actionMode = "null" /\ errorMode = "null"
  /\ actionMode = "null" => actionQueue = <<>>

\* The native device: open from candle_dev_open to the close action.
NativeLifecycle ==
  /\ fThread => native # "freed" /\ (native = "open" <=> ~isClosing)
  /\ ~fThread => (native = "open" <=> pc[Owner] \in InOpen)

\* Close has run in the worker: the Owner is about to be released, or is on its
\* way through the rest of Close.
CloseLifecycle ==
  /\ fThread /\ isClosing =>
       \/ pc[Owner] \in InClose
       \/ pc[Owner] = "wait" /\ call[Owner] = CloseRequest /\ returnEvent[Owner] # "unset"
  /\ pc[Owner] \in InClose \cup {"dropQueues"} => isClosing
  /\ pc[Owner] = "wait" /\ call[Owner] = CloseRequest /\ returnEvent[Owner] # "unset" =>
       isClosing

Lifecycle == WorkerLifecycle /\ QueueLifecycle /\ NativeLifecycle /\ CloseLifecycle

\* Only the Owner closes, and a thread inside a call passes a request.
CallsTyped ==
  /\ \A t \in Clients : pc[t] \notin OwnerPcs /\ call[t] # CloseRequest
  /\ \A t \in Threads : pc[t] \in {"add", "wait"} => call[t] # NoRequest
  /\ \A t \in Threads : pc[t] = "wait" => call[t].blocking

\* An event that is set has a thread blocked on it.
EventsFresh == \A t \in Threads : returnEvent[t] # "unset" => pc[t] = "wait"

\* A blocking action belongs to the call its thread is blocked in.
CallsMatch ==
  /\ \A i \in DOMAIN actionQueue : actionQueue[i].req.blocking =>
       /\ pc[actionQueue[i].by] = "wait"
       /\ call[actionQueue[i].by] = actionQueue[i].req
  /\ wpc = "act" =>
       /\ current \in Actions
       /\ current.req.blocking => pc[current.by] = "wait" /\ call[current.by] = current.req

\* The Owner queues nothing behind its close action.
CloseIsLast ==
  /\ \A i, j \in DOMAIN actionQueue :
       actionQueue[i].req = CloseRequest /\ actionQueue[j].by = Owner => j <= i
  /\ wpc = "act" /\ current.req = CloseRequest =>
       \A j \in DOMAIN actionQueue : actionQueue[j].by # Owner
  /\ wpc \in {"act", "caught", "crashed"} /\ isClosing => current.by \in Clients

\* The counters of a batch.
Batch ==
  /\ wpc = "read" => count = 0
  /\ wpc \in {"take", "act"} => sendRun <= count /\ count <= BatchLimit + 1
  /\ sendRun <= BatchLimit + 2

IInv ==
  /\ TypeOK
  /\ Lifecycle
  /\ CallsTyped
  /\ EventsFresh
  /\ CallsMatch
  /\ CloseIsLast
  /\ BlockedCallAccounted
  /\ OwnerNotAbandoned
  /\ NothingOfOwnerBehindClose
  /\ CrashNeedsClient
  /\ Batch
=============================================================================
