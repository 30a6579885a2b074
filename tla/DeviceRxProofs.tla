--------------------------- MODULE DeviceRxProofs ---------------------------
(***************************************************************************)
(* The composition implements both of its parts, whatever the device does  *)
(* and however many clients, URBs and transfers there are; so everything   *)
(* that is proved of Device and of RxRing holds of them together, and from *)
(* the two inductive invariants follows that they agree.                   *)
(***************************************************************************)
EXTENDS DeviceRx, TLAPS

DP == INSTANCE DeviceRefinementProofs
RP == INSTANCE RxRingProofs

-----------------------------------------------------------------------------
(* The two parts.                                                          *)

\* What the joint steps do to the state of the Device, Device allows.
\* (Device.cs and the native calls it makes)
LEMMA StepIsDevice == [Next]_vars => [D!Next]_D!vars
<1>1. UNCHANGED deviceVars => UNCHANGED D!vars
  BY DEF deviceVars, D!vars, D!queues, D!worker
<1>2. Worker => D!Next \/ UNCHANGED deviceVars
  <2>1. WorkerRead \/ WorkerAct \/ WorkerElse => D!Next
    BY DEF WorkerRead, WorkerAct, WorkerElse, D!Next, D!Worker
  <2> QED
    BY <2>1 DEF Worker, WorkerTake
<1>3. OpenClose => D!Next \/ UNCHANGED deviceVars
  BY DEF OpenClose, BeginOpen, OpenThrows, SubmitNext, Refusal, EndOpen, FlushTake,
         FlushRead, OwnerElse, D!Next, D!OpenClose
<1>4. Application => D!Next
  BY DEF Application, D!Next
<1>5. Transfer => UNCHANGED deviceVars
  BY DEF Transfer
<1>6. ASSUME NEW t \in D!Threads, Calls(t) PROVE D!Next
  BY <1>6 DEF Calls, D!Next
<1>7. UNCHANGED vars => UNCHANGED deviceVars
  BY DEF vars
<1> QED
  BY <1>1, <1>2, <1>3, <1>4, <1>5, <1>6, <1>7 DEF Next

\* What they do to the state of the ring, candle.c does.  (candle_dev_open,
\* candle_frame_read, candle_dev_close, in whichever thread)
LEMMA StepIsRing == [Next]_vars => [R!Next]_R!vars
<1>1. UNCHANGED ringVars => UNCHANGED R!vars
  BY DEF ringVars, R!vars, R!ring, R!buffers, R!output
<1>2. Worker => R!Next \/ UNCHANGED ringVars
  BY DEF Worker, WorkerTake, WorkerRead, WorkerAct, WorkerElse, R!Next
<1>3. OpenClose => R!Next \/ UNCHANGED ringVars
  BY DEF OpenClose, BeginOpen, SubmitNext, EndOpen, FlushTake, FlushRead, OwnerElse, R!Next,
         R!Open
<1>4. Application => UNCHANGED ringVars
  BY DEF Application
<1>5. Transfer => R!Next
  BY DEF Transfer, R!Next
<1>6. ASSUME NEW t \in D!Threads, Calls(t) PROVE UNCHANGED ringVars
  BY <1>6 DEF Calls
<1>7. UNCHANGED vars => UNCHANGED ringVars
  BY DEF vars
<1> QED
  BY <1>1, <1>2, <1>3, <1>4, <1>5, <1>6, <1>7 DEF Next

\* Device on top of the ring is a Device: the ring answers its native calls only as
\* Device says that they may be answered.  (Device.cs over candle.c)
THEOREM ImplementsDevice == Spec => D!Spec
<1>1. Init => D!Init
  BY DEF Init
<1> QED
  BY <1>1, StepIsDevice, PTL DEF Spec, D!Spec

\* The ring below Device is a ring: Device calls it as RxRing says that it may be
\* called.  (candle.c below Device.cs)
THEOREM ImplementsRing == Spec => R!Spec
<1>1. Init => R!Init
  BY DEF Init
<1> QED
  BY <1>1, StepIsRing, PTL DEF Spec, R!Spec

-----------------------------------------------------------------------------
(* DP and RP name what D and R name.                                       *)

\* A step of Device, in either instance.  (Device.cs)
LEMMA SameDevice == [D!Next]_D!vars => [DP!Next]_DP!vars
<1>1. D!LoopTest => DP!LoopTest
  BY DEF D!LoopTest, DP!LoopTest, D!queues, DP!queues, D!worker, DP!worker,
           D!NoAction, DP!NoAction, D!NoRequest, DP!NoRequest
<1>2. D!Receive => DP!Receive
  BY DEF D!Receive, DP!Receive, D!queues, DP!queues, D!worker, DP!worker
<1>3. D!ReceiveFault => DP!ReceiveFault
  BY DEF D!ReceiveFault, DP!ReceiveFault, D!queues, DP!queues, D!worker, DP!worker
<1>4. D!TryTake => DP!TryTake
  BY DEF D!TryTake, DP!TryTake, D!queues, DP!queues, D!worker, DP!worker, D!NoAction,
           DP!NoAction, D!NoRequest, DP!NoRequest
<1>5. D!PerformAction => DP!PerformAction
  BY DEF D!PerformAction, DP!PerformAction, D!queues, DP!queues, D!worker, DP!worker,
           D!Results, DP!Results, D!Outcomes, DP!Outcomes, D!AfterAction,
           DP!AfterAction
<1>6. D!Catch => DP!Catch
  BY DEF D!Catch, DP!Catch, D!queues, DP!queues, D!worker, DP!worker
<1>7. D!CompleteActions => DP!CompleteActions
  BY DEF D!CompleteActions, DP!CompleteActions, D!queues, DP!queues, D!worker,
           DP!worker, D!Goto, DP!Goto, D!Alive, DP!Alive
<1>8. D!CompleteErrors => DP!CompleteErrors
  BY DEF D!CompleteErrors, DP!CompleteErrors, D!queues, DP!queues, D!worker,
           DP!worker, D!Goto, DP!Goto, D!Alive, DP!Alive
<1>9. D!Join => DP!Join
  BY DEF D!Join, DP!Join, D!queues, DP!queues, D!worker, DP!worker, D!Goto, DP!Goto,
           D!Alive, DP!Alive
<1>10. D!DropQueues => DP!DropQueues
  BY DEF D!DropQueues, DP!DropQueues, D!queues, DP!queues, D!worker, DP!worker,
           D!AfterClose, DP!AfterClose, D!NoRequest, DP!NoRequest, D!Goto, DP!Goto,
           D!Alive, DP!Alive
<1>11. D!NativeOpen => DP!NativeOpen
  BY DEF D!NativeOpen, DP!NativeOpen, D!queues, DP!queues, D!worker, DP!worker,
           D!Goto, DP!Goto, D!Alive, DP!Alive
<1>12. D!CreateQueues => DP!CreateQueues
  BY DEF D!CreateQueues, DP!CreateQueues, D!queues, DP!queues, D!worker, DP!worker,
           D!Goto, DP!Goto, D!Alive, DP!Alive
<1>13. /\ D!FlushFrame => DP!FlushFrame
       /\ D!FlushAgain => DP!FlushAgain
       /\ D!FlushEnd => DP!FlushEnd
  BY DEF D!FlushFrame, DP!FlushFrame, D!FlushAgain, DP!FlushAgain, D!FlushEnd,
           DP!FlushEnd, D!queues, DP!queues, D!worker, DP!worker, D!Goto, DP!Goto,
           D!Alive, DP!Alive
<1>14. D!CreateThread => DP!CreateThread
  BY DEF D!CreateThread, DP!CreateThread, D!queues, DP!queues, D!worker, DP!worker,
           D!Goto, DP!Goto, D!Alive, DP!Alive
<1>15. D!StartThread => DP!StartThread
  BY DEF D!StartThread, DP!StartThread, D!queues, DP!queues, D!worker, DP!worker,
           D!Goto, DP!Goto, D!Alive, DP!Alive
<1>16. D!Free => DP!Free
  BY DEF D!Free, DP!Free, D!queues, DP!queues, D!worker, DP!worker, D!Goto, DP!Goto,
           D!Alive, DP!Alive
<1>17. D!BeginClose => DP!BeginClose
  BY DEF D!BeginClose, DP!BeginClose, D!queues, DP!queues, D!worker, DP!worker,
           D!AfterClose, DP!AfterClose, D!CloseRequest, DP!CloseRequest, D!Goto,
           DP!Goto, D!Alive, DP!Alive
<1>18. ASSUME NEW t, D!BeginCall(t) PROVE DP!BeginCall(t)
  BY <1>18 DEF D!BeginCall, DP!BeginCall, D!queues, DP!queues, D!worker, DP!worker,
           D!Requests, DP!Requests, D!RightThreadOps, DP!RightThreadOps, D!Goto,
           DP!Goto, D!Alive, DP!Alive
<1>19. ASSUME NEW t, D!BeginReceiveErrors(t) PROVE DP!BeginReceiveErrors(t)
  BY <1>19 DEF D!BeginReceiveErrors, DP!BeginReceiveErrors, D!queues, DP!queues,
           D!worker, DP!worker, D!Goto, DP!Goto, D!Alive, DP!Alive
<1>20. ASSUME NEW t, D!NotifyError(t) PROVE DP!NotifyError(t)
  BY <1>20 DEF D!NotifyError, DP!NotifyError, D!queues, DP!queues, D!worker,
           DP!worker, D!Alive, DP!Alive
<1>21. ASSUME NEW t, D!Inline(t) PROVE DP!Inline(t)
  BY <1>21 DEF D!Inline, DP!Inline, D!queues, DP!queues, D!worker, DP!worker,
           D!Finish, DP!Finish, D!NoRequest, DP!NoRequest, D!Goto, DP!Goto, D!Alive,
           DP!Alive
<1>22. ASSUME NEW t, D!Add(t) PROVE DP!Add(t)
  BY <1>22 DEF D!Add, DP!Add, D!queues, DP!queues, D!worker, DP!worker, D!Finish,
           DP!Finish, D!NoRequest, DP!NoRequest, D!Goto, DP!Goto, D!Alive, DP!Alive
<1>23. ASSUME NEW t, D!Return(t) PROVE DP!Return(t)
  BY <1>23 DEF D!Return, DP!Return, D!queues, DP!queues, D!worker, DP!worker,
           D!Finish, DP!Finish, D!NoRequest, DP!NoRequest, D!Goto, DP!Goto, D!Alive,
           DP!Alive
<1>24. ASSUME NEW t, D!DrainErrors(t) PROVE DP!DrainErrors(t)
  BY <1>24 DEF D!DrainErrors, DP!DrainErrors, D!queues, DP!queues, D!worker,
           DP!worker, D!Goto, DP!Goto, D!Alive, DP!Alive
<1>25. D!Ended => UNCHANGED DP!vars
  BY DEF D!Ended, D!vars, DP!vars, D!queues, DP!queues, D!worker, DP!worker
<1>26. UNCHANGED D!vars => UNCHANGED DP!vars
  BY DEF D!vars, DP!vars, D!queues, DP!queues, D!worker, DP!worker
<1> QED
  BY <1>1, <1>2, <1>3, <1>4, <1>5, <1>6, <1>7, <1>8, <1>9, <1>10, <1>11, <1>12, <1>13, <1>14,
           <1>15, <1>16, <1>17, <1>18, <1>19, <1>20, <1>21, <1>22, <1>23, <1>24,
           <1>25, <1>26
  DEF D!Next, DP!Next, D!Worker, DP!Worker, D!Begin, DP!Begin, D!Continue,
           DP!Continue, D!OpenClose, DP!OpenClose, D!Threads, DP!Threads

\* A step of the ring, in either instance.  (candle.c)
LEMMA SameRing == [R!Next]_R!vars => [RP!Next]_RP!vars
<1>1. R!BeginOpen => RP!BeginOpen
  BY DEF R!BeginOpen, RP!BeginOpen, R!BuffersCleared, RP!BuffersCleared, R!Urbs,
           RP!Urbs, R!buffers, RP!buffers, R!output, RP!output
<1>2. R!SubmitNext => RP!SubmitNext
  BY DEF R!SubmitNext, RP!SubmitNext, R!Submitted, RP!Submitted, R!NotPending,
           RP!NotPending, R!Refused, RP!Refused, R!CompletedAtOnce, RP!CompletedAtOnce,
           R!Filled, RP!Filled, R!Results, RP!Results, R!buffers, RP!buffers,
           R!output, RP!output
<1>3. R!EndOpen => RP!EndOpen
  BY DEF R!EndOpen, RP!EndOpen, R!ring, RP!ring, R!buffers, RP!buffers, R!output,
           RP!output
<1>4. R!CloseDev => RP!CloseDev
  BY DEF R!CloseDev, RP!CloseDev, R!Urbs, RP!Urbs, R!buffers, RP!buffers, R!output,
           RP!output
<1>5. R!Complete => RP!Complete
  BY DEF R!Complete, RP!Complete, R!Results, RP!Results, R!Filled, RP!Filled,
           R!output, RP!output
<1>6. R!ReadUnopened => RP!ReadUnopened
  BY DEF R!ReadUnopened, RP!ReadUnopened, R!ring, RP!ring, R!buffers, RP!buffers,
           R!output, RP!output
<1>7. R!ReadTimeout => RP!ReadTimeout
  BY DEF R!ReadTimeout, RP!ReadTimeout, R!ring, RP!ring, R!buffers, RP!buffers,
           R!output, RP!output, R!Done, RP!Done, R!Urbs, RP!Urbs
<1>8. R!Take => RP!Take
  BY DEF R!Take, RP!Take, R!Lowest, RP!Lowest, R!Done, RP!Done, R!Urbs, RP!Urbs,
           R!ring, RP!ring, R!buffers, RP!buffers, R!output, RP!output
<1>9. R!ReadBad => RP!ReadBad
  BY DEF R!ReadBad, RP!ReadBad, R!LongEnough, RP!LongEnough, R!Submitted,
           RP!Submitted, R!NotPending, RP!NotPending, R!Refused, RP!Refused,
           R!CompletedAtOnce, RP!CompletedAtOnce, R!Filled, RP!Filled, R!Results,
           RP!Results, R!buffers, RP!buffers, R!output, RP!output
<1>10. R!ReadFrame => RP!ReadFrame
  BY DEF R!ReadFrame, RP!ReadFrame, R!LongEnough, RP!LongEnough, R!Submitted,
           RP!Submitted, R!NotPending, RP!NotPending, R!Refused, RP!Refused,
           R!CompletedAtOnce, RP!CompletedAtOnce, R!Filled, RP!Filled, R!Results,
           RP!Results, R!CopiedOut, RP!CopiedOut, R!buffers, RP!buffers, R!output,
           RP!output
<1>11. UNCHANGED R!vars => UNCHANGED RP!vars
  BY DEF R!vars, RP!vars, R!ring, RP!ring, R!buffers, RP!buffers, R!output, RP!output
<1> QED
  BY <1>1, <1>2, <1>3, <1>4, <1>5, <1>6, <1>7, <1>8, <1>9, <1>10, <1>11
  DEF R!Next, RP!Next, R!Open, RP!Open, R!Read, RP!Read

\* The initial states, in either instance.
LEMMA SameInit == Init => DP!Init /\ RP!Init
  BY DEF Init, D!Init, DP!Init, D!NoAction, DP!NoAction, D!NoRequest, DP!NoRequest,
         D!Threads, DP!Threads, R!Init, RP!Init, R!Urbs, RP!Urbs

\* The invariants of the two parts hold of the composition.  (Device.cs, candle.c)
LEMMA PartsInvariant == Spec => [](DP!IInv /\ RP!IInv)
<1> DEFINE Inv == DP!IInv /\ RP!IInv
<1>1. DP!DeviceAssumption /\ RP!RxRingAssumption
  BY DeviceRxAssumption DEF DP!DeviceAssumption, RP!RxRingAssumption
<1>2. Init => Inv
  BY <1>1, SameInit, DP!InitIInv, RP!InitIInv
<1>3. Inv /\ [Next]_vars => Inv'
  BY <1>1, StepIsDevice, StepIsRing, SameDevice, SameRing, DP!NextIInv, RP!NextIInv
<1> QED
  BY <1>2, <1>3, PTL DEF Spec
-----------------------------------------------------------------------------
(* What holds of the two together.                                         *)

\* The two layers change their minds about the device in the same steps, and a
\* device that was given back is no longer opened.  The rest follows from the
\* invariants of the parts.
JointInv ==
  /\ native = "open" <=> dev = "open"
  /\ dev = "opening" => pc[Owner] = "nativeOpen" /\ ~fThread
  /\ native = "freed" => pc[Owner] = "idle"
  /\ taken # {} => wpc = "read" \/ pc[Owner] = "flush"

IInv == DP!IInv /\ RP!IInv /\ JointInv

\* What the invariant of Device says of the native device.  (Open, Close,
\* ThreadedUpdate)
LEMMA DeviceFacts ==
  ASSUME DP!IInv
  PROVE  /\ pc \in [DP!Threads -> {"idle", "inline", "add", "wait", "drain"} \cup DP!OwnerPcs]
         /\ pc[Owner] \in {"nativeOpen", "free"} => ~fThread /\ native # "open"
         /\ wpc = "read" \/ pc[Owner] \in {"createQueues", "flush", "discard"} =>
              native = "open"
         /\ wpc = "read" => pc[Owner] # "startThread"
  BY DEF DP!IInv, DP!TypeOK, DP!Lifecycle, DP!WorkerLifecycle, DP!NativeLifecycle,
         DP!Parked, DP!InOpen

\* What the invariant of the ring says of its states.  (candle.c)
LEMMA RingFacts ==
  ASSUME RP!IInv
  PROVE  /\ dev \in {"closed", "opening", "open", "leaked"}
         /\ dev = "closed" => submitted = <<>>
         /\ taken # {} => dev = "open"
  BY DEF RP!IInv, RP!TypeOK, RP!SubmittedInv, RP!TakenInv

\* The reads of the ring, by whichever thread, neither open nor close it; a read that
\* has ended holds no URB.  (candle_frame_read)
LEMMA ReadKeepsDev ==
  /\ R!Read => dev' = dev
  /\ R!Read /\ (taken # {} => dev = "open") => taken' = {}
  /\ R!Take => dev' = dev
  BY DEF R!Read, R!ReadUnopened, R!ReadTimeout, R!ReadBad, R!ReadFrame, R!Take

\* Both layers know of every step that opens or closes the device.
\* (Device.Open, Close, Dispose; candle_dev_open, candle_dev_close)
LEMMA JointInvStep ==
  ASSUME IInv, [Next]_vars
  PROVE  JointInv'
<1> USE DEF JointInv, D!worker
<1>1. /\ pc \in [D!Threads -> {"idle", "inline", "add", "wait", "drain"} \cup DP!OwnerPcs]
      /\ Owner \in D!Threads
      /\ pc[Owner] \in {"nativeOpen", "free"} => ~fThread /\ native # "open"
      /\ wpc = "read" => pc[Owner] # "startThread"
      /\ JointInv
  BY DeviceFacts DEF IInv, D!Threads, DP!Threads
<1>2. /\ dev \in {"closed", "opening", "open", "leaked"}
      /\ taken # {} => dev = "open"
  BY RingFacts DEF IInv
<1>3. CASE Worker
  <2>1. UNCHANGED <<pc, fThread>>
    BY <1>3 DEF Worker, WorkerTake, WorkerRead, WorkerAct, WorkerElse, deviceVars,
                D!Receive, D!ReceiveFault, D!PerformAction, D!LoopTest, D!TryTake, D!Catch
  <2>2. CASE WorkerRead
    BY <1>1, <1>2, <2>1, <2>2, ReadKeepsDev DEF WorkerRead, D!Receive, D!ReceiveFault
  <2>6. CASE WorkerTake
    BY <1>1, <2>1, <2>6, ReadKeepsDev DEF WorkerTake, deviceVars
  <2>3. CASE WorkerAct /\ current.req.op = "close"
    BY <1>1, <2>1, <2>3 DEF WorkerAct, R!CloseDev, D!PerformAction
  <2>4. CASE WorkerAct /\ current.req.op # "close"
    BY <1>1, <2>1, <2>4 DEF WorkerAct, D!PerformAction, ringVars
  <2>5. CASE WorkerElse
    BY <1>1, <2>1, <2>5 DEF WorkerElse, D!LoopTest, D!TryTake, D!Catch, ringVars
  <2> QED
    BY <1>3, <2>2, <2>3, <2>4, <2>5, <2>6 DEF Worker
<1>4. CASE BeginOpen
  <2>1. /\ native' = native /\ dev # "open" /\ pc[Owner] = "nativeOpen"
        /\ UNCHANGED <<taken, wpc>>
    BY <1>4 DEF BeginOpen, Opening, OpenThrows, R!BeginOpen, D!NativeOpen, deviceVars
  <2>2. CASE dev' = "opening"
    BY <1>1, <1>4, <2>1, <2>2 DEF BeginOpen, deviceVars
  <2>3. CASE dev' # "opening"
    BY <1>1, <1>4, <2>1, <2>3 DEF BeginOpen, R!BeginOpen, OpenThrows, D!NativeOpen, D!Goto
  <2> QED
    BY <2>2, <2>3
<1>5. CASE SubmitNext
  <2>1. /\ native' = native /\ dev = "opening" /\ dev' \in {"opening", "leaked"}
        /\ UNCHANGED <<taken, wpc>>
    BY <1>5 DEF SubmitNext, Refusal, OpenThrows, R!SubmitNext, D!NativeOpen, deviceVars
  <2>2. CASE dev' = "opening"
    BY <1>1, <1>5, <2>1, <2>2 DEF SubmitNext, deviceVars
  <2>3. CASE dev' = "leaked"
    BY <1>1, <1>5, <2>1, <2>3 DEF SubmitNext, Refusal, OpenThrows, D!NativeOpen, D!Goto
  <2> QED
    BY <2>1, <2>2, <2>3
<1>6. CASE EndOpen
  BY <1>1, <1>6 DEF EndOpen, R!EndOpen, D!NativeOpen, D!Goto
<1>7. CASE FlushTake \/ FlushRead
  <2>1. CASE FlushTake
    BY <1>1, <2>1, ReadKeepsDev DEF FlushTake, deviceVars
  <2>2. CASE FlushRead
    BY <1>1, <1>2, <2>2, ReadKeepsDev DEF FlushRead, D!FlushFrame, D!FlushEnd, D!Goto
  <2> QED
    BY <1>7, <2>1, <2>2
<1>8. CASE OwnerElse
  <2>1. UNCHANGED <<dev, taken>>
    BY <1>8 DEF OwnerElse, ringVars
  <2>2. CASE D!Free
    BY <1>1, <2>1, <2>2 DEF D!Free, D!Goto
  <2>3. CASE \/ D!CompleteActions \/ D!CompleteErrors \/ D!Join \/ D!DropQueues
             \/ D!CreateQueues \/ D!FlushAgain \/ D!CreateThread \/ D!StartThread
    BY <1>1, <2>1, <2>3
    DEF D!CompleteActions, D!CompleteErrors, D!Join, D!DropQueues, D!CreateQueues,
        D!FlushAgain, D!CreateThread, D!StartThread, D!Goto
  <2> QED
    BY <1>8, <2>2, <2>3 DEF OwnerElse
<1>9. ASSUME NEW t \in D!Threads, Calls(t) PROVE JointInv'
  <2>1. UNCHANGED <<dev, taken, native, fThread, wpc>>
    BY <1>9 DEF Calls, ringVars, D!Continue, D!Inline, D!Add, D!Return, D!DrainErrors
  <2>2. pc[t] \in {"inline", "add", "wait", "drain"}
          /\ \E to : pc' = [pc EXCEPT ![t] = to]
    BY <1>9 DEF Calls, D!Continue, D!Inline, D!Add, D!Return, D!DrainErrors, D!Finish, D!Goto
  <2> QED
    BY <1>1, <2>1, <2>2
<1>10. CASE Application
  <2>1. UNCHANGED <<dev, taken, native, fThread, wpc>>
    BY <1>10 DEF Application, ringVars, D!Begin, D!BeginCall, D!BeginReceiveErrors,
                 D!NotifyError, D!BeginClose, D!Ended, D!vars
  <2>2. \/ UNCHANGED pc
        \/ /\ native # "freed"
           /\ \E t \in D!Threads : /\ pc[t] = "idle"
                                  /\ \E to : pc' = [pc EXCEPT ![t] = to]
    BY <1>1, <1>10 DEF Application, D!Begin, D!BeginCall, D!BeginReceiveErrors,
                 D!NotifyError, D!BeginClose, D!Ended, D!vars, D!Goto
  <2> QED
    BY <1>1, <2>1, <2>2
<1>11. CASE Transfer
  BY <1>1, <1>11 DEF Transfer, R!Complete, deviceVars
<1>12. CASE UNCHANGED vars
  BY <1>1, <1>12 DEF vars, deviceVars, ringVars
<1> QED
  BY <1>3, <1>4, <1>5, <1>6, <1>7, <1>8, <1>9, <1>10, <1>11, <1>12 DEF Next, OpenClose

\* The joint invariant holds for any number of clients, URBs and transfers.
\* (Device.cs over candle.c)
THEOREM InductiveInvariant == Spec => []IInv
<1> DEFINE Parts == DP!IInv /\ RP!IInv
<1>1. Init => JointInv
  BY DEF Init, D!Init, R!Init, JointInv
<1>2. Parts /\ JointInv /\ [Next]_vars => JointInv'
  BY JointInvStep DEF IInv
<1>3. Parts /\ JointInv <=> IInv
  BY DEF IInv
<1>4. Spec => []Parts
  BY PartsInvariant
<1> HIDE DEF Parts
<1>5. Spec => []JointInv
  BY <1>1, <1>2, <1>4, PTL DEF Spec
<1> QED
  BY <1>3, <1>4, <1>5, PTL

\* Device and candle.c agree on whether the device is open; who reads does so from an
\* open ring, nobody but the flush and the worker is inside a read; and none stays
\* submitted to a closed device, but for an open that was refused one.
\* (Device.Open, Close, ThreadedUpdate; candle_dev_open, candle_dev_close)
THEOREM LayersAgree == Spec => []RingFollowsDevice
<1>1. IInv => RingFollowsDevice
  BY DeviceFacts, RingFacts DEF IInv, JointInv, RingFollowsDevice
<1> QED
  BY <1>1, InductiveInvariant, PTL

\* The memory of a device is not given back while a read into it is submitted,
\* but for an open that was refused one.
\* (Device.Dispose, candle_dev_close, candle_dev_open's early return)
THEOREM MemoryFreedWhenQuiet == Spec => []FreedWhenQuiet
<1>1. IInv => FreedWhenQuiet
  BY RingFacts DEF IInv, JointInv, FreedWhenQuiet
<1> QED
  BY <1>1, InductiveInvariant, PTL

\* The calls of the application keep the promise of ActionQueue on top of the ring,
\* whatever the device does and whichever reads are refused.
\* (Device.PerformBlocking, Perform, ThreadedUpdate, Close over candle.c)
THEOREM CompositionImplementsActionQueue == Spec => DP!ImplementsActionQueue
<1>1. DP!DeviceAssumption
  BY DeviceRxAssumption DEF DP!DeviceAssumption
<1>2. Spec => DP!Spec
  BY SameInit, StepIsDevice, SameDevice, PTL DEF Spec, DP!Spec
<1> QED
  BY <1>1, <1>2, DP!DeviceImplementsActionQueue
=============================================================================
