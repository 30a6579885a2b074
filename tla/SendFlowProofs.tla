--------------------------- MODULE SendFlowProofs ---------------------------
(***************************************************************************)
(* SendFlow for any number of URBs, buffers and sends, and any speed of    *)
(* the bus.                                                                *)
(*                                                                         *)
(* FailureNeedsOverrun is a property of the failing step.  It follows from *)
(* where the frames under way are in the state before (Balance): in the    *)
(* queue, where there is at least the one that fails, in the buffers of    *)
(* the device, which are full, and in the URBs.                            *)
(***************************************************************************)
EXTENDS SendFlow, TLAPS

\* The frames under way are queued, in the device or in a URB.
Balance == UnderWay = queued + held + signalled

\* A batch that goes on is not over its limit.
BatchOpen == pass = "take" => count <= BatchLimit + 1

IInv == TypeOK /\ Balance /\ BatchOpen

-----------------------------------------------------------------------------
\* No frame is under way before the first send.
LEMMA InitIInv == Init => IInv
  BY SendFlowAssumption DEF Init, IInv, TypeOK, Balance, BatchOpen, UnderWay, Failed

\* Every step of the application, the device and the worker keeps the balance.
LEMMA NextIInv == IInv /\ [Next]_vars => IInv'
<1> SUFFICES ASSUME IInv, [Next]_vars PROVE IInv'
  OBVIOUS
<1> USE SendFlowAssumption DEF IInv, TypeOK, Balance, BatchOpen, UnderWay, Failed
<1>1. CASE Send
  BY <1>1 DEF Send
<1>2. CASE Echo
  BY <1>2 DEF Echo
<1>3. CASE ReadOne
  BY <1>3 DEF ReadOne
<1>4. CASE Take
  BY <1>4 DEF Take, AfterAction
<1>5. CASE TakeNothing
  BY <1>5 DEF TakeNothing
<1>6. CASE UNCHANGED vars
  BY <1>6 DEF vars
<1>. QED
  BY <1>1, <1>2, <1>3, <1>4, <1>5, <1>6 DEF Next

\* Only candle_frame_send fails, with the device's buffers full.
LEMMA FailureStep ==
  ASSUME IInv, [Next]_vars, Failed' > Failed
  PROVE  /\ UnderWay > BufferCount
         /\ Echoed => UnderWay > UrbCount + BufferCount
<1> USE SendFlowAssumption DEF IInv, TypeOK, Failed
<1>1. CASE Take
  <2>1. queued > 0 /\ held = BufferCount
    BY <1>1 DEF Take
  <2>2. UnderWay = queued + BufferCount + signalled
    BY <2>1 DEF Balance
  <2>. QED
    BY <2>1, <2>2 DEF Echoed
<1>2. CASE Send \/ Echo \/ ReadOne \/ TakeNothing \/ UNCHANGED vars
  <2>1. UNCHANGED <<refused, dropped>>
    BY <1>2 DEF Send, Echo, ReadOne, TakeNothing, vars
  <2>2. refused \in Nat /\ dropped \in Nat
    OBVIOUS
  <2>. QED
    BY <2>1, <2>2
<1>. QED
  BY <1>1, <1>2 DEF Next

\* The inductive invariant holds in every reachable state.
\* (Device.ThreadedUpdate, candle_frame_send, candle_frame_read)
THEOREM InductiveInvariant == Spec => []IInv
  BY InitIInv, NextIInv, PTL DEF Spec

-----------------------------------------------------------------------------
\* No buffer or URB is counted that does not exist, no read is counted that
\* returned nothing, and no batch goes beyond its limit.
\* (Device.ThreadedUpdate, candle_frame_read, candle_frame_send)
THEOREM TypeCorrect == Spec => []TypeOK
<1>1. IInv => TypeOK
  BY DEF IInv
<1>. QED
  BY <1>1, InductiveInvariant, PTL

\* No send fails with BufferCount frames under way or fewer, whatever the order in
\* which they are sent, echoed and read, and with UrbCount + BufferCount or fewer
\* when the bus has kept up.  (Device.ThreadedUpdate, candle_frame_send)
THEOREM FailuresNeedOverrun == Spec => FailureNeedsOverrun
<1> DEFINE A ==
      Failed' > Failed =>
        /\ UnderWay > BufferCount
        /\ Echoed => UnderWay > UrbCount + BufferCount
<1>1. IInv /\ [Next]_vars => [A]_vars
  BY FailureStep
<1>. QED
  BY <1>1, InductiveInvariant, PTL DEF Spec, FailureNeedsOverrun
=============================================================================
