------------------------------ MODULE Channel ------------------------------
(***************************************************************************)
(* Candle.NET/Channel.cs: the receive queue and the bit counters of one    *)
(* Channel of an open Device.                                              *)
(*                                                                         *)
(* The worker sends, receives and counts; one application thread sends,    *)
(* takes what was received, and calls Start and Update.  Nothing locks the *)
(* counters: an increment is a read and a write, and Update's steps may    *)
(* come between and around them.                                           *)
(***************************************************************************)
EXTENDS Sequences, FrameCodec

CONSTANTS
  AppFrames,  \* the frames the application sends
  SecondMs,   \* the milliseconds of a second (1000), scaled down
  MaxSends,   \* bound: the frames sent
  MaxTime     \* bound: the milliseconds that pass

ASSUME ChannelAssumption ==
  /\ SecondMs \in Nat \ {0} /\ MaxSends \in Nat
  /\ MaxTime \in Nat /\ SecondMs <= MaxTime
  /\ AppFrames \subseteq
       [identifier : Words, extended : BOOLEAN, rtr : BOOLEAN, error : BOOLEAN, data : Nat]

Kinds == {"rx", "tx"}

VARIABLES
  now,       \* DateTime.Now
  sends,     \* the number of calls of Send
  outbox,    \* the sends among the queued actions
  wire,      \* external: the native frames that the device will report, with
             \* the frame they were sent as
  handed,    \* the frames, as they were sent, that NotifyReceive was called for
  rxQueue,   \* FRxQueue
  received,  \* what Receive has returned
  worker,    \* the increment the worker is making: the counter, the bits, and the
             \* value that it has read
  counter,   \* FCounterRxBits and FCounterTxBits
  lastTime,  \* FCounterLastTime
  report,    \* FRxBitsPerSecond and FTxBitsPerSecond
  pc,        \* where the application is in Start or Update
  updateNow, \* Update's now
  since,     \* the bits counted since Update last looked at the counter
  began,     \* the time from which they are counted, or NotBegun
  raced,     \* an increment fell between the last look at the counter and its reset
  ideal,     \* the rate that Update should have reported
  trust      \* what can be said of the report: nothing ("unknown"), or its period was
             \* "within" a second or "beyond"

traffic == <<sends, outbox, wire, handed, rxQueue, received>>
rates == <<counter, lastTime, report, updateNow, since, began, raced, ideal, trust>>
vars == <<now, traffic, worker, rates, pc>>

NotBegun == MaxTime + 1

NoIncrement == [counts |-> FALSE, kind |-> "rx", bits |-> 0, value |-> 0]

Frames == [identifier : Words, extended : BOOLEAN, rtr : BOOLEAN, error : BOOLEAN,
           data : 0 .. MaxData]

TypeOK ==
  /\ now \in Nat /\ sends \in 0 .. MaxSends
  /\ outbox \in Seq(Frames)
  /\ wire \in Seq([native : [can_id : Words, can_dlc : 0 .. MaxData], frame : Frames])
  /\ handed \in Seq(Frames) /\ rxQueue \in Seq(Frames) /\ received \in Seq(Frames)
  /\ worker \in [counts : BOOLEAN, kind : Kinds, bits : Nat, value : Nat]
  /\ counter \in [Kinds -> Nat] /\ report \in [Kinds -> Nat]
  /\ lastTime \in 0 .. now /\ updateNow \in 0 .. now
  /\ pc \in {"idle", "rx", "tx", "time", "resetRx", "resetTx", "startRx", "startTx"}
  /\ since \in [Kinds -> Nat] /\ ideal \in [Kinds -> Nat]
  /\ began \in 0 .. now \cup {NotBegun}
  /\ raced \in [Kinds -> BOOLEAN]
  /\ trust \in [Kinds -> {"unknown", "within", "beyond"}]

\* FCounterLastTime is DateTime's default: any part of a second lies between it
\* and the first Update.
Init ==
  /\ now \in 0 .. SecondMs - 1
  /\ sends = 0 /\ outbox = <<>> /\ wire = <<>>
  /\ handed = <<>> /\ rxQueue = <<>> /\ received = <<>>
  /\ worker = NoIncrement
  /\ counter = [k \in Kinds |-> 0] /\ report = counter /\ since = counter /\ ideal = counter
  /\ lastTime = 0 /\ updateNow = 0 /\ began = NotBegun
  /\ pc = "idle"
  /\ raced = [k \in Kinds |-> FALSE] /\ trust = [k \in Kinds |-> "unknown"]

Tick ==
  /\ now < MaxTime
  /\ now' = now + 1
  /\ UNCHANGED <<traffic, worker, rates, pc>>

-----------------------------------------------------------------------------
(* The worker.                                                             *)

\* The read of +=.
Counting(k, frame) ==
  worker' = [counts |-> TRUE, kind |-> k, bits |-> LengthOnBus(frame), value |-> counter[k]]

\* The action of SendOnChannel: a frame that was sent is counted, and shows up
\* again as its echo.
WorkerSend ==
  /\ ~worker.counts /\ outbox # <<>>
  /\ outbox' = Tail(outbox)
  /\ \/ /\ wire' = Append(wire, [native |-> ToNative(Head(outbox)), frame |-> Head(outbox)])
        /\ Counting("tx", Head(outbox))
     \/ UNCHANGED <<wire, worker>>
  /\ UNCHANGED <<now, sends, handed, rxQueue, received, rates, pc>>

\* A received frame is converted and given to NotifyReceive, which adds it to the
\* queue before it counts it.
WorkerReceive ==
  /\ ~worker.counts /\ wire # <<>>
  /\ wire' = Tail(wire)
  /\ LET frame == FromNative(Head(wire).native) IN
       rxQueue' = Append(rxQueue, frame) /\ Counting("rx", frame)
  /\ handed' = Append(handed, Head(wire).frame)
  /\ UNCHANGED <<now, sends, outbox, received, rates, pc>>

\* Update has looked at the counter and not yet reset it.
BetweenLookAndReset(kind) ==
  \/ kind = "rx" /\ pc \in {"tx", "time", "resetRx"}
  \/ kind = "tx" /\ pc \in {"time", "resetRx", "resetTx"}

\* Its write.
WriteCounter ==
  /\ worker.counts
  /\ worker' = NoIncrement
  /\ LET k == worker.kind IN
       /\ counter' = [counter EXCEPT ![k] = worker.value + worker.bits]
       /\ since' = [since EXCEPT ![k] = @ + worker.bits]
       /\ raced' = [raced EXCEPT ![k] = @ \/ BetweenLookAndReset(k)]
  /\ UNCHANGED <<now, traffic, lastTime, report, updateNow, began, ideal, trust, pc>>

-----------------------------------------------------------------------------
(* The application.                                                        *)

\* Send: a frame with too much data is refused by the conversion.
Send(f) ==
  /\ pc = "idle" /\ sends < MaxSends
  /\ sends' = sends + 1
  /\ outbox' = IF Convertible(f) THEN Append(outbox, f) ELSE outbox
  /\ UNCHANGED <<now, wire, handed, rxQueue, received, worker, rates, pc>>

\* One turn of Receive's TryTake loop.
Receive ==
  /\ pc = "idle" /\ rxQueue # <<>>
  /\ received' = Append(received, Head(rxQueue))
  /\ rxQueue' = Tail(rxQueue)
  /\ UNCHANGED <<now, sends, outbox, wire, handed, worker, rates, pc>>

\* bits * 1000 / millis, or 0.
PerSecond(bits, millis) == IF millis = 0 THEN 0 ELSE (bits * SecondMs) \div millis

\* TimeSpan.Milliseconds: the milliseconds of the last, incomplete second.
Milliseconds(span) == span % SecondMs

BeginUpdate ==
  /\ pc = "idle" /\ pc' = "rx"
  /\ updateNow' = now
  /\ UNCHANGED <<now, traffic, worker, counter, lastTime, report, since, began, raced,
                 ideal, trust>>

\* A rate is computed.
Look(kind, from, to) ==
  /\ pc = from /\ pc' = to
  /\ report' = [report EXCEPT ![kind] =
                  PerSecond(counter[kind], Milliseconds(updateNow - lastTime))]
  /\ IF began = NotBegun
       THEN trust' = [trust EXCEPT ![kind] = "unknown"] /\ UNCHANGED ideal
       ELSE /\ ideal' = [ideal EXCEPT ![kind] = PerSecond(since[kind], updateNow - began)]
            /\ trust' = [trust EXCEPT ![kind] =
                           IF raced[kind] THEN "unknown"
                           ELSE IF updateNow - began < SecondMs THEN "within" ELSE "beyond"]
  /\ since' = [since EXCEPT ![kind] = 0]
  /\ raced' = [raced EXCEPT ![kind] = FALSE]
  /\ UNCHANGED <<now, traffic, worker, counter, lastTime, updateNow, began>>

\* Mutant: FCounterLastTime is left alone.
KeepTime == UNCHANGED lastTime

\* this.FCounterLastTime = now
SetTime == lastTime' = updateNow

UpdateTime ==
  /\ pc = "time" /\ pc' = "resetRx"
  /\ SetTime
  /\ began' = updateNow
  /\ UNCHANGED <<now, traffic, worker, counter, report, updateNow, since, raced, ideal,
                 trust>>

\* A counter is reset; an increment that has read it will undo that.
Reset(kind, from, to) ==
  /\ pc = from /\ pc' = to
  /\ counter' = [counter EXCEPT ![kind] = 0]
  /\ raced' = [raced EXCEPT ![kind] = @ \/ (worker.counts /\ worker.kind = kind)]
  /\ UNCHANGED <<now, traffic, worker, lastTime, report, updateNow, since, began, ideal,
                 trust>>

Update ==
  \/ BeginUpdate \/ Look("rx", "rx", "tx") \/ Look("tx", "tx", "time") \/ UpdateTime
  \/ Reset("rx", "resetRx", "resetTx") \/ Reset("tx", "resetTx", "idle")

\* Start, when its two requests have succeeded: the counting begins anew.
BeginStart ==
  /\ pc = "idle" /\ pc' = "startRx"
  /\ lastTime' = now /\ began' = now
  /\ UNCHANGED <<now, traffic, worker, counter, report, updateNow, since, raced, ideal,
                 trust>>

StartCounter(kind, from, to) ==
  /\ pc = from /\ pc' = to
  /\ counter' = [counter EXCEPT ![kind] = 0]
  /\ since' = [since EXCEPT ![kind] = 0]
  /\ raced' = [raced EXCEPT ![kind] = worker.counts /\ worker.kind = kind]
  /\ UNCHANGED <<now, traffic, worker, lastTime, report, updateNow, began, ideal, trust>>

Start ==
  BeginStart \/ StartCounter("rx", "startRx", "startTx") \/ StartCounter("tx", "startTx", "idle")

Worker == WorkerSend \/ WorkerReceive \/ WriteCounter

Next == Tick \/ Worker \/ (\E f \in AppFrames : Send(f)) \/ Receive \/ Update \/ Start

Spec == Init /\ [][Next]_vars

-----------------------------------------------------------------------------
(* Properties.                                                             *)

\* Update reports, for a period of less than a second, the bits that were counted
\* since the last Update or Start looked, each once: none is lost and none counted
\* again, as long as no increment fell between that look and the reset behind it.
\* (One that did is lost or counted twice.)
\* (Channel.Update, Start, IncrementRx, IncrementTx)
ReportsRight == \A k \in Kinds : trust[k] = "within" => report[k] = ideal[k]

\* RxBitsPerSecond and TxBitsPerSecond are bits per second.
\* (Channel.Update, Channel.RxBitsPerSecond)
RatesArePerSecond == \A k \in Kinds : trust[k] # "unknown" => report[k] = ideal[k]

\* Every frame that comes back is received once, in order and as it was sent, when
\* its identifier has no more bits than can_id has room for.
\* (Device.SendOnChannel, ThreadedUpdate, Channel.NotifyReceive, Receive)
FramesKept ==
  LET got == received \o rxQueue IN
  /\ Len(got) = Len(handed)
  /\ \A i \in DOMAIN got : handed[i].identifier < IdLimit => got[i] = handed[i]
=============================================================================
