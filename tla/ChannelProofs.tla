---------------------------- MODULE ChannelProofs ----------------------------
(***************************************************************************)
(* What Channel's runs check on a small instance, proved for any number of *)
(* frames, any time and any width of an identifier.                        *)
(***************************************************************************)
EXTENDS Channel, SequenceTheorems, TLAPS

USE FrameCodecAssumption, ChannelAssumption

-----------------------------------------------------------------------------
(* The conversion of a frame.                                              *)

\* The word of an identifier and the three bits above it.
Word(q, r) == q * IdLimit + r

Bits == 0 .. 7
Ids == 0 .. IdLimit - 1

\* Division with remainder.
LEMMA Division ==
  ASSUME NEW a \in Nat, NEW b \in Nat \ {0}
  PROVE  a = b * (a \div b) + (a % b) /\ a \div b \in Nat /\ a % b \in 0 .. b - 1
  OBVIOUS

\* What is below the divisor is its own remainder.
LEMMA SmallRemainder ==
  ASSUME NEW a \in Nat, NEW b \in Nat \ {0}, a < b
  PROVE  a % b = a
  OBVIOUS

\* Every word is one of an identifier and three bits.  (candle_frame_t.can_id)
LEMMA WordShape ==
  ASSUME NEW w \in Words
  PROVE  \E q \in Bits, r \in Ids : w = Word(q, r)
<1>1. w \in Nat /\ w < 8 * IdLimit
  BY DEF Words
<1> DEFINE q == w \div IdLimit
           r == w % IdLimit
<1>2. w = IdLimit * q + r /\ q \in Nat /\ r \in Ids
  BY <1>1, Division DEF Ids
<1> HIDE DEF q, r
<1>3. q < 8
  BY <1>1, <1>2 DEF Ids
<1>4. w = Word(q, r)
  BY <1>2 DEF Word, Ids
<1> QED
  BY <1>2, <1>3, <1>4 DEF Bits

\* What the masks of ThreadedUpdate see of such a word.  (Device.cs, 324-327)
LEMMA FlagsOfWord ==
  ASSUME NEW q \in Bits, NEW r \in Ids
  PROVE  /\ Word(q, r) \in Words
         /\ Word(q, r) % IdLimit = r
         /\ HasFlag(Word(q, r), ErrorFlag) <=> q \in {1, 3, 5, 7}
         /\ HasFlag(Word(q, r), RtrFlag) <=> q \in {2, 3, 6, 7}
         /\ HasFlag(Word(q, r), ExtendedFlag) <=> q \in {4, 5, 6, 7}
<1> DEFINE w == q * IdLimit + r
<1> USE DEF Bits, Ids
<1>1. w \in Words
  BY DEF Words
<1>2. w \div IdLimit = q /\ w % IdLimit = r
  OBVIOUS
<1>3. w \div (2 * IdLimit) = IF q \in {0, 1} THEN 0 ELSE IF q \in {2, 3} THEN 1
                             ELSE IF q \in {4, 5} THEN 2 ELSE 3
  OBVIOUS
<1>4. w \div (4 * IdLimit) = IF q \in {0, 1, 2, 3} THEN 0 ELSE 1
  OBVIOUS
<1> QED
  BY <1>1, <1>2, <1>3, <1>4 DEF HasFlag, ErrorFlag, RtrFlag, ExtendedFlag, Word

\* What |= with each mask of SendOnChannel makes of such a word.  (Device.cs, 374-385)
LEMMA FlagSet ==
  ASSUME NEW q \in Bits, NEW r \in Ids, NEW set \in BOOLEAN
  PROVE  /\ WithFlag(Word(q, r), ErrorFlag, set) =
              Word(IF set /\ q \in {0, 2, 4, 6} THEN q + 1 ELSE q, r)
         /\ WithFlag(Word(q, r), RtrFlag, set) =
              Word(IF set /\ q \in {0, 1, 4, 5} THEN q + 2 ELSE q, r)
         /\ WithFlag(Word(q, r), ExtendedFlag, set) =
              Word(IF set /\ q \in {0, 1, 2, 3} THEN q + 4 ELSE q, r)
<1>1. /\ Word(q, r) + ErrorFlag = Word(q + 1, r)
      /\ Word(q, r) + RtrFlag = Word(q + 2, r)
      /\ Word(q, r) + ExtendedFlag = Word(q + 4, r)
  BY DEF Word, ErrorFlag, RtrFlag, ExtendedFlag, Bits, Ids
<1>2. /\ ~HasFlag(Word(q, r), ErrorFlag) <=> q \in {0, 2, 4, 6}
      /\ ~HasFlag(Word(q, r), RtrFlag) <=> q \in {0, 1, 4, 5}
      /\ ~HasFlag(Word(q, r), ExtendedFlag) <=> q \in {0, 1, 2, 3}
  BY FlagsOfWord DEF Bits
<1> QED
  BY <1>1, <1>2 DEF WithFlag

\* The flags of a frame are set above the identifier, whatever it is: can_id does
\* not overflow its 32 bits, and an identifier that fits is left alone.
\* (Device.SendOnChannel)
LEMMA CanIdShape ==
  ASSUME NEW f \in Frames
  PROVE  \E q \in Bits, r \in Ids :
           /\ CanId(f) = Word(q, r)
           /\ f.identifier < IdLimit =>
                /\ r = f.identifier
                /\ q = (IF f.extended THEN 4 ELSE 0) + (IF f.rtr THEN 2 ELSE 0)
                         + (IF f.error THEN 1 ELSE 0)
<1>1. f.identifier \in Words /\ f.extended \in BOOLEAN /\ f.rtr \in BOOLEAN
        /\ f.error \in BOOLEAN
  BY DEF Frames
<1>2. PICK q \in Bits, r \in Ids : f.identifier = Word(q, r)
  BY <1>1, WordShape
<1> DEFINE q1 == IF f.extended /\ q \in {0, 1, 2, 3} THEN q + 4 ELSE q
           q2 == IF f.rtr /\ q1 \in {0, 1, 4, 5} THEN q1 + 2 ELSE q1
           q3 == IF f.error /\ q2 \in {0, 2, 4, 6} THEN q2 + 1 ELSE q2
<1>3. q1 \in Bits /\ WithFlag(f.identifier, ExtendedFlag, f.extended) = Word(q1, r)
  <2>1. q1 \in Bits
    BY DEF Bits
  <2> QED
    BY <1>1, <1>2, <2>1, FlagSet
<1> HIDE DEF q1
<1>4. q2 \in Bits /\ WithFlag(Word(q1, r), RtrFlag, f.rtr) = Word(q2, r)
  <2>1. q2 \in Bits
    BY <1>3 DEF Bits
  <2> QED
    BY <1>1, <1>3, <2>1, FlagSet
<1> HIDE DEF q2
<1>5. q3 \in Bits /\ WithFlag(Word(q2, r), ErrorFlag, f.error) = Word(q3, r)
  <2>1. q3 \in Bits
    BY <1>4 DEF Bits
  <2> QED
    BY <1>1, <1>4, <2>1, FlagSet
<1>6. CanId(f) = Word(q3, r)
  BY <1>3, <1>4, <1>5 DEF CanId
<1>7. ASSUME f.identifier < IdLimit
      PROVE  /\ r = f.identifier
             /\ q3 = (IF f.extended THEN 4 ELSE 0) + (IF f.rtr THEN 2 ELSE 0)
                       + (IF f.error THEN 1 ELSE 0)
  <2>1. q = 0
    BY <1>2, <1>7 DEF Word, Bits, Ids
  <2>2. r = f.identifier
    BY <1>2, <2>1 DEF Word, Ids
  <2> QED
    BY <1>1, <2>1, <2>2 DEF q1, q2
<1> HIDE DEF q3
<1> QED
  BY <1>5, <1>6, <1>7

\* The native frame of a frame that can be converted.  (Device.SendOnChannel)
LEMMA NativeTyped ==
  ASSUME NEW f \in Frames
  PROVE  ToNative(f) \in [can_id : Words, can_dlc : 0 .. MaxData]
<1>1. CanId(f) \in Words
  BY CanIdShape, FlagsOfWord
<1> QED
  BY <1>1 DEF ToNative, Frames

\* A native frame becomes a frame.  (Device.ThreadedUpdate)
LEMMA FrameTyped ==
  ASSUME NEW n \in [can_id : Words, can_dlc : 0 .. MaxData]
  PROVE  FromNative(n) \in Frames
<1>1. n.can_id % IdLimit \in Words
  BY DEF Words
<1> QED
  BY <1>1 DEF FromNative, Frames, HasFlag

\* A frame whose identifier fits is converted and converted back to itself.
\* (Device.SendOnChannel, ThreadedUpdate)
THEOREM ConversionIsInverted ==
  ASSUME NEW f \in Frames, f.identifier < IdLimit
  PROVE  FromNative(ToNative(f)) = f
<1>1. PICK q \in Bits, r \in Ids :
        /\ CanId(f) = Word(q, r)
        /\ r = f.identifier
        /\ q = (IF f.extended THEN 4 ELSE 0) + (IF f.rtr THEN 2 ELSE 0)
                 + (IF f.error THEN 1 ELSE 0)
  BY CanIdShape
<1>2. CanId(f) % IdLimit = f.identifier
  BY <1>1, FlagsOfWord
<1>3. /\ HasFlag(CanId(f), ExtendedFlag) <=> q \in {4, 5, 6, 7}
      /\ HasFlag(CanId(f), RtrFlag) <=> q \in {2, 3, 6, 7}
      /\ HasFlag(CanId(f), ErrorFlag) <=> q \in {1, 3, 5, 7}
  BY <1>1, FlagsOfWord
<1>4. f.extended \in BOOLEAN /\ f.rtr \in BOOLEAN /\ f.error \in BOOLEAN
  BY DEF Frames
<1>5. /\ HasFlag(CanId(f), ExtendedFlag) = f.extended
      /\ HasFlag(CanId(f), RtrFlag) = f.rtr
      /\ HasFlag(CanId(f), ErrorFlag) = f.error
  BY <1>1, <1>3, <1>4 DEF HasFlag
<1> QED
  BY <1>2, <1>5 DEF FromNative, ToNative, Frames

-----------------------------------------------------------------------------
(* The two queues of frames.                                               *)

\* What TryTake takes and what it leaves make up the queue.  (Channel.Receive)
LEMMA HeadThenTail ==
  ASSUME NEW S, NEW s \in Seq(S), s # <<>>
  PROVE  <<Head(s)>> \o Tail(s) = s
<1>1. /\ Len(s) \in Nat \ {0} /\ Head(s) = s[1] /\ Head(s) \in S
      /\ Tail(s) \in Seq(S) /\ Len(Tail(s)) = Len(s) - 1
      /\ \A i \in 1 .. Len(s) - 1 : Tail(s)[i] = s[i + 1]
  BY EmptySeq, HeadTailProperties
<1>2. <<Head(s)>> \in Seq(S) /\ Len(<<Head(s)>>) = 1 /\ <<Head(s)>>[1] = Head(s)
  BY <1>1
<1>3. /\ <<Head(s)>> \o Tail(s) \in Seq(S)
      /\ Len(<<Head(s)>> \o Tail(s)) = Len(s)
      /\ \A i \in 1 .. Len(s) :
           (<<Head(s)>> \o Tail(s))[i] = IF i <= 1 THEN Head(s) ELSE Tail(s)[i - 1]
  BY <1>1, <1>2, ConcatProperties
<1>4. \A i \in 1 .. Len(s) : (<<Head(s)>> \o Tail(s))[i] = s[i]
  <2> TAKE i \in 1 .. Len(s)
  <2>1. CASE i = 1
    BY <1>1, <1>3, <2>1
  <2>2. CASE i # 1
    <3>1. i - 1 \in 1 .. Len(s) - 1 /\ (i - 1) + 1 = i /\ ~(i <= 1)
      BY <1>1, <2>2
    <3> QED
      BY <1>1, <1>3, <3>1
  <2> QED
    BY <2>1, <2>2
<1> QED
  BY <1>3, <1>4, SeqEqual

\* The head of a queue is its first element.
LEMMA HeadOfSeq ==
  ASSUME NEW S, NEW s \in Seq(S), s # <<>>
  PROVE  Head(s) = s[1] /\ 1 \in DOMAIN s /\ Head(s) \in S
<1>1. Len(s) \in Nat \ {0} /\ DOMAIN s = 1 .. Len(s)
  BY EmptySeq, LenProperties
<1> QED
  BY <1>1, HeadTailProperties

\* To move the head of one queue behind the other changes nothing in both together.
\* (Channel.Receive)
LEMMA HeadMoved ==
  ASSUME NEW S, NEW r \in Seq(S), NEW s \in Seq(S), s # <<>>
  PROVE  Append(r, Head(s)) \o Tail(s) = r \o s
<1>1. Head(s) \in S /\ Tail(s) \in Seq(S)
  BY HeadTailProperties
<1>2. <<Head(s)>> \in Seq(S)
  BY <1>1
<1>3. Append(r, Head(s)) = r \o <<Head(s)>>
  BY <1>1, AppendIsConcat
<1>4. (r \o <<Head(s)>>) \o Tail(s) = r \o (<<Head(s)>> \o Tail(s))
  BY <1>1, <1>2, ConcatAssociative
<1> QED
  BY <1>3, <1>4, HeadThenTail

\* What is added to the queue comes behind all that was received.
\* (Channel.NotifyReceive)
LEMMA AddedBehind ==
  ASSUME NEW S, NEW r \in Seq(S), NEW s \in Seq(S), NEW x \in S
  PROVE  r \o Append(s, x) = Append(r \o s, x)
<1>1. <<x>> \in Seq(S)
  OBVIOUS
<1>2. Append(s, x) = s \o <<x>> /\ Append(r \o s, x) = (r \o s) \o <<x>>
  BY AppendIsConcat, ConcatProperties
<1> QED
  BY <1>1, <1>2, ConcatAssociative

-----------------------------------------------------------------------------
(* The inductive invariant.                                                *)

\* The counter of an increment that no reset has overlapped has the bits counted
\* since Update last looked at it; between that look and the reset there are none
\* since, and an increment made there shows in raced.
CountInv ==
  \A k \in Kinds : ~raced[k] =>
    IF BetweenLookAndReset(k) THEN since[k] = 0
    ELSE /\ counter[k] = since[k]
         /\ worker.counts /\ worker.kind = k => worker.value = counter[k]

\* The time that Update subtracts is the one from which the bits are counted.
TimeInv ==
  /\ began \in {NotBegun, lastTime}
  /\ pc \in {"rx", "tx"} => lastTime <= updateNow

\* The wire has what the conversion made of the frames.
WireInv == \A i \in DOMAIN wire : wire[i].native = ToNative(wire[i].frame)

IInv == TypeOK /\ CountInv /\ TimeInv /\ WireInv /\ ReportsRight /\ FramesKept
\* A rate is a number.  (Channel.Update)
LEMMA RateTyped ==
  ASSUME NEW bits \in Nat, NEW span \in Int
  PROVE  PerSecond(bits, Milliseconds(span)) \in Nat
<1>1. Milliseconds(span) \in Nat
  BY DEF Milliseconds
<1>2. bits * SecondMs \in Nat
  OBVIOUS
<1>3. CASE Milliseconds(span) = 0
  BY <1>3 DEF PerSecond
<1>4. CASE Milliseconds(span) # 0
  BY <1>1, <1>2, <1>4, Division DEF PerSecond
<1> QED
  BY <1>3, <1>4

\* A frame has a length on the bus.  (Frame.LengthOnBus)
LEMMA LengthTyped == ASSUME NEW f \in Frames PROVE LengthOnBus(f) \in Nat
  BY DEF LengthOnBus, Frames, MaxData

\* No step changes the type of a variable.  (Channel.cs)
LEMMA TypeOKStep ==
  ASSUME TypeOK, TimeInv, [Next]_vars
  PROVE  TypeOK'
<1> USE DEF TypeOK
<1> DEFINE Natives == [native : [can_id : Words, can_dlc : 0 .. MaxData], frame : Frames]
<1>1. CASE Tick
  BY <1>1 DEF Tick, traffic, rates
<1>2. CASE WorkerSend
  <2>1. outbox' \in Seq(Frames) /\ Head(outbox) \in Frames
    BY <1>2, HeadTailProperties DEF WorkerSend
  <2>2. CASE UNCHANGED <<wire, worker>>
    BY <1>2, <2>1, <2>2 DEF WorkerSend, rates
  <2>3. CASE /\ wire' = Append(wire, [native |-> ToNative(Head(outbox)), frame |-> Head(outbox)])
             /\ Counting("tx", Head(outbox))
    <3>1. [native |-> ToNative(Head(outbox)), frame |-> Head(outbox)] \in Natives
      BY <2>1, NativeTyped
    <3>2. wire' \in Seq(Natives)
      BY <2>3, <3>1, AppendProperties
    <3>3. worker' \in [counts : BOOLEAN, kind : Kinds, bits : Nat, value : Nat]
      BY <2>1, <2>3, LengthTyped DEF Counting, Kinds
    <3> QED
      BY <1>2, <2>1, <3>2, <3>3 DEF WorkerSend, rates
  <2> QED
    BY <1>2, <2>2, <2>3 DEF WorkerSend
<1>3. CASE WorkerReceive
  <2> DEFINE frame == FromNative(Head(wire).native)
  <2>1. wire' \in Seq(Natives) /\ Head(wire) \in Natives
    BY <1>3, HeadTailProperties DEF WorkerReceive
  <2>2. frame \in Frames
    BY <2>1, FrameTyped
  <2>3. rxQueue' \in Seq(Frames) /\ handed' \in Seq(Frames)
    BY <1>3, <2>1, <2>2, AppendProperties DEF WorkerReceive
  <2>4. worker' \in [counts : BOOLEAN, kind : Kinds, bits : Nat, value : Nat]
    BY <1>3, <2>2, LengthTyped DEF WorkerReceive, Counting, Kinds
  <2> QED
    BY <1>3, <2>1, <2>3, <2>4 DEF WorkerReceive, rates
<1>4. CASE WriteCounter
  <2>1. BetweenLookAndReset(worker.kind) \in BOOLEAN
    BY DEF BetweenLookAndReset
  <2> QED
    BY <1>4, <2>1 DEF WriteCounter, NoIncrement, Kinds, traffic
<1>5. ASSUME NEW f \in AppFrames, Send(f) PROVE TypeOK'
  <2>1. Convertible(f) => f \in Frames
    <3>1. f \in [identifier : Words, extended : BOOLEAN, rtr : BOOLEAN, error : BOOLEAN,
                 data : Nat]
      OBVIOUS
    <3> QED
      BY ONLY <3>1 DEF Convertible, Frames, MaxData
  <2>2. outbox' \in Seq(Frames)
    BY <1>5, <2>1, AppendProperties DEF Send
  <2> QED
    BY <1>5, <2>2 DEF Send, rates
<1>6. CASE Receive
  <2>1. received' \in Seq(Frames) /\ rxQueue' \in Seq(Frames)
    BY <1>6, HeadTailProperties, AppendProperties DEF Receive
  <2> QED
    BY <1>6, <2>1 DEF Receive, rates
<1>7. CASE BeginUpdate
  BY <1>7 DEF BeginUpdate, traffic
<1>8. ASSUME NEW k \in Kinds, NEW from, NEW to, Look(k, from, to),
             from \in {"rx", "tx"}, to \in {"tx", "time"}
      PROVE  TypeOK'
  <2>1. PerSecond(counter[k], Milliseconds(updateNow - lastTime)) \in Nat
    <3>1. counter[k] \in Nat /\ updateNow - lastTime \in Int
      OBVIOUS
    <3> QED
      BY ONLY <3>1, RateTyped
  <2>2. report' \in [Kinds -> Nat]
    BY <1>8, <2>1 DEF Look
  <2>3. began # NotBegun => PerSecond(since[k], updateNow - began) \in Nat
    <3>1. SUFFICES ASSUME began = lastTime, updateNow - lastTime # 0
                   PROVE  PerSecond(since[k], updateNow - began) \in Nat
      BY DEF TimeInv, PerSecond
    <3>2. updateNow - began \in Nat \ {0} /\ since[k] * SecondMs \in Nat
      BY <1>8, <3>1 DEF TimeInv, Look
    <3> QED
      BY <3>2, Division DEF PerSecond
  <2>4. ideal' \in [Kinds -> Nat]
    BY <1>8, <2>3 DEF Look
  <2>5. trust' \in [Kinds -> {"unknown", "within", "beyond"}]
    BY <1>8 DEF Look
  <2> QED
    BY <1>8, <2>2, <2>4, <2>5 DEF Look, traffic
<1>9. CASE UpdateTime
  BY <1>9 DEF UpdateTime, SetTime, traffic
<1>10. ASSUME NEW k \in Kinds, NEW from, NEW to, Reset(k, from, to), to \in {"resetTx", "idle"}
       PROVE  TypeOK'
  BY <1>10 DEF Reset, traffic
<1>11. CASE BeginStart
  BY <1>11 DEF BeginStart, traffic
<1>12. ASSUME NEW k \in Kinds, NEW from, NEW to, StartCounter(k, from, to),
              to \in {"startTx", "idle"}
       PROVE  TypeOK'
  BY <1>12 DEF StartCounter, traffic
<1>13. CASE UNCHANGED vars
  BY <1>13 DEF vars, traffic, rates
<1> QED
  BY <1>1, <1>2, <1>3, <1>4, <1>5, <1>6, <1>7, <1>8, <1>9, <1>10, <1>11, <1>12, <1>13
  DEF Next, Worker, Update, Start, Kinds

\* An increment is in a counter and in since, or in neither, unless raced says
\* otherwise.  (Channel.IncrementRx, IncrementTx, Update, Start)
LEMMA CountStep ==
  ASSUME TypeOK, CountInv, [Next]_vars
  PROVE  CountInv'
<1> USE DEF TypeOK, CountInv
<1>1. CASE Tick
  BY <1>1 DEF Tick, rates, BetweenLookAndReset
<1>2. CASE WorkerSend
  BY <1>2 DEF WorkerSend, Counting, rates, BetweenLookAndReset
<1>3. CASE WorkerReceive
  BY <1>3 DEF WorkerReceive, Counting, rates, BetweenLookAndReset
<1>4. CASE WriteCounter
  BY <1>4 DEF WriteCounter, NoIncrement, BetweenLookAndReset
<1>5. ASSUME NEW f \in AppFrames, Send(f) PROVE CountInv'
  BY <1>5 DEF Send, rates, BetweenLookAndReset
<1>6. CASE Receive
  BY <1>6 DEF Receive, rates, BetweenLookAndReset
<1>7. CASE BeginUpdate
  BY <1>7 DEF BeginUpdate, BetweenLookAndReset
<1>8. CASE Look("rx", "rx", "tx")
  BY <1>8 DEF Look, BetweenLookAndReset, Kinds
<1>9. CASE Look("tx", "tx", "time")
  BY <1>9 DEF Look, BetweenLookAndReset, Kinds
<1>10. CASE UpdateTime
  BY <1>10 DEF UpdateTime, BetweenLookAndReset, Kinds
<1>11. CASE Reset("rx", "resetRx", "resetTx")
  BY <1>11 DEF Reset, BetweenLookAndReset, Kinds
<1>12. CASE Reset("tx", "resetTx", "idle")
  BY <1>12 DEF Reset, BetweenLookAndReset, Kinds
<1>13. CASE BeginStart
  BY <1>13 DEF BeginStart, BetweenLookAndReset
<1>14. CASE StartCounter("rx", "startRx", "startTx")
  BY <1>14 DEF StartCounter, BetweenLookAndReset, Kinds
<1>15. CASE StartCounter("tx", "startTx", "idle")
  BY <1>15 DEF StartCounter, BetweenLookAndReset, Kinds
<1>16. CASE UNCHANGED vars
  BY <1>16 DEF vars, rates, BetweenLookAndReset
<1> QED
  BY <1>1, <1>2, <1>3, <1>4, <1>5, <1>6, <1>7, <1>8, <1>9, <1>10, <1>11, <1>12, <1>13,
     <1>14, <1>15, <1>16
  DEF Next, Worker, Update, Start

\* FCounterLastTime is the time from which the bits are counted.
\* (Channel.Update, Start)
LEMMA TimeStep ==
  ASSUME TypeOK, TimeInv, [Next]_vars
  PROVE  TimeInv'
<1> USE DEF TypeOK, TimeInv
<1>1. CASE Tick \/ WorkerSend \/ WorkerReceive \/ WriteCounter \/ Receive
  BY <1>1 DEF Tick, WorkerSend, WorkerReceive, WriteCounter, Receive, rates
<1>2. ASSUME NEW f \in AppFrames, Send(f) PROVE TimeInv'
  BY <1>2 DEF Send, rates
<1>3. CASE BeginUpdate \/ Look("rx", "rx", "tx") \/ Look("tx", "tx", "time") \/ UpdateTime
  BY <1>3 DEF BeginUpdate, Look, UpdateTime, SetTime
<1>4. CASE Reset("rx", "resetRx", "resetTx") \/ Reset("tx", "resetTx", "idle")
  BY <1>4 DEF Reset
<1>5. CASE Start
  BY <1>5 DEF Start, BeginStart, StartCounter
<1>6. CASE UNCHANGED vars
  BY <1>6 DEF vars, rates
<1> QED
  BY <1>1, <1>2, <1>3, <1>4, <1>5, <1>6 DEF Next, Worker, Update

\* Update's two computations, on the period that has passed and on the millisecond
\* part of it, agree below a second.  (Channel.Update, 83-95)
LEMMA ReportsStep ==
  ASSUME TypeOK, CountInv, TimeInv, ReportsRight, [Next]_vars
  PROVE  ReportsRight'
<1> USE DEF TypeOK, ReportsRight
<1>1. ASSUME NEW k \in Kinds, NEW to, Look(k, k, to) PROVE ReportsRight'
  <2>1. SUFFICES ASSUME trust'[k] = "within" PROVE report'[k] = ideal'[k]
    BY <1>1 DEF Look
  <2>2. began # NotBegun /\ ~raced[k] /\ updateNow - began < SecondMs
    BY <1>1, <2>1 DEF Look
  <2>3. began = lastTime /\ updateNow - lastTime \in 0 .. SecondMs - 1
    BY <1>1, <2>2 DEF TimeInv, Look, Kinds
  <2>4. Milliseconds(updateNow - lastTime) = updateNow - began
    <3>1. updateNow - lastTime \in Nat /\ updateNow - lastTime < SecondMs
      BY <2>3
    <3>2. (updateNow - lastTime) % SecondMs = updateNow - lastTime
      BY ONLY <3>1, SmallRemainder, ChannelAssumption
    <3> QED
      BY <2>3, <3>2 DEF Milliseconds
  <2>5. ~BetweenLookAndReset(k)
    BY <1>1 DEF Look, BetweenLookAndReset, Kinds
  <2>6. counter[k] = since[k]
    BY <2>2, <2>5 DEF CountInv
  <2> QED
    BY <1>1, <2>2, <2>4, <2>6 DEF Look
<1>2. CASE Look("rx", "rx", "tx") \/ Look("tx", "tx", "time")
  BY <1>1, <1>2 DEF Kinds
<1>3. CASE UNCHANGED <<report, ideal, trust>>
  BY <1>3
<1> QED
  BY <1>2, <1>3
  DEF Next, Worker, Update, Start, Tick, WorkerSend, WorkerReceive, WriteCounter, Send,
      Receive, BeginUpdate, UpdateTime, Reset, BeginStart, StartCounter, rates, vars
\* The wire has what the conversion made of the frames.  (Device.SendOnChannel)
LEMMA WireStep ==
  ASSUME TypeOK, WireInv, [Next]_vars
  PROVE  WireInv'
<1> DEFINE Natives == [native : [can_id : Words, can_dlc : 0 .. MaxData], frame : Frames]
<1>1. wire \in Seq(Natives)
  BY DEF TypeOK
<1>2. CASE UNCHANGED wire
  BY <1>2 DEF WireInv
<1>3. CASE wire # <<>> /\ wire' = Tail(wire)
  <2>1. Len(wire') = Len(wire) - 1 /\ \A i \in 1 .. Len(wire') : wire'[i] = wire[i + 1]
    BY <1>1, <1>3, HeadTailProperties
  <2>2. wire' \in Seq(Natives)
    BY <1>1, <1>3, HeadTailProperties
  <2>3. DOMAIN wire' = 1 .. Len(wire') /\ DOMAIN wire = 1 .. Len(wire) /\ Len(wire) \in Nat
    BY <1>1, <2>2, LenProperties
  <2> QED
    <3>1. \A i \in 1 .. Len(wire') : i + 1 \in 1 .. Len(wire)
      BY <2>1, <2>3
    <3> QED
      BY <2>1, <2>3, <3>1 DEF WireInv
<1>4. ASSUME outbox # <<>>,
             wire' = Append(wire, [native |-> ToNative(Head(outbox)), frame |-> Head(outbox)])
      PROVE  WireInv'
  <2> DEFINE sent == [native |-> ToNative(Head(outbox)), frame |-> Head(outbox)]
  <2>1. Head(outbox) \in Frames
    BY <1>4, HeadTailProperties DEF TypeOK
  <2>2. sent \in Natives
    BY <2>1, NativeTyped
  <2>3. /\ Len(wire') = Len(wire) + 1 /\ wire'[Len(wire) + 1] = sent
        /\ \A i \in 1 .. Len(wire) : wire'[i] = wire[i]
        /\ wire' \in Seq(Natives)
    BY <1>1, <1>4, <2>2, AppendProperties
  <2>4. DOMAIN wire' = 1 .. Len(wire') /\ DOMAIN wire = 1 .. Len(wire) /\ Len(wire) \in Nat
    BY <1>1, <2>3, LenProperties
  <2>5. sent.native = ToNative(sent.frame)
    OBVIOUS
  <2> HIDE DEF sent
  <2> QED
    BY <2>3, <2>4, <2>5 DEF WireInv
<1> QED
  BY <1>2, <1>3, <1>4
  DEF Next, Worker, Update, Start, Tick, WorkerSend, WorkerReceive, WriteCounter, Send,
      Receive, BeginUpdate, Look, UpdateTime, Reset, BeginStart, StartCounter, traffic, vars

\* The frames that Receive has returned and will return are those that the worker
\* handed over.  (Device.ThreadedUpdate, Channel.NotifyReceive, Receive)
LEMMA FramesKeptStep ==
  ASSUME TypeOK, WireInv, FramesKept, [Next]_vars
  PROVE  FramesKept'
<1> DEFINE got == received \o rxQueue
<1>1. received \in Seq(Frames) /\ rxQueue \in Seq(Frames) /\ handed \in Seq(Frames)
  BY DEF TypeOK
<1>2. got \in Seq(Frames)
  BY <1>1, ConcatProperties
<1>3. CASE UNCHANGED <<received, rxQueue, handed>>
  BY <1>3 DEF FramesKept
<1>4. CASE Receive
  <2>1. got' = got
    BY <1>1, <1>4, HeadMoved DEF Receive
  <2> QED
    BY <1>4, <2>1 DEF FramesKept, Receive
<1>5. CASE WorkerReceive
  <2> DEFINE frame == FromNative(Head(wire).native)
             was == Head(wire).frame
  <2>1. /\ was \in Frames /\ Head(wire).native = ToNative(was)
        /\ Head(wire).native \in [can_id : Words, can_dlc : 0 .. MaxData]
    <3>1. Head(wire) = wire[1] /\ 1 \in DOMAIN wire
            /\ Head(wire) \in [native : [can_id : Words, can_dlc : 0 .. MaxData],
                               frame : Frames]
      <4>1. wire # <<>>
        BY <1>5 DEF WorkerReceive
      <4>2. wire \in Seq([native : [can_id : Words, can_dlc : 0 .. MaxData], frame : Frames])
        BY DEF TypeOK
      <4> QED
        BY ONLY <4>1, <4>2, HeadOfSeq
    <3> QED
      BY <3>1 DEF WireInv
  <2>2. frame \in Frames
    BY <2>1, FrameTyped
  <2>3. was.identifier < IdLimit => frame = was
    BY <2>1, ConversionIsInverted
  <2>4. received' = received /\ rxQueue' = Append(rxQueue, frame) /\ handed' = Append(handed, was)
    BY <1>5 DEF WorkerReceive
  <2>5. got' = Append(got, frame)
    BY <1>1, <2>2, <2>4, AddedBehind
  <2> HIDE DEF frame, was, got
  <2>6. Len(got) = Len(handed)
        /\ \A i \in DOMAIN got : handed[i].identifier < IdLimit => got[i] = handed[i]
    BY DEF FramesKept, got
  <2>7. /\ Len(got') = Len(got) + 1 /\ got'[Len(got) + 1] = frame
        /\ \A i \in 1 .. Len(got) : got'[i] = got[i]
        /\ DOMAIN got' = 1 .. Len(got')
    BY <1>2, <2>2, <2>5, AppendProperties, LenProperties
  <2>8. /\ Len(handed') = Len(handed) + 1 /\ handed'[Len(handed) + 1] = was
        /\ \A i \in 1 .. Len(handed) : handed'[i] = handed[i]
    BY <1>1, <2>1, <2>4, AppendProperties
  <2>9. DOMAIN got = 1 .. Len(got) /\ Len(got) \in Nat
    BY <1>2, LenProperties
  <2>10. Len(got') = Len(handed')
    BY <2>6, <2>7, <2>8
  <2>11. ASSUME NEW i \in DOMAIN got', handed'[i].identifier < IdLimit
         PROVE  got'[i] = handed'[i]
    <3>1. CASE i \in 1 .. Len(got)
      BY <2>6, <2>7, <2>8, <2>9, <2>11, <3>1
    <3>2. CASE i = Len(got) + 1
      BY <2>3, <2>6, <2>7, <2>8, <2>11, <3>2
    <3> QED
      BY <2>7, <2>9, <2>11, <3>1, <3>2
  <2> QED
    BY <2>10, <2>11 DEF FramesKept, got
<1> QED
  BY <1>3, <1>4, <1>5
  DEF Next, Worker, Update, Start, Tick, WorkerSend, WriteCounter, Send, BeginUpdate, Look,
      UpdateTime, Reset, BeginStart, StartCounter, traffic, vars

-----------------------------------------------------------------------------
(* The inductive invariant, and what follows from it.                      *)

\* A new Channel satisfies the invariant.  (Channel.cs, the constructor)
LEMMA InitIInv == Init => IInv
<1> SUFFICES ASSUME Init PROVE IInv
  OBVIOUS
<1>1. now \in Nat /\ 0 \in 0 .. now
  BY DEF Init
<1>2. TypeOK
  BY <1>1 DEF Init, TypeOK, NoIncrement, Kinds
<1>3. CountInv /\ TimeInv /\ WireInv /\ ReportsRight
  BY DEF Init, CountInv, TimeInv, WireInv, ReportsRight, NoIncrement, Kinds
<1>4. FramesKept
  BY DEF Init, FramesKept
<1> QED
  BY <1>2, <1>3, <1>4 DEF IInv

\* Every step of the worker and of the application keeps the invariant.  (Channel.cs)
LEMMA NextIInv == IInv /\ [Next]_vars => IInv'
  BY TypeOKStep, CountStep, TimeStep, WireStep, ReportsStep, FramesKeptStep DEF IInv

\* The strengthened invariant holds throughout.  (Channel.cs)
THEOREM InductiveInvariant == Spec => []IInv
  BY InitIInv, NextIInv, PTL DEF Spec

\* Every variable keeps its type: what goes out and what comes in fits its words,
\* an identifier that is too large included.  (Channel.cs, Frame.cs)
THEOREM TypeCorrect == Spec => []TypeOK
<1>1. IInv => TypeOK
  BY DEF IInv
<1> QED
  BY <1>1, InductiveInvariant, PTL

\* Update reports the bits per second of the period that it looked at, when that
\* was less than a second and no increment fell between the look at its counter and
\* the reset behind it.
\* (Channel.Update, Start, IncrementRx, IncrementTx)
THEOREM ReportsAreRight == Spec => []ReportsRight
<1>1. IInv => ReportsRight
  BY DEF IInv
<1> QED
  BY <1>1, InductiveInvariant, PTL

\* Receive returns every frame that the worker handed over, once, in order and as
\* it was sent, when its identifier fits.
\* (Device.SendOnChannel, ThreadedUpdate, Channel.NotifyReceive, Receive)
THEOREM FramesAreKept == Spec => []FramesKept
<1>1. IInv => FramesKept
  BY DEF IInv
<1> QED
  BY <1>1, InductiveInvariant, PTL
=============================================================================
