---------------------------- MODULE RxRingProofs ----------------------------
(***************************************************************************)
(* The safety invariants of RxRing and its action properties, for any      *)
(* number of URBs and transfers.                                           *)
(*                                                                         *)
(* They rest on four things that candle.c does not state: which URB the    *)
(* next transfer goes to (SubmittedInv), what the buffers still hold of    *)
(* older transfers (BufferInv), what a candle_frame_read that has taken a  *)
(* URB may rely on while the device goes on (TakenInv), and what can still *)
(* be returned after what has been (DeliveredInv).                         *)
(***************************************************************************)
EXTENDS RxRing, SequenceTheorems, TLAPS

\* candle_dev_open submits the URBs in the order of their index, so that transfer
\* k of the first round goes to URB k - 1; the URBs it has not come to are unused.
SubmittedInv ==
  /\ dev = "closed" => submitted = <<>> /\ \A u \in Urbs : urb[u] = "idle"
  /\ dev = "opening" =>
       /\ Len(results) + Len(submitted) = next
       /\ \A u \in Urbs : u >= next => urb[u] = "idle" /\ holds[u] = 0
  /\ dev = "open" => Len(results) + Len(submitted) >= UrbCount
  /\ \A i \in 1 .. Len(submitted) :
       Len(results) + i <= UrbCount => submitted[i] = Len(results) + i - 1

\* A buffer holds a transfer of this open or nothing, no two the same one, and the
\* timestamp of the last full one it has held.
BufferInv ==
  /\ \A u \in Urbs :
       /\ holds[u] <= Len(results)
       /\ stamp[u] <= holds[u]
       /\ stamp[u] # 0 => results[stamp[u]] = "frame"
       /\ holds[u] # 0 /\ results[holds[u]] = "frame" => stamp[u] = holds[u]
       /\ holds[u] # 0 /\ holds[u] <= UrbCount => holds[u] = u + 1
       /\ urb[u] = "done" /\ dev # "leaked" => holds[u] # 0
  /\ \A u, v \in Urbs : holds[u] = holds[v] /\ holds[u] # 0 => u = v

\* The URB that has been taken stays signalled until it is submitted again, and of
\* the first round nothing older than its transfer is waiting.
TakenInv ==
  \A u \in taken :
    /\ dev = "open" /\ urb[u] = "done"
    /\ \A v \in Done :
         holds[u] <= UrbCount /\ holds[v] <= UrbCount => holds[u] <= holds[v]

\* Nothing is delivered before the device is open, and only frames; and what waits
\* of the first round comes after all of it that has been delivered.
DeliveredInv ==
  /\ dev \in {"opening", "leaked"} => delivered = <<>>
  /\ Len(stamps) = Len(delivered)
  /\ \A i \in 1 .. Len(delivered) : delivered[i] \in 1 .. Len(results)
  /\ \A u \in Done, i \in 1 .. Len(delivered) :
       holds[u] <= UrbCount /\ delivered[i] <= UrbCount => delivered[i] < holds[u]

IInv ==
  /\ TypeOK
  /\ OneReadPerBuffer
  /\ SubmittedInv
  /\ BufferInv
  /\ TakenInv
  /\ DeliveredInv
  /\ AtMostOnce
  /\ FirstRoundInOrder
  /\ StampsOfThisOpen

-----------------------------------------------------------------------------
(* The initial states, and what the steps do to the sequences.             *)

\* Before the first open nothing is submitted, held or delivered.
LEMMA InitIInv == Init => IInv
<1> SUFFICES ASSUME Init PROVE IInv
  OBVIOUS
<1> USE RxRingAssumption DEF Init
<1>1. TypeOK
  <2>1. /\ urb \in [Urbs -> {"idle", "pending", "done"}]
        /\ holds \in [Urbs -> Nat] /\ stamp \in [Urbs -> Nat]
    OBVIOUS
  <2>2. /\ submitted \in Seq(Urbs) /\ results \in Seq(Results)
        /\ delivered \in Seq(Nat) /\ stamps \in Seq(Nat)
    OBVIOUS
  <2>3. 0 \in 0 .. UrbCount
    OBVIOUS
  <2>. QED
    BY <2>1, <2>2, <2>3 DEF TypeOK, Errors
<1>2. Pending = {} /\ Done = {}
  BY DEF Pending, Done
<1>3. /\ DOMAIN submitted = {} /\ DOMAIN results = {} /\ DOMAIN delivered = {}
      /\ Len(submitted) = 0 /\ Len(results) = 0 /\ Len(delivered) = 0
      /\ Len(stamps) = 0
  OBVIOUS
<1>4. OneReadPerBuffer /\ AtMostOnce /\ FirstRoundInOrder /\ StampsOfThisOpen
  BY <1>2, <1>3 DEF OneReadPerBuffer, AtMostOnce, FirstRoundInOrder, StampsOfThisOpen
<1>5. SubmittedInv /\ BufferInv /\ TakenInv /\ DeliveredInv
  BY <1>2, <1>3 DEF SubmittedInv, BufferInv, TakenInv, DeliveredInv, Urbs
<1>. QED
  BY <1>1, <1>4, <1>5 DEF IInv

\* The sequences are indexed from one to their length.
LEMMA Domains ==
  ASSUME TypeOK
  PROVE  /\ DOMAIN submitted = 1 .. Len(submitted) /\ Len(submitted) \in Nat
         /\ DOMAIN results = 1 .. Len(results) /\ Len(results) \in Nat
         /\ DOMAIN delivered = 1 .. Len(delivered) /\ Len(delivered) \in Nat
         /\ DOMAIN stamps = 1 .. Len(stamps) /\ Len(stamps) \in Nat
  BY LenProperties DEF TypeOK

\* The same after a step.
LEMMA DomainsNext ==
  ASSUME TypeOK'
  PROVE  /\ DOMAIN submitted' = 1 .. Len(submitted') /\ Len(submitted') \in Nat
         /\ DOMAIN results' = 1 .. Len(results') /\ Len(results') \in Nat
         /\ DOMAIN delivered' = 1 .. Len(delivered') /\ Len(delivered') \in Nat
         /\ DOMAIN stamps' = 1 .. Len(stamps') /\ Len(stamps') \in Nat
  BY LenProperties DEF TypeOK

\* Appending leaves the elements before the new one as they are.
LEMMA Appended ==
  ASSUME NEW S, NEW s \in Seq(S), NEW e \in S
  PROVE  /\ Append(s, e) \in Seq(S)
         /\ Len(Append(s, e)) = Len(s) + 1
         /\ \A i \in 1 .. Len(s) : Append(s, e)[i] = s[i]
         /\ Append(s, e)[Len(s) + 1] = e
  BY AppendProperties

\* A read that is submitted comes after those that are pending already.
LEMMA SubmittedStep ==
  ASSUME TypeOK, NEW u \in Urbs, Submitted(u)
  PROVE  /\ urb' = [urb EXCEPT ![u] = "pending"]
         /\ urb' \in [Urbs -> {"idle", "pending", "done"}]
         /\ submitted' \in Seq(Urbs)
         /\ Len(submitted') = Len(submitted) + 1
         /\ \A i \in 1 .. Len(submitted) : submitted'[i] = submitted[i]
         /\ submitted'[Len(submitted) + 1] = u
         /\ UNCHANGED <<holds, stamp, results>>
<1>1. submitted \in Seq(Urbs)
  BY DEF TypeOK
<1>. QED
  BY <1>1, Appended DEF TypeOK, Submitted, buffers

\* A frame that is copied out comes after those delivered before, with what its
\* buffer has for a timestamp.
LEMMA CopiedOutStep ==
  ASSUME TypeOK, NEW u \in Urbs, CopiedOut(u)
  PROVE  /\ delivered' \in Seq(Nat) /\ stamps' \in Seq(Nat)
         /\ Len(delivered') = Len(delivered) + 1
         /\ \A i \in 1 .. Len(delivered) : delivered'[i] = delivered[i]
         /\ delivered'[Len(delivered) + 1] = holds[u]
         /\ Len(stamps') = Len(stamps) + 1
         /\ \A i \in 1 .. Len(stamps) : stamps'[i] = stamps[i]
         /\ stamps'[Len(stamps) + 1] = stamp[u]
<1>1. /\ delivered \in Seq(Nat) /\ stamps \in Seq(Nat)
      /\ holds[u] \in Nat /\ stamp[u] \in Nat
  BY DEF TypeOK
<1>. QED
  BY <1>1, Appended DEF CopiedOut

\* A transfer that arrives is the last one, and changes one URB.
LEMMA FilledStep ==
  ASSUME TypeOK, NEW u \in Urbs, NEW r \in Results, Filled(u, r)
  PROVE  /\ urb' \in [Urbs -> {"idle", "pending", "done"}]
         /\ holds' \in [Urbs -> Nat] /\ stamp' \in [Urbs -> Nat]
         /\ results' \in Seq(Results)
         /\ \A v \in Urbs : urb'[v] = IF v = u THEN "done" ELSE urb[v]
         /\ \A v \in Urbs : holds'[v] = IF v = u THEN Len(results) + 1 ELSE holds[v]
         /\ \A v \in Urbs :
              stamp'[v] = IF v = u /\ r = "frame" THEN Len(results) + 1 ELSE stamp[v]
         /\ Len(results') = Len(results) + 1
         /\ \A k \in 1 .. Len(results) : results'[k] = results[k]
         /\ results'[Len(results) + 1] = r
<1>1. results \in Seq(Results) /\ Len(results) + 1 \in Nat
  BY Domains DEF TypeOK
<1>2. /\ results' \in Seq(Results) /\ Len(results') = Len(results) + 1
      /\ \A k \in 1 .. Len(results) : results'[k] = results[k]
      /\ results'[Len(results) + 1] = r
  BY <1>1, Appended DEF Filled
<1>. QED
  BY <1>1, <1>2 DEF Filled, TypeOK

\* The device fills the buffer of the URB that was submitted first.
LEMMA CompleteStep ==
  ASSUME TypeOK, OneReadPerBuffer, Complete
  PROVE  \E u \in Urbs, r \in Results :
           /\ u = submitted[1] /\ urb[u] = "pending"
           /\ Filled(u, r)
           /\ submitted' \in Seq(Urbs)
           /\ Len(submitted) > 0 /\ Len(submitted') = Len(submitted) - 1
           /\ \A i \in 1 .. Len(submitted') : submitted'[i] = submitted[i + 1]
           /\ UNCHANGED <<dev, next, taken, output, lastError, returned>>
<1>1. PICK r \in Results : Filled(Head(submitted), r)
  BY DEF Complete
<1>2. submitted \in Seq(Urbs) /\ submitted # <<>>
  BY DEF TypeOK, Complete
<1>3. Len(submitted) \in Nat \ {0}
  BY <1>2, EmptySeq
<1>4. Head(submitted) = submitted[1] /\ Head(submitted) \in Urbs
  BY <1>2, <1>3, HeadTailProperties
<1>5. urb[submitted[1]] = "pending"
  BY <1>3, Domains DEF OneReadPerBuffer, Pending
<1>6. /\ submitted' \in Seq(Urbs) /\ Len(submitted') = Len(submitted) - 1
      /\ \A i \in 1 .. Len(submitted') : submitted'[i] = submitted[i + 1]
  BY <1>2, HeadTailProperties DEF Complete
<1>7. UNCHANGED <<dev, next, taken, output, lastError, returned>>
  BY DEF Complete
<1>. QED
  BY <1>1, <1>3, <1>4, <1>5, <1>6, <1>7

\* A read that is completed at once finds no other before it: all of the first
\* round has been submitted and answered, or it is this very read.
LEMMA AtOnceStep ==
  ASSUME TypeOK, SubmittedInv, NEW u \in Urbs, CompletedAtOnce(u),
         dev = "open" \/ (dev = "opening" /\ u = next)
  PROVE  /\ \E r \in Results : Filled(u, r)
         /\ submitted = <<>> /\ submitted' = <<>> /\ Len(submitted) = 0
         /\ Len(results) < UrbCount => Len(results) = u
<1>1. submitted = <<>> /\ UNCHANGED submitted /\ Len(submitted) = 0
  BY DEF CompletedAtOnce
<1>2. Len(results) < UrbCount => Len(results) = u
  BY <1>1, Domains, RxRingAssumption DEF SubmittedInv
<1>. QED
  BY <1>1, <1>2 DEF CompletedAtOnce

\* A candle_frame_read that ends has taken no URB, or has taken the one that
\* becomes pending again, is refused, or is completed at once; and it returns the
\* frame only when it is pending.
LEMMA ReadStep ==
  ASSUME TypeOK, Read
  PROVE  /\ UNCHANGED <<dev, next>>
         /\ \/ UNCHANGED <<ring, results, taken, output>>
            \/ /\ taken' = {}
               /\ \E u \in Urbs :
                    /\ taken = {u}
                    /\ \/ Submitted(u) /\ UNCHANGED output
                       \/ Submitted(u) /\ CopiedOut(u)
                       \/ NotPending(u) /\ UNCHANGED output
<1>1. CASE ReadUnopened \/ ReadTimeout
  BY <1>1 DEF ReadUnopened, ReadTimeout
<1>2. \A u \in taken : u \in Urbs /\ taken = {u}
  BY DEF TypeOK
<1>3. CASE ReadBad
  BY <1>2, <1>3 DEF ReadBad
<1>4. CASE ReadFrame
  BY <1>2, <1>4 DEF ReadFrame
<1>. QED
  BY <1>1, <1>3, <1>4 DEF Read

RingTypeOK ==
  /\ urb \in [Urbs -> {"idle", "pending", "done"}]
  /\ holds \in [Urbs -> Nat] /\ stamp \in [Urbs -> Nat]
  /\ submitted \in Seq(Urbs) /\ results \in Seq(Results)

\* Whatever becomes of a read that candle_prepare_read asks for.
LEMMA RingTypeStep ==
  ASSUME TypeOK, NEW u \in Urbs, Submitted(u) \/ NotPending(u)
  PROVE  RingTypeOK'
<1>1. CASE Submitted(u)
  BY <1>1, SubmittedStep DEF TypeOK, RingTypeOK
<1>2. CASE Refused(u)
  BY <1>2 DEF Refused, TypeOK, RingTypeOK, buffers
<1>3. CASE CompletedAtOnce(u)
  <2>1. PICK r \in Results : Filled(u, r)
    BY <1>3 DEF CompletedAtOnce
  <2>. QED
    BY <1>3, <2>1, FilledStep DEF CompletedAtOnce, TypeOK, RingTypeOK
<1>. QED
  BY <1>1, <1>2, <1>3 DEF NotPending

\* The URBs stay what URBs are, and every sequence one of its kind.
LEMMA TypeStep == ASSUME IInv, [Next]_vars PROVE TypeOK'
<1> USE RxRingAssumption DEF IInv
<1> TypeOK
  OBVIOUS
<1>1. CASE BeginOpen
  <2>1. /\ holds' \in [Urbs -> Nat] /\ stamp' \in [Urbs -> Nat]
        /\ urb' \in [Urbs -> {"idle", "pending", "done"}]
    BY <1>1 DEF BeginOpen, BuffersCleared, TypeOK
  <2>2. /\ results' \in Seq(Results) /\ delivered' \in Seq(Nat) /\ stamps' \in Seq(Nat)
    BY <1>1, EmptySeq DEF BeginOpen, TypeOK, output
  <2>3. 0 \in 0 .. UrbCount
    OBVIOUS
  <2>. QED
    BY <1>1, <2>1, <2>2, <2>3 DEF BeginOpen, TypeOK, Errors
<1>2. CASE SubmitNext
  <2>1. next \in Urbs /\ next + 1 \in 0 .. UrbCount
    BY <1>2 DEF SubmitNext, TypeOK, Urbs
  <2>2. RingTypeOK'
    BY <1>2, <2>1, RingTypeStep DEF SubmitNext
  <2>. QED
    BY <1>2, <2>1, <2>2 DEF SubmitNext, TypeOK, RingTypeOK, Errors, output
<1>3. CASE EndOpen
  BY <1>3 DEF EndOpen, TypeOK, Errors, ring, buffers, output
<1>4. CASE CloseDev
  BY <1>4 DEF CloseDev, TypeOK, Errors, buffers, output
<1>5. CASE Complete
  <2>1. PICK u \in Urbs, r \in Results :
          /\ Filled(u, r) /\ submitted' \in Seq(Urbs)
          /\ UNCHANGED <<dev, next, taken, output, lastError, returned>>
    BY <1>5, CompleteStep
  <2>2. RingTypeOK'
    BY <2>1, FilledStep DEF RingTypeOK
  <2>. QED
    BY <2>1, <2>2 DEF TypeOK, RingTypeOK, output
<1>6. CASE Take
  BY <1>6 DEF Take, Lowest, Done, TypeOK, ring, buffers, output
<1>7. CASE Read
  <2>1. lastError' \in Errors /\ returned' \in BOOLEAN
    BY <1>7
       DEF Read, ReadUnopened, ReadTimeout, ReadBad, ReadFrame, Errors
  <2>2. RingTypeOK'
    <3>1. CASE UNCHANGED <<ring, results, taken, output>>
      BY <3>1 DEF TypeOK, RingTypeOK, ring, buffers
    <3>. QED
      BY <1>7, <3>1, ReadStep, RingTypeStep
  <2>3. delivered' \in Seq(Nat) /\ stamps' \in Seq(Nat)
    BY <1>7, ReadStep, CopiedOutStep DEF TypeOK, output
  <2>4. taken' \in {{}} \cup {{u} : u \in Urbs}
    BY <1>7, ReadStep DEF TypeOK
  <2>. QED
    BY <1>7, <2>1, <2>2, <2>3, <2>4, ReadStep DEF TypeOK, RingTypeOK
<1>8. CASE UNCHANGED vars
  BY <1>8 DEF vars, TypeOK, ring, buffers, output
<1>. QED
  BY <1>1, <1>2, <1>3, <1>4, <1>5, <1>6, <1>7, <1>8 DEF Next, Open

-----------------------------------------------------------------------------
(* The URBs.                                                               *)

\* OneReadPerBuffer, with the URBs and the indices spelt out.
LEMMA OneReadSpelt ==
  ASSUME TypeOK, OneReadPerBuffer
  PROVE  /\ \A v \in Urbs :
              urb[v] = "pending" => \E i \in 1 .. Len(submitted) : submitted[i] = v
         /\ \A i \in 1 .. Len(submitted) :
              submitted[i] \in Urbs /\ urb[submitted[i]] = "pending"
         /\ \A i, j \in 1 .. Len(submitted) : submitted[i] = submitted[j] => i = j
  BY Domains DEF OneReadPerBuffer, Pending

\* A URB that is not pending may be submitted.
LEMMA SubmittedOnce ==
  ASSUME IInv, TypeOK', NEW u \in Urbs, urb[u] # "pending", Submitted(u)
  PROVE  OneReadPerBuffer'
<1> TypeOK /\ OneReadPerBuffer
  BY DEF IInv
<1>0. Len(submitted) \in Nat
  BY Domains
<1>1. \A v \in Urbs : urb'[v] = IF v = u THEN "pending" ELSE urb[v]
  BY SubmittedStep DEF TypeOK
<1>2. DOMAIN submitted' = 1 .. Len(submitted) + 1
  BY SubmittedStep, DomainsNext
<1>3. \A i \in 1 .. Len(submitted) : submitted'[i] = submitted[i] /\ submitted[i] # u
  BY OneReadSpelt, SubmittedStep
<1>4. submitted'[Len(submitted) + 1] = u
  BY SubmittedStep
<1>5. ASSUME NEW v \in Pending' PROVE \E i \in DOMAIN submitted' : submitted'[i] = v
  <2>1. CASE v = u
    BY <1>0, <1>2, <1>4, <2>1
  <2>2. CASE v # u
    <3>1. PICK i \in 1 .. Len(submitted) : submitted[i] = v
      BY <1>1, <2>2, OneReadSpelt DEF Pending
    <3>. QED
      BY <1>0, <1>2, <1>3, <3>1
  <2>. QED
    BY <2>1, <2>2
<1>6. ASSUME NEW i \in DOMAIN submitted' PROVE submitted'[i] \in Pending'
  <2>1. CASE i = Len(submitted) + 1
    BY <1>1, <1>4, <2>1 DEF Pending
  <2>2. CASE i \in 1 .. Len(submitted)
    BY <1>1, <1>3, <2>2, OneReadSpelt DEF Pending
  <2>. QED
    BY <1>0, <1>2, <2>1, <2>2
<1>7. ASSUME NEW i \in DOMAIN submitted', NEW j \in DOMAIN submitted',
             submitted'[i] = submitted'[j]
      PROVE  i = j
  <2>1. \A k \in 1 .. Len(submitted) + 1 : k \in 1 .. Len(submitted) \/ k = Len(submitted) + 1
    BY <1>0
  <2>. QED
    BY <1>2, <1>3, <1>4, <1>7, <2>1, OneReadSpelt
<1>. QED
  BY <1>5, <1>6, <1>7 DEF OneReadPerBuffer

\* A read that is not pending afterwards, of a URB that was not.
LEMMA NotPendingStep ==
  ASSUME TypeOK, NEW u \in Urbs, urb[u] # "pending", NotPending(u)
  PROVE  /\ UNCHANGED submitted
         /\ \A v \in Urbs : urb'[v] = "pending" <=> urb[v] = "pending"
         /\ \A v \in Urbs : v # u => urb'[v] = urb[v]
<1>1. CASE Refused(u)
  BY <1>1 DEF Refused, TypeOK
<1>2. CASE CompletedAtOnce(u)
  BY <1>2, FilledStep DEF CompletedAtOnce
<1>. QED
  BY <1>1, <1>2 DEF NotPending

\* The pending URBs are the submitted reads after every step.
LEMMA OneReadStep == ASSUME IInv, [Next]_vars PROVE OneReadPerBuffer'
<1> TypeOK /\ OneReadPerBuffer /\ SubmittedInv /\ TakenInv /\ TypeOK'
  BY TypeStep DEF IInv
<1>0. ASSUME UNCHANGED submitted,
             \A u \in Urbs : urb'[u] = "pending" <=> urb[u] = "pending"
      PROVE  OneReadPerBuffer'
  BY <1>0 DEF OneReadPerBuffer, Pending
<1>1. CASE BeginOpen
  <2>1. CASE UNCHANGED urb
    BY <1>0, <1>1, <2>1 DEF BeginOpen
  <2>2. CASE dev = "closed" /\ urb' = [u \in Urbs |-> "idle"]
    BY <1>0, <1>1, <2>2 DEF BeginOpen, SubmittedInv
  <2>. QED
    BY <1>1, <2>1, <2>2 DEF BeginOpen
<1>2. CASE SubmitNext
  <2>0. next \in Urbs /\ next >= next
    BY <1>2, RxRingAssumption DEF SubmitNext, TypeOK, Urbs
  <2>1. next \in Urbs /\ urb[next] = "idle"
    BY <1>2, <2>0 DEF SubmitNext, SubmittedInv
  <2>2. CASE Submitted(next)
    BY <2>1, <2>2, SubmittedOnce
  <2>3. CASE NotPending(next)
    BY <1>0, <2>1, <2>3, NotPendingStep
  <2>. QED
    BY <1>2, <2>2, <2>3 DEF SubmitNext
<1>3. CASE EndOpen
  BY <1>0, <1>3 DEF EndOpen, ring
<1>4. CASE CloseDev
  <2>1. DOMAIN submitted' = {} /\ Pending' = {}
    BY <1>4 DEF CloseDev, Pending
  <2>. QED
    BY <2>1 DEF OneReadPerBuffer
<1>5. CASE Complete
  <2>1. PICK u \in Urbs, r \in Results :
          /\ u = submitted[1]
          /\ Filled(u, r)
          /\ Len(submitted) > 0 /\ Len(submitted') = Len(submitted) - 1
          /\ \A i \in 1 .. Len(submitted') : submitted'[i] = submitted[i + 1]
    BY <1>5, CompleteStep
  <2>2. \A v \in Urbs : urb'[v] = IF v = u THEN "done" ELSE urb[v]
    BY <2>1, FilledStep
  <2>3. Len(submitted) \in Nat /\ DOMAIN submitted' = 1 .. Len(submitted) - 1
    BY <2>1, Domains, DomainsNext
  <2>4. \A i \in 1 .. Len(submitted) - 1 :
          /\ i + 1 \in 1 .. Len(submitted) /\ i + 1 # 1
          /\ submitted'[i] = submitted[i + 1]
    BY <2>1, <2>3
  <2>5. 1 \in 1 .. Len(submitted)
    BY <2>1, <2>3
  <2>6. \A i \in DOMAIN submitted' : submitted'[i] \in Pending'
    BY <2>1, <2>2, <2>3, <2>4, <2>5, OneReadSpelt DEF Pending
  <2>7. ASSUME NEW i \in DOMAIN submitted', NEW j \in DOMAIN submitted',
               submitted'[i] = submitted'[j]
        PROVE  i = j
    <3>1. i + 1 = j + 1
      BY <2>3, <2>4, <2>7, OneReadSpelt
    <3>. QED
      BY <2>3, <3>1
  <2>8. ASSUME NEW v \in Pending'
        PROVE  \E i \in DOMAIN submitted' : submitted'[i] = v
    <3>1. urb[v] = "pending" /\ v \in Urbs /\ v # u
      BY <2>2, <2>8 DEF Pending
    <3>2. PICK i \in 1 .. Len(submitted) : submitted[i] = v
      BY <3>1, OneReadSpelt
    <3>3. i - 1 \in 1 .. Len(submitted) - 1 /\ (i - 1) + 1 = i
      BY <2>1, <2>3, <3>1, <3>2
    <3>. QED
      BY <2>3, <2>4, <3>2, <3>3
  <2>. QED
    BY <2>6, <2>7, <2>8 DEF OneReadPerBuffer
<1>6. CASE Take
  BY <1>0, <1>6 DEF Take, ring
<1>7. CASE Read
  <2>1. CASE UNCHANGED <<ring, results, taken, output>>
    BY <1>0, <2>1 DEF ring
  <2>2. ASSUME NEW u \in Urbs, taken = {u}, Submitted(u) \/ NotPending(u)
        PROVE  OneReadPerBuffer'
    <3>1. urb[u] = "done"
      BY <2>2 DEF TakenInv
    <3>. QED
      BY <1>0, <2>2, <3>1, SubmittedOnce, NotPendingStep
  <2>. QED
    BY <1>7, <2>1, <2>2, ReadStep
<1>8. CASE UNCHANGED vars
  BY <1>0, <1>8 DEF vars, ring
<1>. QED
  BY <1>1, <1>2, <1>3, <1>4, <1>5, <1>6, <1>7, <1>8 DEF Next, Open

\* The URBs are submitted in the order of their index.
LEMMA SubmittedInvStep == ASSUME IInv, [Next]_vars PROVE SubmittedInv'
<1> TypeOK /\ OneReadPerBuffer /\ SubmittedInv /\ TakenInv /\ TypeOK'
  BY TypeStep DEF IInv
<1>0. /\ Len(submitted) \in Nat /\ Len(results) \in Nat
      /\ Len(submitted') \in Nat /\ Len(results') \in Nat
      /\ Len(<<>>) = 0
  BY Domains, DomainsNext
<1>1. CASE BeginOpen
  <2>1. CASE dev = "closed" /\ dev' = "opening"
    <3>1. /\ submitted' = <<>> /\ results' = <<>> /\ next' = 0
          /\ \A u \in Urbs : urb'[u] = "idle" /\ holds'[u] = 0
      BY <1>1, <2>1 DEF BeginOpen, BuffersCleared, SubmittedInv
    <3>. QED
      BY <1>0, <2>1, <3>1 DEF SubmittedInv
  <2>2. CASE UNCHANGED <<dev, urb, results>>
    BY <1>1, <2>2 DEF BeginOpen, SubmittedInv
  <2>. QED
    BY <1>1, <2>1, <2>2 DEF BeginOpen
<1>2. CASE SubmitNext
  <2>1. next \in Urbs /\ dev = "opening"
    BY <1>2, RxRingAssumption DEF SubmitNext, TypeOK, Urbs
  <2>2. CASE Submitted(next) /\ next' = next + 1 /\ UNCHANGED dev
    <3>1. /\ Len(submitted') = Len(submitted) + 1
          /\ \A i \in 1 .. Len(submitted) : submitted'[i] = submitted[i]
          /\ submitted'[Len(submitted) + 1] = next
          /\ UNCHANGED <<holds, results>>
      BY <2>1, <2>2, SubmittedStep
    <3>2. \A u \in Urbs : u >= next + 1 => urb'[u] = "idle" /\ holds'[u] = 0
      BY <2>1, <2>2, <3>1, SubmittedStep DEF SubmittedInv, TypeOK, Urbs
    <3>3. Len(results) + Len(submitted) = next
      BY <2>1 DEF SubmittedInv
    <3>4. ASSUME NEW i \in 1 .. Len(submitted'), Len(results) + i <= UrbCount
          PROVE  submitted'[i] = Len(results) + i - 1
      <4>1. CASE i = Len(submitted) + 1
        BY <1>0, <3>1, <3>3, <4>1
      <4>2. CASE i \in 1 .. Len(submitted)
        BY <3>1, <3>4, <4>2 DEF SubmittedInv
      <4>. QED
        BY <1>0, <3>1, <4>1, <4>2
    <3>. QED
      BY <1>0, <2>1, <2>2, <3>1, <3>2, <3>3, <3>4 DEF SubmittedInv
  <2>3. CASE Refused(next) /\ dev' = "leaked"
    BY <2>1, <2>3 DEF Refused, SubmittedInv
  <2>4. CASE CompletedAtOnce(next) /\ dev' = "leaked"
    BY <1>0, <2>1, <2>4, AtOnceStep DEF SubmittedInv
  <2>. QED
    BY <1>2, <2>2, <2>3, <2>4 DEF SubmitNext, NotPending
<1>3. CASE EndOpen
  BY <1>3, <1>0, RxRingAssumption DEF EndOpen, SubmittedInv, ring
<1>4. CASE CloseDev
  BY <1>4, <1>0 DEF CloseDev, SubmittedInv
<1>5. CASE Complete
  <2>0. PICK u \in Urbs, r \in Results :
          /\ u = submitted[1] /\ urb[u] = "pending"
          /\ Filled(u, r)
          /\ Len(submitted) > 0 /\ Len(submitted') = Len(submitted) - 1
          /\ \A i \in 1 .. Len(submitted') : submitted'[i] = submitted[i + 1]
          /\ UNCHANGED <<dev, next>>
    BY <1>5, CompleteStep
  <2>1. /\ u = submitted[1] /\ urb[u] = "pending"
        /\ \A v \in Urbs : v # u => urb'[v] = urb[v] /\ holds'[v] = holds[v]
        /\ Len(results') = Len(results) + 1
        /\ Len(submitted) > 0 /\ Len(submitted') = Len(submitted) - 1
        /\ \A i \in 1 .. Len(submitted') : submitted'[i] = submitted[i + 1]
        /\ UNCHANGED <<dev, next>>
    BY <2>0, FilledStep
  <2>2. dev # "closed"
    BY <2>1 DEF SubmittedInv
  <2>3. \A i \in 1 .. Len(submitted') : i + 1 \in 1 .. Len(submitted)
    BY <1>0, <2>1
  <2>4. ASSUME NEW i \in 1 .. Len(submitted'), Len(results') + i <= UrbCount
        PROVE  submitted'[i] = Len(results') + i - 1
    <3>1. Len(results) + (i + 1) <= UrbCount
      BY <1>0, <2>1, <2>4
    <3>2. submitted[i + 1] = Len(results) + (i + 1) - 1
      BY <2>3, <3>1 DEF SubmittedInv
    <3>. QED
      BY <1>0, <2>1, <3>2
  <2>5. ASSUME dev = "opening", NEW v \in Urbs, v >= next
        PROVE  urb'[v] = "idle" /\ holds'[v] = 0
    <3>1. urb[v] = "idle" /\ holds[v] = 0
      BY <2>5 DEF SubmittedInv
    <3>. QED
      BY <2>1, <3>1
  <2>6. Len(results') + Len(submitted') = Len(results) + Len(submitted)
    BY <1>0, <2>1
  <2>. QED
    BY <2>1, <2>2, <2>4, <2>5, <2>6 DEF SubmittedInv
<1>6. CASE Take
  BY <1>6 DEF Take, SubmittedInv, ring, buffers
<1>7. CASE Read
  <2>1. CASE UNCHANGED <<ring, results, taken, output>>
    BY <1>7, <2>1, ReadStep DEF SubmittedInv, ring, buffers
  <2>2. ASSUME NEW u \in Urbs, taken = {u}, Submitted(u) \/ NotPending(u)
        PROVE  SubmittedInv'
    <3>1. dev = "open" /\ UNCHANGED dev /\ Len(results) + Len(submitted) >= UrbCount
      BY <1>7, <2>2, ReadStep DEF TakenInv, SubmittedInv
    <3>2. CASE Submitted(u)
      <4>1. /\ Len(submitted') = Len(submitted) + 1 /\ UNCHANGED results
            /\ \A i \in 1 .. Len(submitted) : submitted'[i] = submitted[i]
        BY <3>2, SubmittedStep
      <4>2. \A i \in 1 .. Len(submitted') :
              Len(results) + i <= UrbCount => i \in 1 .. Len(submitted)
        BY <1>0, <3>1, <4>1, RxRingAssumption
      <4>3. \A i \in 1 .. Len(submitted') :
              Len(results) + i <= UrbCount => submitted'[i] = Len(results) + i - 1
        BY <4>1, <4>2 DEF SubmittedInv
      <4>. QED
        BY <1>0, <3>1, <4>1, <4>3, RxRingAssumption DEF SubmittedInv
    <3>3. CASE Refused(u)
      BY <3>1, <3>3 DEF Refused, SubmittedInv
    <3>4. CASE CompletedAtOnce(u)
      <4>1. /\ submitted' = <<>> /\ Len(submitted) = 0 /\ Len(submitted') = 0
            /\ Len(results') = Len(results) + 1
        BY <1>0, <3>1, <3>4, AtOnceStep, FilledStep
      <4>. QED
        BY <1>0, <3>1, <4>1, RxRingAssumption DEF SubmittedInv
    <3>. QED
      BY <2>2, <3>2, <3>3, <3>4 DEF NotPending
  <2>. QED
    BY <1>7, <2>1, <2>2, ReadStep
<1>8. CASE UNCHANGED vars
  BY <1>8 DEF vars, SubmittedInv, ring, buffers
<1>. QED
  BY <1>1, <1>2, <1>3, <1>4, <1>5, <1>6, <1>7, <1>8 DEF Next, Open

\* A transfer reaches one buffer, in the first round that of its own URB, and the
\* timestamp there is never newer than the transfer.
LEMMA BufferFilled ==
  ASSUME TypeOK, TypeOK', BufferInv, NEW u \in Urbs, NEW r \in Results, Filled(u, r),
         Len(results) < UrbCount => Len(results) = u,
         dev' = "leaked" \/ UNCHANGED dev
  PROVE  BufferInv'
<1>0. /\ Len(results) \in Nat /\ Len(results') = Len(results) + 1
      /\ \A v \in Urbs : holds[v] \in Nat /\ stamp[v] \in Nat
  BY Domains, FilledStep DEF TypeOK
<1>1. /\ \A k \in 1 .. Len(results) : results'[k] = results[k]
      /\ results'[Len(results) + 1] = r
  BY FilledStep
<1>2. /\ holds'[u] = Len(results) + 1
      /\ stamp'[u] = IF r = "frame" THEN Len(results) + 1 ELSE stamp[u]
  BY FilledStep
<1>3. \A v \in Urbs : v # u =>
        holds'[v] = holds[v] /\ stamp'[v] = stamp[v] /\ urb'[v] = urb[v]
  BY FilledStep
<1>4. \A v \in Urbs :
        /\ stamp[v] \in 0 .. Len(results) /\ holds[v] \in 0 .. Len(results)
        /\ stamp[v] # 0 => results'[stamp[v]] = "frame"
        /\ holds[v] # 0 => results'[holds[v]] = results[holds[v]]
  <2> TAKE v \in Urbs
  <2>1. holds[v] <= Len(results) /\ stamp[v] <= holds[v]
    BY DEF BufferInv
  <2>2. stamp[v] \in 0 .. Len(results) /\ holds[v] \in 0 .. Len(results)
    BY <1>0, <2>1
  <2>. QED
    BY <1>1, <2>2 DEF BufferInv
<1>5. Len(results) + 1 <= UrbCount => Len(results) + 1 = u + 1
  BY <1>0, RxRingAssumption
<1>6. /\ holds'[u] <= Len(results') /\ stamp'[u] <= holds'[u]
      /\ stamp'[u] # 0 => results'[stamp'[u]] = "frame"
      /\ holds'[u] # 0 /\ results'[holds'[u]] = "frame" => stamp'[u] = holds'[u]
      /\ holds'[u] # 0 /\ holds'[u] <= UrbCount => holds'[u] = u + 1
      /\ holds'[u] # 0
  BY <1>0, <1>1, <1>2, <1>4, <1>5
<1>7. ASSUME NEW v \in Urbs, v # u
      PROVE  /\ holds'[v] <= Len(results') /\ stamp'[v] <= holds'[v]
             /\ stamp'[v] # 0 => results'[stamp'[v]] = "frame"
             /\ holds'[v] # 0 /\ results'[holds'[v]] = "frame" => stamp'[v] = holds'[v]
             /\ holds'[v] # 0 /\ holds'[v] <= UrbCount => holds'[v] = v + 1
             /\ urb'[v] = "done" /\ dev' # "leaked" => holds'[v] # 0
  BY <1>0, <1>3, <1>4, <1>7 DEF BufferInv
<1>8. \A v, w \in Urbs : holds'[v] = holds'[w] /\ holds'[v] # 0 => v = w
  BY <1>0, <1>2, <1>3, <1>4 DEF BufferInv
<1>. QED
  BY <1>6, <1>7, <1>8 DEF BufferInv

\* Steps that fill no buffer.
LEMMA BufferKept ==
  ASSUME BufferInv, UNCHANGED <<holds, stamp, results>>,
         dev' = "leaked" \/ (UNCHANGED dev /\ \A u \in Urbs : urb'[u] = "done" => urb[u] = "done")
  PROVE  BufferInv'
  BY DEF BufferInv

\* Whatever becomes of a read that candle_prepare_read asks for.
LEMMA BufferAsked ==
  ASSUME TypeOK, TypeOK', SubmittedInv, BufferInv, NEW u \in Urbs,
         Submitted(u) \/ NotPending(u), dev' = "leaked" \/ UNCHANGED dev,
         dev = "open" \/ (dev = "opening" /\ u = next)
  PROVE  BufferInv'
<1>1. CASE Submitted(u)
  BY <1>1, BufferKept DEF Submitted, TypeOK, buffers
<1>2. CASE Refused(u)
  BY <1>2, BufferKept DEF Refused, TypeOK, buffers
<1>3. CASE CompletedAtOnce(u)
  BY <1>3, AtOnceStep, BufferFilled
<1>. QED
  BY <1>1, <1>2, <1>3 DEF NotPending

\* The buffers hold what BufferInv says after every step.
LEMMA BufferInvStep == ASSUME IInv, [Next]_vars PROVE BufferInv'
<1> TypeOK /\ OneReadPerBuffer /\ SubmittedInv /\ BufferInv /\ TakenInv /\ TypeOK'
  BY TypeStep DEF IInv
<1>0. /\ Len(results) \in Nat /\ Len(results') \in Nat
      /\ \A u \in Urbs : holds[u] \in Nat /\ stamp[u] \in Nat
  BY Domains, DomainsNext DEF TypeOK
<1>1. CASE BeginOpen
  <2>1. \A u \in Urbs : holds'[u] = 0 /\ stamp'[u] = 0
    BY <1>1 DEF BeginOpen, BuffersCleared
  <2>2. \A u \in Urbs : urb'[u] # "done" \/ dev' = "leaked"
    BY <1>1 DEF BeginOpen, SubmittedInv
  <2>. QED
    BY <1>0, <2>1, <2>2 DEF BufferInv
<1>2. CASE SubmitNext
  <2>1. next \in Urbs /\ dev = "opening" /\ (dev' = "leaked" \/ UNCHANGED dev)
    BY <1>2, RxRingAssumption DEF SubmitNext, TypeOK, Urbs
  <2>. QED
    BY <1>2, <2>1, BufferAsked DEF SubmitNext
<1>3. CASE EndOpen
  BY <1>3 DEF EndOpen, BufferInv, ring, buffers
<1>4. CASE CloseDev
  BY <1>4 DEF CloseDev, BufferInv, buffers
<1>5. CASE Complete
  <2>1. PICK u \in Urbs, r \in Results :
          /\ u = submitted[1] /\ Filled(u, r) /\ Len(submitted) > 0 /\ UNCHANGED dev
    BY <1>5, CompleteStep
  <2>2. 1 \in 1 .. Len(submitted)
    BY <2>1, Domains
  <2>3. Len(results) + 1 <= UrbCount => u = Len(results) + 1 - 1
    BY <2>1, <2>2 DEF SubmittedInv
  <2>. QED
    BY <1>0, <2>1, <2>3, BufferFilled, RxRingAssumption
<1>6. CASE Take
  BY <1>6, BufferKept DEF Take, ring, buffers
<1>7. CASE Read
  <2>1. CASE UNCHANGED <<ring, results, taken, output>>
    BY <1>7, <2>1, ReadStep, BufferKept DEF ring, buffers
  <2>2. ASSUME NEW u \in Urbs, taken = {u}, Submitted(u) \/ NotPending(u)
        PROVE  BufferInv'
    <3>1. dev = "open" /\ UNCHANGED dev
      BY <1>7, <2>2, ReadStep DEF TakenInv
    <3>. QED
      BY <2>2, <3>1, BufferAsked
  <2>. QED
    BY <1>7, <2>1, <2>2, ReadStep
<1>8. CASE UNCHANGED vars
  BY <1>8, BufferKept DEF vars, ring, buffers
<1>. QED
  BY <1>1, <1>2, <1>3, <1>4, <1>5, <1>6, <1>7, <1>8 DEF Next, Open

\* What has been taken outlives the transfers that arrive, which are younger.
LEMMA TakenInvStep == ASSUME IInv, [Next]_vars PROVE TakenInv'
<1> TypeOK /\ OneReadPerBuffer /\ BufferInv /\ TakenInv /\ TypeOK'
  BY TypeStep DEF IInv
<1>0. ASSUME taken' = {} PROVE TakenInv'
  BY <1>0 DEF TakenInv
<1>1. ASSUME dev # "open" PROVE taken = {}
  BY <1>1 DEF TakenInv, TypeOK
<1>2. CASE Open
  <2>1. dev # "open" /\ UNCHANGED taken
    BY <1>2 DEF Open, BeginOpen, SubmitNext, EndOpen
  <2>. QED
    BY <1>0, <1>1, <2>1
<1>3. CASE CloseDev
  BY <1>0, <1>3 DEF CloseDev
<1>4. CASE Complete
  <2>1. PICK w \in Urbs, r \in Results :
          urb[w] = "pending" /\ Filled(w, r) /\ UNCHANGED <<dev, taken>>
    BY <1>4, CompleteStep
  <2>2. ASSUME NEW u \in taken
        PROVE  /\ dev' = "open" /\ urb'[u] = "done"
               /\ \A v \in Done' :
                    holds'[u] <= UrbCount /\ holds'[v] <= UrbCount =>
                      holds'[u] <= holds'[v]
    <3>1. u \in Urbs /\ dev = "open" /\ urb[u] = "done" /\ u # w
      BY <2>1, <2>2 DEF TakenInv, TypeOK
    <3>2. urb'[u] = "done" /\ holds'[u] = holds[u] /\ holds'[w] = Len(results) + 1
      BY <2>1, <3>1, FilledStep
    <3>3. holds[u] \in Nat /\ holds[u] <= Len(results) /\ Len(results) \in Nat
      BY <3>1, Domains DEF BufferInv, TypeOK
    <3>4. \A v \in Done' : v # w => v \in Done /\ holds'[v] = holds[v]
      BY <2>1, FilledStep DEF Done
    <3>. QED
      BY <2>1, <2>2, <3>1, <3>2, <3>3, <3>4 DEF TakenInv
  <2>. QED
    BY <2>1, <2>2 DEF TakenInv
<1>5. CASE Take
  <2>1. PICK u \in Urbs :
          /\ urb[u] = "done" /\ taken' = {u}
          /\ \A v \in Urbs : urb[v] = "done" => u <= v
    BY <1>5 DEF Take, Lowest, Done
  <2>2. dev = "open" /\ UNCHANGED <<dev, urb, holds>>
    BY <1>5 DEF Take, ring, buffers
  <2>3. ASSUME NEW v \in Done, holds[u] <= UrbCount, holds[v] <= UrbCount
        PROVE  holds[u] <= holds[v]
    <3>1. v \in Urbs /\ urb[v] = "done" /\ u <= v
      BY <2>1, <2>3 DEF Done
    <3>2. holds[u] = u + 1 /\ holds[v] = v + 1
      BY <2>1, <2>2, <2>3, <3>1 DEF BufferInv
    <3>. QED
      BY <3>1, <3>2, RxRingAssumption DEF Urbs
  <2>. QED
    BY <2>1, <2>2, <2>3 DEF TakenInv, Done
<1>6. CASE Read
  <2>1. CASE UNCHANGED <<ring, results, taken, output>>
    BY <1>6, <2>1, ReadStep DEF TakenInv, Done, ring, buffers
  <2>. QED
    BY <1>0, <1>6, <2>1, ReadStep
<1>7. CASE UNCHANGED vars
  BY <1>7 DEF vars, TakenInv, Done, ring, buffers
<1>. QED
  BY <1>2, <1>3, <1>4, <1>5, <1>6, <1>7 DEF Next

-----------------------------------------------------------------------------
(* The frames returned.                                                    *)

\* What the steps that return no frame have to keep.
OutputInv == DeliveredInv /\ AtMostOnce /\ FirstRoundInOrder /\ StampsOfThisOpen

\* OutputInv for frames whose indices are spelt out.
LEMMA OutputSpelt ==
  ASSUME TypeOK
  PROVE  OutputInv <=>
           /\ DeliveredInv
           /\ \A i, j \in 1 .. Len(delivered) : delivered[i] = delivered[j] => i = j
           /\ \A u \in Done, i \in 1 .. Len(delivered) : delivered[i] # holds[u]
           /\ \A i, j \in 1 .. Len(delivered) :
                i < j /\ delivered[i] <= UrbCount /\ delivered[j] <= UrbCount =>
                  delivered[i] < delivered[j]
           /\ \A i \in 1 .. Len(delivered) :
                IF results[delivered[i]] = "frame"
                  THEN stamps[i] = delivered[i]
                  ELSE stamps[i] # 0 => /\ stamps[i] < delivered[i]
                                        /\ results[stamps[i]] = "frame"
  BY Domains DEF OutputInv, AtMostOnce, FirstRoundInOrder, StampsOfThisOpen

\* The same after a step.
LEMMA OutputSpeltNext ==
  ASSUME TypeOK'
  PROVE  OutputInv' <=>
           /\ DeliveredInv'
           /\ \A i, j \in 1 .. Len(delivered') : delivered'[i] = delivered'[j] => i = j
           /\ \A u \in Done', i \in 1 .. Len(delivered') : delivered'[i] # holds'[u]
           /\ \A i, j \in 1 .. Len(delivered') :
                i < j /\ delivered'[i] <= UrbCount /\ delivered'[j] <= UrbCount =>
                  delivered'[i] < delivered'[j]
           /\ \A i \in 1 .. Len(delivered') :
                IF results'[delivered'[i]] = "frame"
                  THEN stamps'[i] = delivered'[i]
                  ELSE stamps'[i] # 0 => /\ stamps'[i] < delivered'[i]
                                         /\ results'[stamps'[i]] = "frame"
  BY DomainsNext DEF OutputInv, AtMostOnce, FirstRoundInOrder, StampsOfThisOpen

\* Steps that return no frame and complete no read.
LEMMA OutputKept ==
  ASSUME TypeOK, TypeOK', OutputInv, UNCHANGED <<results, output>>,
         \A u \in Done' : u \in Done /\ holds'[u] = holds[u],
         dev' \in {"opening", "leaked"} => dev \in {"opening", "leaked"}
  PROVE  OutputInv'
<1>1. DeliveredInv'
  BY DEF OutputInv, DeliveredInv, output
<1>2. UNCHANGED <<results, delivered, stamps>>
  BY DEF output
<1>. QED
  BY <1>1, <1>2, OutputSpelt, OutputSpeltNext

\* A transfer that arrives.
LEMMA OutputFilled ==
  ASSUME TypeOK, OutputInv, TypeOK', NEW u \in Urbs, NEW r \in Results, Filled(u, r),
         UNCHANGED output,
         dev' \in {"opening", "leaked"} => dev \in {"opening", "leaked"}
  PROVE  OutputInv'
<1>1. /\ Len(results') = Len(results) + 1
      /\ \A k \in 1 .. Len(results) : results'[k] = results[k]
  BY FilledStep
<1>2. UNCHANGED <<delivered, stamps>>
  BY DEF output
<1>3. /\ Len(results) \in Nat /\ Len(delivered) \in Nat
      /\ \A i \in 1 .. Len(delivered) :
           delivered[i] \in 1 .. Len(results) /\ stamps[i] \in Nat
  <2>1. DeliveredInv
    BY DEF OutputInv
  <2>2. \A i \in 1 .. Len(delivered) : stamps[i] \in Nat
    BY <2>1, ElementOfSeq, LenProperties DEF DeliveredInv, TypeOK
  <2>. QED
    BY <2>1, <2>2, Domains DEF DeliveredInv
<1>4. holds'[u] = Len(results) + 1
  BY FilledStep
<1>5. \A v \in Done' : v # u => v \in Done /\ holds'[v] = holds[v]
  BY FilledStep DEF Done
<1>6. \A v \in Done', i \in 1 .. Len(delivered) :
        /\ delivered[i] # holds'[v]
        /\ holds'[v] <= UrbCount /\ delivered[i] <= UrbCount => delivered[i] < holds'[v]
  <2> TAKE v \in Done', i \in 1 .. Len(delivered)
  <2>1. CASE v = u
    BY <1>3, <1>4, <2>1
  <2>2. CASE v # u
    BY <1>5, <2>2, OutputSpelt DEF DeliveredInv
  <2>. QED
    BY <2>1, <2>2
<1>7. DeliveredInv'
  <2>1. DeliveredInv
    BY DEF OutputInv
  <2>2. \A i \in 1 .. Len(delivered) : delivered[i] \in 1 .. Len(results')
    BY <1>1, <1>3
  <2>. QED
    BY <1>2, <1>6, <2>1, <2>2 DEF DeliveredInv
<1>8. \A i \in 1 .. Len(delivered) :
        IF results'[delivered[i]] = "frame"
          THEN stamps[i] = delivered[i]
          ELSE stamps[i] # 0 => /\ stamps[i] < delivered[i]
                                /\ results'[stamps[i]] = "frame"
  <2> TAKE i \in 1 .. Len(delivered)
  <2>1. results'[delivered[i]] = results[delivered[i]]
    BY <1>1, <1>3
  <2>2. stamps[i] # 0 /\ stamps[i] < delivered[i] => results'[stamps[i]] = results[stamps[i]]
    <3>1. stamps[i] # 0 /\ stamps[i] < delivered[i] => stamps[i] \in 1 .. Len(results)
      BY <1>3
    <3>. QED
      BY <1>1, <3>1
  <2>. QED
    BY <2>1, <2>2, OutputSpelt
<1>. QED
  BY <1>2, <1>6, <1>7, <1>8, OutputSpelt, OutputSpeltNext

\* The URB that has been taken is copied out.
LEMMA OutputExtended ==
  ASSUME IInv, OutputInv, TypeOK', UNCHANGED dev,
         NEW u \in Urbs, u \in taken, Submitted(u), CopiedOut(u)
  PROVE  OutputInv'
<1> /\ TypeOK /\ BufferInv /\ DeliveredInv
    /\ dev = "open" /\ urb[u] = "done"
  BY DEF IInv, TakenInv
<1> DEFINE n == Len(delivered)
<1>1. /\ n \in Nat /\ Len(delivered') = n + 1 /\ Len(stamps) = n /\ Len(stamps') = n + 1
      /\ \A i \in 1 .. n : delivered'[i] = delivered[i] /\ stamps'[i] = stamps[i]
      /\ delivered'[n + 1] = holds[u] /\ stamps'[n + 1] = stamp[u]
      /\ UNCHANGED <<dev, holds, stamp, results>>
  BY Domains, CopiedOutStep, SubmittedStep DEF DeliveredInv
<1>2. \A i \in 1 .. n + 1 : i \in 1 .. n \/ i = n + 1
  BY <1>1
<1>3. /\ holds[u] \in 1 .. Len(results) /\ Len(results) \in Nat
      /\ stamp[u] \in Nat /\ stamp[u] <= holds[u]
  BY Domains DEF BufferInv, TypeOK
<1>4. u \in Done
  BY DEF Done
<1>5. \A v \in Done' : v \in Done /\ v # u
  BY SubmittedStep DEF Done, TypeOK
<1>6. \A i \in 1 .. n :
        /\ delivered[i] # holds[u] /\ delivered[i] \in 1 .. Len(results)
        /\ holds[u] <= UrbCount /\ delivered[i] <= UrbCount => delivered[i] < holds[u]
  BY <1>4, OutputSpelt DEF DeliveredInv
<1>7. \A v \in Done' :
        /\ holds[v] # holds[u]
        /\ holds[v] <= UrbCount /\ holds[u] <= UrbCount => holds[u] < holds[v]
  <2> TAKE v \in Done'
  <2>1. v \in Urbs /\ urb[v] = "done" /\ v # u /\ holds[v] \in Nat
    BY <1>5 DEF Done, TypeOK
  <2>2. holds[v] # 0 /\ holds[u] # 0
    BY <2>1 DEF BufferInv
  <2>3. holds[v] # holds[u]
    BY <2>1, <2>2 DEF BufferInv
  <2>4. holds[u] <= UrbCount /\ holds[v] <= UrbCount => holds[u] <= holds[v]
    BY <1>5 DEF IInv, TakenInv
  <2>. QED
    BY <1>3, <2>1, <2>3, <2>4
<1>8. DeliveredInv'
  <2>1. \A i \in 1 .. n + 1 : delivered'[i] \in 1 .. Len(results)
    BY <1>1, <1>2, <1>3, <1>6
  <2>2. \A v \in Done', i \in 1 .. n + 1 :
          holds[v] <= UrbCount /\ delivered'[i] <= UrbCount => delivered'[i] < holds[v]
    BY <1>1, <1>2, <1>5, <1>7 DEF DeliveredInv
  <2>. QED
    BY <1>1, <2>1, <2>2 DEF DeliveredInv
<1>9. \A i, j \in 1 .. n + 1 : delivered'[i] = delivered'[j] => i = j
  BY <1>1, <1>2, <1>6, OutputSpelt
<1>10. \A v \in Done', i \in 1 .. n + 1 : delivered'[i] # holds[v]
  BY <1>1, <1>2, <1>5, <1>7, OutputSpelt
<1>11. ASSUME NEW i \in 1 .. n + 1, NEW j \in 1 .. n + 1, i < j,
              delivered'[i] <= UrbCount, delivered'[j] <= UrbCount
       PROVE  delivered'[i] < delivered'[j]
  <2>1. i \in 1 .. n
    BY <1>1, <1>11
  <2>2. CASE j = n + 1
    BY <1>1, <1>6, <1>11, <2>1, <2>2
  <2>3. CASE j \in 1 .. n
    BY <1>1, <1>11, <2>1, <2>3, OutputSpelt
  <2>. QED
    BY <1>2, <2>2, <2>3
<1>12. \A i \in 1 .. n + 1 :
         IF results[delivered'[i]] = "frame"
           THEN stamps'[i] = delivered'[i]
           ELSE stamps'[i] # 0 => /\ stamps'[i] < delivered'[i]
                                  /\ results[stamps'[i]] = "frame"
  <2> TAKE i \in 1 .. n + 1
  <2>1. CASE i \in 1 .. n
    BY <1>1, <2>1, OutputSpelt
  <2>2. CASE i = n + 1
    BY <1>1, <1>3, <2>2 DEF BufferInv
  <2>. QED
    BY <1>2, <2>1, <2>2
<1>. QED
  BY <1>1, <1>8, <1>9, <1>10, <1>11, <1>12, OutputSpeltNext

\* A read that candle_prepare_read asks for, when no frame is returned.
LEMMA OutputAsked ==
  ASSUME TypeOK, OutputInv, TypeOK', NEW u \in Urbs, Submitted(u) \/ NotPending(u),
         UNCHANGED output,
         dev' \in {"opening", "leaked"} => dev \in {"opening", "leaked"}
  PROVE  OutputInv'
<1>1. CASE Submitted(u)
  BY <1>1, OutputKept DEF Submitted, Done, TypeOK, buffers
<1>2. CASE Refused(u)
  BY <1>2, OutputKept DEF Refused, Done, TypeOK, buffers
<1>3. CASE CompletedAtOnce(u)
  BY <1>3, OutputFilled DEF CompletedAtOnce
<1>. QED
  BY <1>1, <1>2, <1>3 DEF NotPending

\* Only candle_frame_read on an open device returns frames; an open starts anew.
LEMMA OutputStep == ASSUME IInv, [Next]_vars PROVE OutputInv'
<1> /\ TypeOK /\ SubmittedInv /\ DeliveredInv /\ OutputInv
    /\ TypeOK'
  BY TypeStep DEF IInv, OutputInv
<1>1. CASE BeginOpen
  <2>1. ASSUME delivered' = <<>>, Len(stamps') = 0 PROVE OutputInv'
    <3>1. Len(delivered') = 0 /\ 1 .. 0 = {}
      BY <2>1
    <3>2. DeliveredInv'
      BY <2>1, <3>1 DEF DeliveredInv
    <3>. QED
      BY <3>1, <3>2, OutputSpeltNext
  <2>2. CASE dev = "closed" /\ delivered' = <<>> /\ stamps' = <<>>
    BY <2>1, <2>2
  <2>3. CASE dev = "closed" /\ UNCHANGED <<dev, urb, results, output>>
    BY <2>3, OutputKept DEF Done, SubmittedInv
  <2>4. CASE dev = "leaked" /\ UNCHANGED <<dev, urb, results, output>>
    BY <2>1, <2>4 DEF DeliveredInv, output
  <2>. QED
    BY <1>1, <2>2, <2>3, <2>4 DEF BeginOpen
<1>2. CASE SubmitNext
  <2>1. /\ next \in Urbs /\ dev = "opening" /\ UNCHANGED output
        /\ Submitted(next) \/ NotPending(next)
    BY <1>2, RxRingAssumption DEF SubmitNext, TypeOK, Urbs
  <2>. QED
    BY <2>1, OutputAsked
<1>3. CASE EndOpen
  BY <1>3, OutputKept DEF EndOpen, Done, ring, buffers
<1>4. CASE CloseDev
  BY <1>4, OutputKept DEF CloseDev, Done, buffers
<1>5. CASE Complete
  <2>1. PICK u \in Urbs, r \in Results : Filled(u, r) /\ UNCHANGED <<dev, output>>
    BY <1>5, CompleteStep DEF IInv
  <2>. QED
    BY <2>1, OutputFilled
<1>6. CASE Take
  BY <1>6, OutputKept DEF Take, Done, ring, buffers
<1>7. CASE Read
  <2>1. CASE UNCHANGED <<ring, results, taken, output>>
    BY <1>7, <2>1, ReadStep, OutputKept DEF Done, ring, buffers
  <2>2. UNCHANGED dev
    BY <1>7, ReadStep
  <2>3. ASSUME NEW u \in Urbs, taken = {u},
               \/ Submitted(u) /\ UNCHANGED output
               \/ Submitted(u) /\ CopiedOut(u)
               \/ NotPending(u) /\ UNCHANGED output
        PROVE  OutputInv'
    BY <2>2, <2>3, OutputAsked, OutputExtended
  <2>. QED
    BY <1>7, <2>1, <2>3, ReadStep
<1>8. CASE UNCHANGED vars
  BY <1>8, OutputKept DEF vars, Done, ring, buffers
<1>. QED
  BY <1>1, <1>2, <1>3, <1>4, <1>5, <1>6, <1>7, <1>8 DEF Next, Open

-----------------------------------------------------------------------------
(* The frames lost.                                                        *)

\* Lost, with the indices spelt out.
LEMMA LostSpelt ==
  ASSUME TypeOK, NEW k
  PROVE  k \in Lost <=>
           /\ k \in 1 .. Len(results) /\ results[k] \in Frames
           /\ \A i \in 1 .. Len(delivered) : delivered[i] # k
           /\ \A u \in Done : holds[u] # k
  BY Domains DEF Lost

\* The same after a step.
LEMMA LostSpeltNext ==
  ASSUME TypeOK', NEW k
  PROVE  k \in Lost' <=>
           /\ k \in 1 .. Len(results') /\ results'[k] \in Frames
           /\ \A i \in 1 .. Len(delivered') : delivered'[i] # k
           /\ \A u \in Done' : holds'[u] # k
  BY DomainsNext DEF Lost

\* A step that disturbs no signalled URB but perhaps u, takes back no delivered
\* frame, and leaves what arrives in a signalled URB.
LEMMA LostByOne ==
  ASSUME TypeOK, TypeOK', NEW u,
         \A v \in Done : v # u => v \in Done' /\ holds'[v] = holds[v],
         \A k \in 1 .. Len(results) : results'[k] = results[k],
         \A k \in 1 .. Len(results') :
           k \in 1 .. Len(results) \/ \E v \in Done' : holds'[v] = k,
         \A i \in 1 .. Len(delivered) :
           \E j \in 1 .. Len(delivered') : delivered'[j] = delivered[i],
         NEW k \in Lost' \ Lost
  PROVE  /\ results[k] \in Frames
         /\ \A i \in 1 .. Len(delivered') : delivered'[i] # k
         /\ u \in Done /\ holds[u] = k
<1>1. /\ k \in 1 .. Len(results') /\ results'[k] \in Frames
      /\ \A i \in 1 .. Len(delivered') : delivered'[i] # k
      /\ \A v \in Done' : holds'[v] # k
  BY LostSpeltNext
<1>2. k \in 1 .. Len(results) /\ results[k] \in Frames
  BY <1>1
<1>3. \A i \in 1 .. Len(delivered) : delivered[i] # k
  BY <1>1
<1>4. \E v \in Done : holds[v] = k
  BY <1>2, <1>3, LostSpelt
<1>. QED
  BY <1>1, <1>2, <1>4

\* A transfer that arrives is lost to nobody; it may cost another only its URB.
LEMMA LostFilled ==
  ASSUME TypeOK, TypeOK', NEW u \in Urbs, NEW r \in Results, Filled(u, r),
         UNCHANGED output, NEW k \in Lost' \ Lost
  PROVE  results[k] \in Frames /\ u \in Done /\ holds[u] = k
<1>1. Len(results) \in Nat /\ Len(results') = Len(results) + 1
  BY Domains, FilledStep
<1>2. \A v \in Done : v # u => v \in Done' /\ holds'[v] = holds[v]
  BY FilledStep DEF Done
<1>3. u \in Done' /\ holds'[u] = Len(results) + 1
  BY FilledStep DEF Done
<1>4. \A j \in 1 .. Len(results') :
        j \in 1 .. Len(results) \/ \E v \in Done' : holds'[v] = j
  BY <1>1, <1>3
<1>5. \A j \in 1 .. Len(results) : results'[j] = results[j]
  BY FilledStep
<1>6. UNCHANGED delivered
  BY DEF output
<1>. QED
  BY <1>2, <1>4, <1>5, <1>6, LostByOne

\* Steps that neither take nor return.
LEMMA NothingLost ==
  ASSUME UNCHANGED <<urb, holds, results, output>>
  PROVE  Lost' = Lost
  BY DEF Lost, Done, output

\* Only the frame that has been taken can be lost, when the read that replaces it
\* is not pending.
LEMMA LossStep ==
  ASSUME IInv, [Next]_vars, dev = "open", dev' = "open", NEW k \in Lost' \ Lost
  PROVE  /\ \E u \in taken : holds[u] = k
         /\ Read /\ lastError' = "PREPARE_READ" /\ ~returned'
<1> TypeOK /\ OneReadPerBuffer /\ TakenInv /\ TypeOK'
  BY TypeStep DEF IInv
<1>1. CASE Open \/ CloseDev
  BY <1>1 DEF Open, BeginOpen, SubmitNext, EndOpen, CloseDev
<1>2. CASE Complete
  <2>1. PICK u \in Urbs, r \in Results :
          urb[u] = "pending" /\ Filled(u, r) /\ UNCHANGED output
    BY <1>2, CompleteStep
  <2>2. u \notin Done
    BY <2>1 DEF Done
  <2>. QED
    BY <2>1, <2>2, LostFilled
<1>3. CASE Take \/ ReadTimeout \/ ReadUnopened \/ UNCHANGED vars
  BY <1>3, NothingLost DEF Take, ReadTimeout, ReadUnopened, vars, ring, buffers
<1>4. ASSUME NEW u \in taken, NotPending(u), UNCHANGED output
      PROVE  results[k] \in Frames /\ holds[u] = k
  <2>1. u \in Urbs
    BY DEF TypeOK
  <2>2. CASE Refused(u)
    <3>1. /\ UNCHANGED <<holds, results, delivered>>
          /\ \A v \in Done : v # u => v \in Done' /\ holds'[v] = holds[v]
      BY <1>4, <2>1, <2>2 DEF Refused, Done, TypeOK, buffers, output
    <3>. QED
      BY <3>1, LostByOne
  <2>3. CASE CompletedAtOnce(u)
    BY <1>4, <2>1, <2>3, LostFilled DEF CompletedAtOnce
  <2>. QED
    BY <1>4, <2>2, <2>3 DEF NotPending
<1>5. ASSUME NEW u \in taken, Submitted(u), UNCHANGED output \/ CopiedOut(u)
      PROVE  /\ results[k] \in Frames /\ holds[u] = k
             /\ \A i \in 1 .. Len(delivered') : delivered'[i] # k
  <2>1. u \in Urbs
    BY DEF TypeOK
  <2>2. /\ UNCHANGED <<holds, results>>
        /\ \A v \in Done : v # u => v \in Done' /\ holds'[v] = holds[v]
    BY <1>5, <2>1, SubmittedStep DEF Done, TypeOK
  <2>3. \A i \in 1 .. Len(delivered) :
          \E j \in 1 .. Len(delivered') : delivered'[j] = delivered[i]
    <3>1. CASE UNCHANGED output
      BY <3>1 DEF output
    <3>2. CASE CopiedOut(u)
      <4>1. /\ Len(delivered) \in Nat /\ Len(delivered') = Len(delivered) + 1
            /\ \A i \in 1 .. Len(delivered) : delivered'[i] = delivered[i]
        BY <2>1, <3>2, CopiedOutStep, Domains
      <4>2. \A i \in 1 .. Len(delivered) : i \in 1 .. Len(delivered')
        BY <4>1
      <4>. QED
        BY <4>1, <4>2
    <3>. QED
      BY <1>5, <3>1, <3>2
  <2>. QED
    BY <2>2, <2>3, LostByOne
<1>6. CASE ReadBad
  <2>1. PICK u \in taken :
          /\ results[holds[u]] \notin Frames
          /\ Submitted(u) \/ NotPending(u)
          /\ UNCHANGED output
    BY <1>6 DEF ReadBad, LongEnough, Frames
  <2>. QED
    BY <1>4, <1>5, <2>1
<1>7. CASE ReadFrame
  <2>1. PICK u \in taken :
          \/ Submitted(u) /\ CopiedOut(u)
          \/ /\ NotPending(u) /\ UNCHANGED output
             /\ lastError' = "PREPARE_READ" /\ returned' = FALSE
    BY <1>7 DEF ReadFrame
  <2>2. CASE Submitted(u) /\ CopiedOut(u)
    <3>1. holds[u] = k /\ \A i \in 1 .. Len(delivered') : delivered'[i] # k
      BY <1>5, <2>2
    <3>2. /\ Len(delivered) + 1 \in 1 .. Len(delivered')
          /\ delivered'[Len(delivered) + 1] = holds[u]
      <4>1. u \in Urbs /\ Len(delivered) \in Nat
        BY Domains DEF TypeOK
      <4>2. /\ Len(delivered') = Len(delivered) + 1
            /\ delivered'[Len(delivered) + 1] = holds[u]
        BY <2>2, <4>1, CopiedOutStep
      <4>. QED
        BY <4>1, <4>2
    <3>. QED
      BY <3>1, <3>2
  <2>. QED
    BY <1>4, <1>7, <2>1, <2>2 DEF Read
<1>. QED
  BY <1>1, <1>2, <1>3, <1>6, <1>7 DEF Next, Read

-----------------------------------------------------------------------------
(* The properties.                                                         *)

\* The conjuncts of the invariant are kept together.
LEMMA NextIInv == IInv /\ [Next]_vars => IInv'
  BY TypeStep, OneReadStep, SubmittedInvStep, BufferInvStep, TakenInvStep, OutputStep
     DEF IInv, OutputInv

\* The inductive invariant holds in every reachable state.
\* (candle_dev_open, candle_frame_read, candle_dev_close)
THEOREM InductiveInvariant == Spec => []IInv
  BY InitIInv, NextIInv, PTL DEF Spec

\* Every variable stays in its range: no URB beyond the last is submitted.
\* (candle_dev_open)
THEOREM TypeCorrect == Spec => []TypeOK
<1>1. IInv => TypeOK
  BY DEF IInv
<1>. QED
  BY <1>1, InductiveInvariant, PTL

\* No buffer is handed to the device twice at a time, nor while a frame may still
\* be copied from it.
\* (candle_prepare_read, candle_frame_read)
THEOREM BufferHandedOnce == Spec => []OneReadPerBuffer
<1>1. IInv => OneReadPerBuffer
  BY DEF IInv
<1>. QED
  BY <1>1, InductiveInvariant, PTL

\* No frame is returned twice, nor returned and left to be read again.
\* (candle_frame_read)
THEOREM ReturnedAtMostOnce == Spec => []AtMostOnce
<1>1. IInv => AtMostOnce
  BY DEF IInv
<1>. QED
  BY <1>1, InductiveInvariant, PTL

\* The first UrbCount transfers after an open are returned in order.
\* (candle_dev_open, candle_frame_read's wait)
THEOREM FirstRoundOrdered == Spec => []FirstRoundInOrder
<1>1. IInv => FirstRoundInOrder
  BY DEF IInv
<1>. QED
  BY <1>1, InductiveInvariant, PTL

\* No frame is returned with a timestamp from before the open.
\* (candle_frame_read's memcpy, candle_dev_interal_open's memset)
THEOREM StampsCurrent == Spec => []StampsOfThisOpen
<1>1. IInv => StampsOfThisOpen
  BY DEF IInv
<1>. QED
  BY <1>1, InductiveInvariant, PTL

\* No frame of an open device is lost but the one that a candle_frame_read has
\* taken and reports with PREPARE_READ, whether its URB's next read was refused or
\* completed at once.  (candle_frame_read, return candle_prepare_read)
THEOREM LossesReported == Spec => LossIsReported
<1> DEFINE A ==
      dev = "open" /\ dev' = "open" =>
        \A k \in Lost' \ Lost :
          /\ \E u \in taken : holds[u] = k
          /\ Read /\ lastError' = "PREPARE_READ" /\ ~returned'
<1>1. IInv /\ [Next]_vars => [A]_vars
  BY LossStep
<1>. QED
  BY <1>1, InductiveInvariant, PTL DEF Spec, LossIsReported

\* last_error is OK after a read exactly when the read returned a frame.
\* (candle_frame_read)
THEOREM ReadErrorAgrees == Spec => ErrorAgrees
<1>1. [Next]_vars => [Read => (lastError' = "OK" <=> returned')]_vars
  BY DEF Read, ReadUnopened, ReadTimeout, ReadBad, ReadFrame
<1>. QED
  BY <1>1, PTL DEF Spec, ErrorAgrees
=============================================================================
