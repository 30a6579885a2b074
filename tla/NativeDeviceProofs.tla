------------------------- MODULE NativeDeviceProofs -------------------------
(***************************************************************************)
(* The safety invariants of NativeDevice and its action property, for any  *)
(* number of events, starters, bit rates, clocks and refused opens.        *)
(*                                                                         *)
(* HandlesHeld says what is held between two calls.  The invariant that    *)
(* makes it inductive says what each step of candle_dev_open holds, and    *)
(* what rxevents contains there: that is what the three ways out of it     *)
(* (winusb_free, close_handle, candle_close_rxurbs) rely on.               *)
(***************************************************************************)
EXTENDS NativeDevice, TLAPS

\* The steps of an open that have the WinUSB handle, but no read yet.
Querying == {"settings", "pipes", "rawIo", "hostFormat", "config", "capability"}

WithInterface == Querying \cup {"prepare"}
WithFile == WithInterface \cup {"initialize"}

\* The open device, or the step that the open has reached, holds a pair of
\* handles besides the leaked ones.
HandleInv ==
  /\ opened => pc = "idle"
  /\ files = leaks + Count(opened \/ pc \in WithFile)
  /\ interfaces = leaks + Count(opened \/ pc \in WithInterface)

\* rxevents is clear until the reads are submitted, and holds at most the events of
\* those submitted so far; what an earlier open has left there is never "open".
EventInv ==
  /\ pc \in Querying \cup {"initialize"} => \A s \in Slots : events[s] = "null"
  /\ pc = "prepare" =>
       \A s \in Slots : events[s] = "null" \/ (s < next /\ events[s] = "open")
  /\ pc \notin WithFile =>
       \A s \in Slots : events[s] # IF opened THEN "closed" ELSE "open"

\* The firmware has the timing that a thread has set, unless it was disturbed.
TimingInv ==
  \A t \in Starters : starting[t] # 0 /\ t \notin disturbed => timing = starting[t]

IInv ==
  /\ TypeOK
  /\ HandleInv
  /\ EventInv
  /\ EventsClosedOnce
  /\ TimingInv
  /\ RunsAtAskedRate

-----------------------------------------------------------------------------
(* The table of candle_channel_set_bitrate.                                *)

\* The switch has one case for each bit rate.
LEMMA PrescalerOfEntry ==
  ASSUME NEW entry \in Prescalers
  PROVE  Prescaler(entry[1]) = entry[2]
<1>1. entry[2] \in 1 .. 300 /\ <<entry[1], entry[2]>> \in Prescalers
  BY DEF Prescalers
<1>2. \A p \in 1 .. 300 : <<entry[1], p>> \in Prescalers => p = entry[2]
  BY DEF Prescalers
<1>. QED
  BY <1>1, <1>2 DEF Prescaler

\* Each of them divides the clock to the bit rate that was asked for; for 83333
\* bit/s, to the nearest below.
LEMMA RateOfSupported ==
  ASSUME NEW bitrate \in Supported
  PROVE  Rate(TimingFor(bitrate)) = bitrate
<1>1. PICK entry \in Prescalers : bitrate = entry[1]
  BY DEF Supported
<1>2. Prescaler(bitrate) = entry[2]
  BY <1>1, PrescalerOfEntry
<1>3. QuantaPerBit(TimingFor(bitrate)) = IF bitrate = 800000 THEN 15 ELSE 16
  BY DEF QuantaPerBit, TimingFor, PhaseSeg1
<1>4. TimingFor(bitrate).brp = entry[2]
  BY <1>2 DEF TimingFor
<1>5. Rate(TimingFor(bitrate)) =
        48000000 \div (entry[2] * IF bitrate = 800000 THEN 15 ELSE 16)
  BY <1>3, <1>4 DEF Rate, BaseClock
<1>. QED
  BY <1>1, <1>5 DEF Prescalers


-----------------------------------------------------------------------------
(* The initial states and the steps.                                       *)

\* candle_list_scan begins with a cleared structure.
LEMMA InitIInv == Init => IInv
<1> SUFFICES ASSUME Init PROVE IInv
  OBVIOUS
<1> USE NativeDeviceAssumption DEF Init
<1>1. TypeOK
  <2>1. 0 \in Slots /\ 0 \in 0 .. MaxLeaks /\ 0 \in 0 .. MaxLeaks + 1
    BY DEF Slots
  <2>2. events \in [Slots -> {"null", "open", "closed"}]
    OBVIOUS
  <2>3. starting \in [Starters -> Bitrates \cup {0}]
    OBVIOUS
  <2>. QED
    BY <2>1, <2>2, <2>3 DEF TypeOK, OpenSteps, Errors, Rates
<1>2. HandleInv
  BY DEF HandleInv, Count, WithFile, WithInterface, Querying
<1>3. EventInv
  BY DEF EventInv, WithFile, WithInterface, Querying
<1>. QED
  BY <1>1, <1>2, <1>3 DEF IInv, EventsClosedOnce, TimingInv, RunsAtAskedRate

\* What the five requests between WinUsb_Initialize and the last one have in
\* common: the next step, or a failure that gives the handles back.
LEMMA QueriesStep ==
  Queries =>
    /\ pc \in Querying
    /\ \/ /\ pc' \in Querying
          /\ lastError' \in {lastError, "OK"}
          /\ UNCHANGED <<probing, handles, clock, channel>>
       \/ \E error \in Errors \ {"OK", "PREPARE_READ"} : Failed(error) /\ WinUsbFree
<1>1. CASE Query("settings", {"QUERY_INTERFACE"}, "pipes")
  BY <1>1 DEF Query, Querying, Errors
<1>2. CASE Query("pipes", {"QUERY_PIPE", "PARSE_IF_DESCR"}, "rawIo")
  BY <1>2 DEF Query, Querying, Errors
<1>3. CASE Query("rawIo", {"SET_PIPE_RAW_IO"}, "hostFormat")
  BY <1>3 DEF Query, Querying, Errors
<1>4. CASE ControlRequest("hostFormat", "SET_HOST_FORMAT", "config")
  BY <1>4 DEF ControlRequest, Querying, Errors
<1>5. CASE ControlRequest("config", "GET_DEVICE_INFO", "capability")
  BY <1>5 DEF ControlRequest, Querying, Errors
<1>. QED
  BY <1>1, <1>2, <1>3, <1>4, <1>5 DEF Queries

\* The same, variable by variable.
LEMMA QueriesFrame ==
  Queries =>
    /\ pc \in Querying /\ lastError' \in Errors \cup {lastError}
    /\ UNCHANGED <<opened, leaks, blocked, next, events, twice, clock, channel>>
    /\ \/ pc' \in Querying /\ UNCHANGED <<probing, usb, files, interfaces>>
       \/ /\ pc' = "idle" /\ probing' = FALSE /\ usb' = "freed"
          /\ files' = files - 1 /\ interfaces' = interfaces - 1
<1>1. ASSUME NEW error \in Errors, Failed(error) /\ WinUsbFree
      PROVE  /\ pc' = "idle" /\ probing' = FALSE /\ lastError' \in Errors
             /\ UNCHANGED <<opened, leaks, blocked, next, events, twice, clock,
                            channel>>
             /\ usb' = "freed"
             /\ files' = files - 1 /\ interfaces' = interfaces - 1
  BY <1>1 DEF Failed, WinUsbFree, Errors
<1>. QED
  BY <1>1, QueriesStep DEF handles, Errors

\* The handles held at each point, spelt out.
LEMMA Holding ==
  ASSUME IInv
  PROVE  /\ pc \in WithInterface \/ opened => files = leaks + 1 /\ interfaces = leaks + 1
         /\ pc = "initialize" => files = leaks + 1 /\ interfaces = leaks
         /\ pc = "createFile" => files = leaks /\ interfaces = leaks
  BY DEF IInv, TypeOK, HandleInv, Count, WithFile, WithInterface, Querying

\* No step leaves the ranges: no handle is closed that is not held, and no slot
\* beyond the last is given a read.
LEMMA TypeStep == ASSUME IInv, [Next]_vars PROVE TypeOK'
<1> USE NativeDeviceAssumption
        DEF IInv, TypeOK, Errors, OpenSteps, handles, channel
<1>1. CASE BeginOpen
  BY <1>1 DEF BeginOpen
<1>2. CASE CreateFile
  <2>1. files + 1 \in 0 .. MaxLeaks + 1
    BY <1>2, Holding DEF CreateFile
  <2>2. events' \in [Slots -> {"null", "open", "closed"}]
    BY <1>2 DEF CreateFile, EventsCleared
  <2>. QED
    BY <1>2, <2>1, <2>2 DEF CreateFile, Failed
<1>3. CASE Initialize
  <2>1. /\ files - 1 \in 0 .. MaxLeaks + 1
        /\ interfaces + 1 \in 0 .. MaxLeaks + 1
    BY <1>3, Holding DEF Initialize
  <2>. QED
    BY <1>3, <2>1 DEF Initialize, Failed
<1>4. CASE Queries
  <2>1. /\ files - 1 \in 0 .. MaxLeaks + 1
        /\ interfaces - 1 \in 0 .. MaxLeaks + 1
    BY <1>4, QueriesStep, Holding DEF WithInterface
  <2>2. pc' \in OpenSteps \cup {"prepare", "idle", "freed"} /\ lastError' \in Errors
    BY <1>4, QueriesFrame DEF Querying
  <2>3. CASE pc' = "idle"
    BY <1>4, <2>1, <2>2, <2>3, QueriesFrame
  <2>4. CASE pc' # "idle"
    BY <1>4, <2>2, <2>4, QueriesFrame
  <2>. QED
    BY <2>3, <2>4
<1>5. CASE Capability
  <2>1. /\ files - 1 \in 0 .. MaxLeaks + 1
        /\ interfaces - 1 \in 0 .. MaxLeaks + 1
    BY <1>5, Holding DEF Capability, WithInterface, Querying
  <2>2. events' \in [Slots -> {"null", "open", "closed"}]
    BY <1>5 DEF Capability, Failed, Closed, CloseRxurbs, WinUsbFree
  <2>3. twice' \in BOOLEAN
    BY <1>5 DEF Capability, Failed, Closed, CloseRxurbs, WinUsbFree
  <2>4. 0 \in Slots
    BY DEF Slots
  <2>. QED
    BY <1>5, <2>1, <2>2, <2>3, <2>4 DEF Capability, Failed, Closed, CloseRxurbs, WinUsbFree
<1>6. CASE Prepare
  <2>1. ~LastSlot(next) => next + 1 \in Slots
    BY DEF LastSlot, Slots
  <2>2. events' \in [Slots -> {"null", "open", "closed"}]
    BY <1>6 DEF Prepare, Refused, WithEvent, CloseRxurbs
  <2>3. twice' \in BOOLEAN
    BY <1>6 DEF Prepare, Refused, WithEvent, CloseRxurbs
  <2>4. leaks' \in 0 .. MaxLeaks
    BY <1>6 DEF Prepare, Refused, WithEvent, CloseRxurbs
  <2>. QED
    BY <1>6, <2>1, <2>2, <2>3, <2>4 DEF Prepare, Refused, WithEvent, CloseRxurbs
<1>7. CASE CloseDev
  <2>1. /\ files - 1 \in 0 .. MaxLeaks + 1
        /\ interfaces - 1 \in 0 .. MaxLeaks + 1
    BY <1>7, Holding DEF CloseDev
  <2>2. events' \in [Slots -> {"null", "open", "closed"}]
    BY <1>7 DEF CloseDev, Closed, CloseRxurbs
  <2>3. twice' \in BOOLEAN
    BY <1>7 DEF CloseDev, Closed, CloseRxurbs
  <2>. QED
    BY <1>7, <2>1, <2>2, <2>3 DEF CloseDev, Closed, CloseRxurbs
<1>8. CASE FreeDev
  BY <1>8 DEF FreeDev
<1>9. CASE PowerCycle
  <2>1. NoTiming \in Rates
    BY DEF Rates
  <2>. QED
    BY <1>9, <2>1 DEF PowerCycle
<1>10. CASE Timestamp
  BY <1>10 DEF Timestamp
<1>11. CASE SetTiming
  BY <1>11 DEF SetTiming, Request, TimingSet
<1>12. CASE StopChannel
  BY <1>12 DEF StopChannel, Request
<1>13. ASSUME NEW t \in Starters, NEW b \in Bitrates, SetBitrate(t, b) PROVE TypeOK'
  BY <1>13 DEF SetBitrate, Request, TimingSet, Rates
<1>14. ASSUME NEW t \in Starters, StartChannel(t) PROVE TypeOK'
  BY <1>14 DEF StartChannel, Request
<1>15. ASSUME NEW t \in Starters, StartAbandoned(t) PROVE TypeOK'
  BY <1>15 DEF StartAbandoned
<1>16. CASE UNCHANGED vars
  BY <1>16 DEF vars
<1>. QED
  BY <1>1, <1>2, <1>3, <1>4, <1>5, <1>6, <1>7, <1>8, <1>9, <1>10, <1>11,
     <1>12, <1>13, <1>14, <1>15, <1>16
     DEF Next, Opening, Requests

\* The handles in use go with the step that the open has reached.
LEMMA HandleStep == ASSUME IInv, [Next]_vars PROVE HandleInv'
<1> USE DEF IInv, TypeOK, HandleInv, Count, WithFile, WithInterface, Querying, handles
<1>1. CASE BeginOpen
  BY <1>1 DEF BeginOpen
<1>2. CASE CreateFile
  BY <1>2 DEF CreateFile, Failed
<1>3. CASE Initialize
  BY <1>3 DEF Initialize, Failed
<1>4. CASE Queries
  BY <1>4, QueriesFrame
<1>5. CASE Capability
  BY <1>5 DEF Capability, Failed, Closed, CloseRxurbs, WinUsbFree
<1>6. CASE Prepare
  BY <1>6 DEF Prepare, Refused, WithEvent, CloseRxurbs
<1>7. CASE CloseDev
  BY <1>7 DEF CloseDev, Closed, CloseRxurbs
<1>8. CASE FreeDev
  BY <1>8 DEF FreeDev
<1>9. CASE PowerCycle
  BY <1>9 DEF PowerCycle
<1>10. CASE Timestamp
  BY <1>10 DEF Timestamp
<1>11. CASE SetTiming
  BY <1>11 DEF SetTiming, Request
<1>12. CASE StopChannel
  BY <1>12 DEF StopChannel, Request
<1>13. ASSUME NEW t \in Starters, NEW b \in Bitrates, SetBitrate(t, b) PROVE HandleInv'
  BY <1>13 DEF SetBitrate, Request
<1>14. ASSUME NEW t \in Starters, StartChannel(t) PROVE HandleInv'
  BY <1>14 DEF StartChannel, Request
<1>15. ASSUME NEW t \in Starters, StartAbandoned(t) PROVE HandleInv'
  BY <1>15 DEF StartAbandoned
<1>16. CASE UNCHANGED vars
  BY <1>16 DEF vars
<1>. QED
  BY <1>1, <1>2, <1>3, <1>4, <1>5, <1>6, <1>7, <1>8, <1>9, <1>10, <1>11,
     <1>12, <1>13, <1>14, <1>15, <1>16
     DEF Next, Opening, Requests

\* The events open are those of the reads submitted, and a closed one is cleared
\* before it could be closed again.
LEMMA EventStep == ASSUME IInv, [Next]_vars PROVE (EventInv /\ EventsClosedOnce)'
<1> USE NativeDeviceAssumption
        DEF IInv, TypeOK, HandleInv, EventInv, EventsClosedOnce, WithFile,
            WithInterface, Querying, handles, Slots
<1>1. CASE BeginOpen
  BY <1>1 DEF BeginOpen
<1>2. CASE CreateFile
  BY <1>2 DEF CreateFile, EventsCleared, Failed
<1>3. CASE Initialize
  BY <1>3 DEF Initialize, Failed
<1>4. CASE Queries
  BY <1>4, QueriesFrame
<1>5. CASE Capability
  BY <1>5 DEF Capability, Failed, Closed, CloseRxurbs, WinUsbFree
<1>6. CASE Prepare
  <2>1. ASSUME NEW rxevents \in WithEvent
        PROVE  /\ \A s \in Slots : s <= next \/ rxevents[s] = "null"
               /\ \A s \in Slots : rxevents[s] \in {"null", "open"}
    <3>1. PICK event \in {"open", "null"} : rxevents = [events EXCEPT ![next] = event]
      BY <2>1 DEF WithEvent
    <3>2. \A s \in Slots : s < next \/ events[s] = "null"
      BY <1>6 DEF Prepare
    <3>3. \A s \in Slots : events[s] \in {"null", "open"}
      BY <1>6 DEF Prepare
    <3>4. \A s \in Slots : rxevents[s] = IF s = next THEN event ELSE events[s]
      BY <3>1
    <3>. QED
      BY <3>2, <3>3, <3>4
  <2>2. CASE /\ events' \in WithEvent /\ UNCHANGED twice
             /\ IF LastSlot(next)
                  THEN pc' = "idle" /\ opened' = TRUE
                  ELSE next' = next + 1 /\ UNCHANGED <<pc, opened>>
    <3>1. CASE LastSlot(next)
      BY <1>6, <2>1, <2>2, <3>1 DEF Prepare
    <3>2. CASE ~LastSlot(next)
      BY <1>6, <2>1, <2>2, <3>2 DEF Prepare
    <3>. QED
      BY <3>1, <3>2
  <2>3. CASE Refused /\ pc' = "idle" /\ UNCHANGED opened
    BY <1>6, <2>1, <2>3 DEF Prepare, Refused, CloseRxurbs
  <2>. QED
    BY <1>6, <2>2, <2>3 DEF Prepare
<1>7. CASE CloseDev
  BY <1>7 DEF CloseDev, Closed, CloseRxurbs
<1>8. CASE FreeDev
  BY <1>8 DEF FreeDev
<1>9. CASE PowerCycle
  BY <1>9 DEF PowerCycle
<1>10. CASE Timestamp
  BY <1>10 DEF Timestamp
<1>11. CASE SetTiming
  BY <1>11 DEF SetTiming, Request
<1>12. CASE StopChannel
  BY <1>12 DEF StopChannel, Request
<1>13. ASSUME NEW t \in Starters, NEW b \in Bitrates, SetBitrate(t, b) PROVE (EventInv /\ EventsClosedOnce)'
  BY <1>13 DEF SetBitrate, Request
<1>14. ASSUME NEW t \in Starters, StartChannel(t) PROVE (EventInv /\ EventsClosedOnce)'
  BY <1>14 DEF StartChannel, Request
<1>15. ASSUME NEW t \in Starters, StartAbandoned(t) PROVE (EventInv /\ EventsClosedOnce)'
  BY <1>15 DEF StartAbandoned
<1>16. CASE UNCHANGED vars
  BY <1>16 DEF vars
<1>. QED
  BY <1>1, <1>2, <1>3, <1>4, <1>5, <1>6, <1>7, <1>8, <1>9, <1>10, <1>11,
     <1>12, <1>13, <1>14, <1>15, <1>16
     DEF Next, Opening, Requests

\* The timing in force is the one a Channel.Start has set, or the start has been
\* disturbed.
LEMMA TimingStep == ASSUME IInv, [Next]_vars PROVE (TimingInv /\ RunsAtAskedRate)'
<1> USE DEF IInv, TypeOK, TimingInv, RunsAtAskedRate, handles, channel
<1>1. CASE BeginOpen
  BY <1>1 DEF BeginOpen
<1>2. CASE CreateFile
  BY <1>2 DEF CreateFile, Failed
<1>3. CASE Initialize
  BY <1>3 DEF Initialize, Failed
<1>4. CASE Queries
  BY <1>4, QueriesFrame
<1>5. CASE Capability
  BY <1>5 DEF Capability, Failed
<1>6. CASE Prepare
  BY <1>6 DEF Prepare
<1>7. CASE CloseDev
  BY <1>7 DEF CloseDev
<1>8. CASE FreeDev
  BY <1>8 DEF FreeDev
<1>9. CASE PowerCycle
  BY <1>9 DEF PowerCycle
<1>10. CASE Timestamp
  BY <1>10 DEF Timestamp
<1>11. CASE SetTiming
  BY <1>11 DEF SetTiming, Request, TimingSet
<1>12. CASE StopChannel
  BY <1>12 DEF StopChannel, Request
<1>13. ASSUME NEW t \in Starters, NEW b \in Bitrates, SetBitrate(t, b) PROVE (TimingInv /\ RunsAtAskedRate)'
  BY <1>13, RateOfSupported DEF SetBitrate, Request, TimingSet
<1>14. ASSUME NEW t \in Starters, StartChannel(t) PROVE (TimingInv /\ RunsAtAskedRate)'
  BY <1>14 DEF StartChannel, Request
<1>15. ASSUME NEW t \in Starters, StartAbandoned(t) PROVE (TimingInv /\ RunsAtAskedRate)'
  BY <1>15 DEF StartAbandoned
<1>16. CASE UNCHANGED vars
  BY <1>16 DEF vars
<1>. QED
  BY <1>1, <1>2, <1>3, <1>4, <1>5, <1>6, <1>7, <1>8, <1>9, <1>10, <1>11,
     <1>12, <1>13, <1>14, <1>15, <1>16
     DEF Next, Opening, Requests

\* The conjuncts of the invariant are kept together.
LEMMA NextIInv == IInv /\ [Next]_vars => IInv'
  BY TypeStep, HandleStep, EventStep, TimingStep DEF IInv

\* The inductive invariant holds in every reachable state.
\* (candle_dev_interal_open, candle_dev_open, candle_dev_close)
THEOREM InductiveInvariant == Spec => []IInv
  BY InitIInv, NextIInv, PTL DEF Spec
-----------------------------------------------------------------------------
(* The properties.                                                         *)

\* Every variable stays in its range: the counts of handles never become
\* negative, and every slot that is filled exists.
\* (candle_dev_interal_open, candle_dev_close)
THEOREM TypeCorrect == Spec => []TypeOK
<1>1. IInv => TypeOK
  BY DEF IInv
<1>. QED
  BY <1>1, InductiveInvariant, PTL

\* Whichever step of whichever open failed, only the opens that were refused a
\* read leave handles behind, one pair each, and no event is left open.
\* (candle_dev_interal_open's labels, candle_dev_open, candle_dev_close)
THEOREM HandlesAccounted == Spec => []HandlesHeld
<1>1. ASSUME IInv PROVE HandlesHeld
  BY <1>1
     DEF IInv, HandleInv, EventInv, HandlesHeld, Count, WithFile, WithInterface,
         Querying
<1>. QED
  BY <1>1, InductiveInvariant, PTL

\* No event is closed a second time.
\* (candle_close_rxurbs)
THEOREM NoEventClosedTwice == Spec => []EventsClosedOnce
<1>1. IInv => EventsClosedOnce
  BY DEF IInv
<1>. QED
  BY <1>1, InductiveInvariant, PTL

\* A channel whose Channel.Start was not disturbed runs at the bit rate it asked
\* for, on every clock and for every bit rate of the table.
\* (Channel.Start, candle_channel_set_bitrate, candle_channel_start)
THEOREM ChannelRunsAtAskedRate == Spec => []RunsAtAskedRate
<1>1. IInv => RunsAtAskedRate
  BY DEF IInv
<1>. QED
  BY <1>1, InductiveInvariant, PTL

\* What candle_dev_open reports.
Reports ==
  Opening /\ pc' = "idle" /\ ~probing =>
    /\ (lastError' = "OK" <=> opened')
    /\ (lastError' = "PREPARE_READ" <=> leaks' > leaks)

\* An open that fails says so, and says PREPARE_READ exactly when it has left its
\* handles behind.
\* (candle_dev_interal_open, candle_dev_open)
THEOREM OpenReportsError == Spec => OpenReports
<1>1. ASSUME IInv, [Next]_vars PROVE [Reports]_vars
  <2> SUFFICES ASSUME Opening, pc' = "idle", ~probing
               PROVE  /\ (lastError' = "OK" <=> opened')
                      /\ (lastError' = "PREPARE_READ" <=> leaks' > leaks)
    BY DEF Reports
  <2> USE <1>1 DEF IInv, TypeOK, HandleInv
  <2>1. ASSUME NEW error \in Errors \ {"OK", "PREPARE_READ"}, Failed(error),
               pc # "idle"
        PROVE  /\ lastError' \notin {"OK", "PREPARE_READ"} /\ ~opened'
               /\ leaks' = leaks
    BY <2>1 DEF Failed
  <2>2. CASE CreateFile
    BY <2>1, <2>2 DEF CreateFile, Errors
  <2>3. CASE Initialize
    BY <2>1, <2>3 DEF Initialize, Errors
  <2>4. CASE Queries
    BY <2>1, <2>4, QueriesStep DEF Querying
  <2>5. CASE Capability
    BY <2>1, <2>5 DEF Capability, Errors
  <2>6. CASE Prepare
    BY <2>6 DEF Prepare, Refused, WithEvent, CloseRxurbs
  <2>. QED
    BY <2>2, <2>3, <2>4, <2>5, <2>6 DEF Opening
<1>. QED
  BY <1>1, InductiveInvariant, PTL DEF Spec, OpenReports, Reports
=============================================================================
