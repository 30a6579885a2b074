-------------------------- MODULE DeviceListProofs --------------------------
(***************************************************************************)
(* The safety invariants of DeviceList, for any size of the list and any   *)
(* number of attached devices.                                             *)
(*                                                                         *)
(* ListDevices keeps three books at once: the slots that the scan has      *)
(* filled, the reason why it stopped, and the memory that the result will  *)
(* own.  LoopInv, VerdictInv and MemoryInv say where each of them stands   *)
(* at every point of the function.                                         *)
(***************************************************************************)
EXTENDS DeviceList, TLAPS

\* The slots below n hold a device that was read.
FilledBelow(n) == \A s \in Slots : s < n => slot[s] # "empty"

\* The loop of candle_list_scan has filled the slots below i, one per device, and
\* the result is empty until the scan is over; the loop of ListDevices stays
\* within what the scan has filled.
LoopInv ==
  /\ pc = "scan" => i = 0
  /\ pc \in {"enum", "probe", "destroy"} => FilledBelow(i) /\ i <= attached
  /\ pc = "probe" => i < MaxDevices /\ i < attached
  /\ pc \in {"scan", "enum", "probe", "destroy", "scanned"} => listed = NoneListed
  /\ pc \in {"scanned", "get"} => FilledBelow(numDevices)
  /\ pc = "get" => i <= numDevices

\* No error is pending in the loop, and when it ends with room left and none, it
\* has counted all devices.
VerdictInv ==
  /\ pc \in {"scan", "enum", "probe"} => listError = "OK"
  /\ pc = "destroy" /\ listError = "OK" /\ MoreRoom =>
       i >= attached /\ numDevices = i

\* The Devices made so far that will be part of the result.
Pending == IF pc = "get" THEN i ELSE 0

\* A list is allocated as long as ListDevices can return one; each exception
\* leaves one behind at most, and until the first one nothing else is left.
MemoryInv ==
  /\ pc \notin {"idle", "thrown"} => lists > 0
  /\ lists <= throws + IF pc = "idle" THEN 0 ELSE 1
  /\ owned + Pending <= copies
  /\ throws = 0 /\ pc # "thrown" => copies = owned + Pending

IInv ==
  /\ TypeOK
  /\ NothingHeldBetweenScans
  /\ ListedWereRead
  /\ LoopInv
  /\ VerdictInv
  /\ MemoryInv

-----------------------------------------------------------------------------
\* Before the first ListDevices nothing is read, held or owned.
LEMMA InitIInv == Init => IInv
<1> SUFFICES ASSUME Init PROVE IInv
  OBVIOUS
<1> USE DeviceListAssumption DEF Init
<1>1. TypeOK
  <2>1. NoSlots \in [Slots -> {"empty", "AVAIL", "INUSE"}]
    BY DEF NoSlots
  <2>2. NoneListed \in [Slots -> {"none", "empty", "AVAIL", "INUSE"}]
    BY DEF NoneListed
  <2>3. 0 \in 0 .. MaxAttached /\ 0 \in 0 .. MaxDevices
    OBVIOUS
  <2>. QED
    BY <2>1, <2>2, <2>3 DEF TypeOK, Errors
<1>2. NothingHeldBetweenScans /\ ListedWereRead
  BY DEF NothingHeldBetweenScans, ListedWereRead, NoneListed
<1>3. LoopInv /\ VerdictInv
  BY DEF LoopInv, VerdictInv
<1>4. MemoryInv
  BY DEF MemoryInv, Pending
<1>. QED
  BY <1>1, <1>2, <1>3, <1>4 DEF IInv

\* Every step stays within the bounds of the list and of the loops.
LEMMA TypeStep == ASSUME IInv, [Next]_vars PROVE TypeOK'
<1> USE DeviceListAssumption
        DEF IInv, TypeOK, Errors, Goto, world, memory, scan, NoSlots, NoneListed
<1>1. CASE Elsewhere
  BY <1>1 DEF Elsewhere
<1>2. CASE BeginList
  BY <1>2 DEF BeginList, Slots
<1>3. CASE GetDevices
  BY <1>3 DEF GetDevices
<1>4. CASE ReadDevice
  <2>1. i \in Slots /\ i + 1 \in 0 .. MaxDevices
    BY <1>4 DEF ReadDevice, MoreRoom, Slots
  <2>2. slot' \in [Slots -> {"empty", "AVAIL", "INUSE"}]
    BY <1>4, <2>1 DEF ReadDevice
  <2>. QED
    BY <1>4, <2>1, <2>2 DEF ReadDevice, ReadErrorPassedOn
<1>5. CASE CloseProbe
  <2>1. i \in Slots /\ i + 1 \in 0 .. MaxDevices
    BY <1>5 DEF CloseProbe, LoopInv, Slots
  <2>2. slot' \in [Slots -> {"empty", "AVAIL", "INUSE"}]
    BY <1>5, <2>1 DEF CloseProbe
  <2>. QED
    BY <1>5, <2>1, <2>2 DEF CloseProbe, ProbeClosed
<1>6. CASE EnumEnds
  BY <1>6 DEF EnumEnds, Found, MoreRoom
<1>7. CASE Destroy
  BY <1>7 DEF Destroy
<1>8. CASE BeginGet
  BY <1>8 DEF BeginGet
<1>9. CASE GetDevice
  <2>1. slot[i] \in {"empty", "AVAIL", "INUSE"}
    BY <1>9 DEF GetDevice, Slots
  <2>. QED
    BY <1>9, <2>1 DEF GetDevice
<1>10. CASE EndList
  BY <1>10 DEF EndList, ListFreed, MemoryInv
<1>11. CASE Caught
  BY <1>11 DEF Caught
<1>12. CASE DisposeOne
  BY <1>12 DEF DisposeOne, MemoryInv, Pending
<1>13. CASE UNCHANGED vars
  BY <1>13 DEF vars
<1>. QED
  BY <1>1, <1>2, <1>3, <1>4, <1>5, <1>6, <1>7, <1>8, <1>9, <1>10, <1>11, <1>12,
     <1>13 DEF Next, Scan, Get

\* A device stays open, and SetupDi's list held, only inside the loop.
LEMMA HeldStep == ASSUME IInv, [Next]_vars PROVE NothingHeldBetweenScans'
<1> USE DEF IInv, NothingHeldBetweenScans, Goto, world, memory, scan
<1>1. CASE Elsewhere
  BY <1>1 DEF Elsewhere
<1>2. CASE BeginList
  BY <1>2 DEF BeginList
<1>3. CASE GetDevices
  BY <1>3 DEF GetDevices
<1>4. CASE ReadDevice
  BY <1>4 DEF ReadDevice
<1>5. CASE CloseProbe
  BY <1>5 DEF CloseProbe, ProbeClosed
<1>6. CASE EnumEnds
  BY <1>6 DEF EnumEnds
<1>7. CASE Destroy
  BY <1>7 DEF Destroy
<1>8. CASE BeginGet
  BY <1>8 DEF BeginGet
<1>9. CASE GetDevice
  BY <1>9 DEF GetDevice
<1>10. CASE EndList
  BY <1>10 DEF EndList
<1>11. CASE Caught
  BY <1>11 DEF Caught
<1>12. CASE DisposeOne
  BY <1>12 DEF DisposeOne
<1>13. CASE UNCHANGED vars
  BY <1>13 DEF vars
<1>. QED
  BY <1>1, <1>2, <1>3, <1>4, <1>5, <1>6, <1>7, <1>8, <1>9, <1>10, <1>11, <1>12,
     <1>13 DEF Next, Scan, Get

\* The loop fills slots one after the other while the result is still empty.
LEMMA LoopStep == ASSUME IInv, [Next]_vars PROVE LoopInv'
<1> USE DeviceListAssumption
        DEF IInv, TypeOK, LoopInv, FilledBelow, Goto, world, memory, scan, Slots
<1>1. CASE Elsewhere
  BY <1>1 DEF Elsewhere
<1>2. CASE BeginList
  BY <1>2 DEF BeginList
<1>3. CASE GetDevices
  BY <1>3 DEF GetDevices
<1>4. CASE ReadDevice
  BY <1>4 DEF ReadDevice, MoreRoom
<1>5. CASE CloseProbe
  BY <1>5 DEF CloseProbe
<1>6. CASE EnumEnds
  BY <1>6 DEF EnumEnds
<1>7. CASE Destroy
  BY <1>7 DEF Destroy, ScanSucceeded, VerdictInv
<1>8. CASE BeginGet
  BY <1>8 DEF BeginGet
<1>9. CASE GetDevice
  BY <1>9 DEF GetDevice
<1>10. CASE EndList
  BY <1>10 DEF EndList
<1>11. CASE Caught
  BY <1>11 DEF Caught
<1>12. CASE DisposeOne
  BY <1>12 DEF DisposeOne
<1>13. CASE UNCHANGED vars
  BY <1>13 DEF vars
<1>. QED
  BY <1>1, <1>2, <1>3, <1>4, <1>5, <1>6, <1>7, <1>8, <1>9, <1>10, <1>11, <1>12,
     <1>13 DEF Next, Scan, Get

\* The loop ends with a reason, or with all devices counted, or with no room.
LEMMA VerdictStep == ASSUME IInv, [Next]_vars PROVE VerdictInv'
<1> USE DeviceListAssumption
        DEF IInv, TypeOK, VerdictInv, MoreRoom, Goto, world, memory, scan
<1>1. CASE Elsewhere
  BY <1>1 DEF Elsewhere
<1>2. CASE BeginList
  BY <1>2 DEF BeginList
<1>3. CASE GetDevices
  BY <1>3 DEF GetDevices
<1>4. CASE ReadDevice
  BY <1>4 DEF ReadDevice, ReadErrorPassedOn
<1>5. CASE CloseProbe
  BY <1>5 DEF CloseProbe
<1>6. CASE EnumEnds
  BY <1>6 DEF EnumEnds, Found
<1>7. CASE Destroy
  BY <1>7 DEF Destroy
<1>8. CASE BeginGet
  BY <1>8 DEF BeginGet
<1>9. CASE GetDevice
  BY <1>9 DEF GetDevice
<1>10. CASE EndList
  BY <1>10 DEF EndList
<1>11. CASE Caught
  BY <1>11 DEF Caught
<1>12. CASE DisposeOne
  BY <1>12 DEF DisposeOne
<1>13. CASE UNCHANGED vars
  BY <1>13 DEF vars
<1>. QED
  BY <1>1, <1>2, <1>3, <1>4, <1>5, <1>6, <1>7, <1>8, <1>9, <1>10, <1>11, <1>12,
     <1>13 DEF Next, Scan, Get

\* The result is made from the slots below numDevices, which keep their contents.
LEMMA ListedStep == ASSUME IInv, [Next]_vars PROVE ListedWereRead'
<1> USE DeviceListAssumption
        DEF IInv, TypeOK, ListedWereRead, LoopInv, FilledBelow, NoneListed, Goto,
            world, memory, scan, Slots
<1>1. CASE Elsewhere
  BY <1>1 DEF Elsewhere
<1>2. CASE BeginList
  BY <1>2 DEF BeginList
<1>3. CASE GetDevices
  BY <1>3 DEF GetDevices
<1>4. CASE ReadDevice
  BY <1>4 DEF ReadDevice
<1>5. CASE CloseProbe
  BY <1>5 DEF CloseProbe
<1>6. CASE EnumEnds
  BY <1>6 DEF EnumEnds
<1>7. CASE Destroy
  BY <1>7 DEF Destroy
<1>8. CASE BeginGet
  BY <1>8 DEF BeginGet
<1>9. CASE GetDevice
  BY <1>9 DEF GetDevice
<1>10. CASE EndList
  BY <1>10 DEF EndList
<1>11. CASE Caught
  BY <1>11 DEF Caught
<1>12. CASE DisposeOne
  BY <1>12 DEF DisposeOne
<1>13. CASE UNCHANGED vars
  BY <1>13 DEF vars
<1>. QED
  BY <1>1, <1>2, <1>3, <1>4, <1>5, <1>6, <1>7, <1>8, <1>9, <1>10, <1>11, <1>12,
     <1>13 DEF Next, Scan, Get

\* What is allocated is the application's, or ListDevices still has it in hand,
\* or an exception left it.
LEMMA MemoryStep == ASSUME IInv, [Next]_vars PROVE MemoryInv'
<1> USE DeviceListAssumption
        DEF IInv, TypeOK, MemoryInv, Pending, LoopInv, Goto, world, memory, scan
<1>1. CASE Elsewhere
  BY <1>1 DEF Elsewhere
<1>2. CASE BeginList
  BY <1>2 DEF BeginList
<1>3. CASE GetDevices
  BY <1>3 DEF GetDevices
<1>4. CASE ReadDevice
  BY <1>4 DEF ReadDevice
<1>5. CASE CloseProbe
  BY <1>5 DEF CloseProbe
<1>6. CASE EnumEnds
  BY <1>6 DEF EnumEnds
<1>7. CASE Destroy
  BY <1>7 DEF Destroy
<1>8. CASE BeginGet
  BY <1>8 DEF BeginGet
<1>9. CASE GetDevice
  BY <1>9 DEF GetDevice
<1>10. CASE EndList
  BY <1>10 DEF EndList, ListFreed
<1>11. CASE Caught
  BY <1>11 DEF Caught
<1>12. CASE DisposeOne
  BY <1>12 DEF DisposeOne
<1>13. CASE UNCHANGED vars
  BY <1>13 DEF vars
<1>. QED
  BY <1>1, <1>2, <1>3, <1>4, <1>5, <1>6, <1>7, <1>8, <1>9, <1>10, <1>11, <1>12,
     <1>13 DEF Next, Scan, Get

\* The six conjuncts of the invariant are kept together.
LEMMA NextIInv == IInv /\ [Next]_vars => IInv'
  BY TypeStep, HeldStep, ListedStep, LoopStep, VerdictStep, MemoryStep DEF IInv

\* The inductive invariant holds in every reachable state.
\* (Device.ListDevices, candle_list_scan)
THEOREM InductiveInvariant == Spec => []IInv
  BY InitIInv, NextIInv, PTL DEF Spec

-----------------------------------------------------------------------------
\* No index leaves the list and no count of allocations is ever negative: nothing
\* is freed twice.
\* (candle_list_scan, candle_list_free)
THEOREM TypeCorrect == Spec => []TypeOK
<1>1. IInv => TypeOK
  BY DEF IInv
<1>. QED
  BY <1>1, InductiveInvariant, PTL

\* Between two scans no device is open and SetupDi's list is destroyed.
\* (candle_list_scan, candle_read_di)
THEOREM NothingHeld == Spec => []NothingHeldBetweenScans
<1>1. IInv => NothingHeldBetweenScans
  BY DEF IInv
<1>. QED
  BY <1>1, InductiveInvariant, PTL

\* Every Device of a result is made from a slot the scan has filled.
\* (Device.ListDevices, candle_dev_get)
THEOREM ListedRead == Spec => []ListedWereRead
<1>1. IInv => ListedWereRead
  BY DEF IInv
<1>. QED
  BY <1>1, InductiveInvariant, PTL

\* A failed scan without a reason is one of a full list.
\* (candle_list_scan)
THEOREM FailuresExplained == Spec => []FailureExplained
<1>1. ASSUME IInv PROVE FailureExplained
  BY <1>1, DeviceListAssumption
     DEF IInv, TypeOK, LoopInv, FilledBelow, VerdictInv, FailureExplained,
         ScanSucceeded, MoreRoom, Slots
<1>. QED
  BY <1>1, InductiveInvariant, PTL

\* Native memory that no Device owns was left by an exception.
\* (Device.ListDevices)
THEOREM LeaksExplained == Spec => []LeaksNeedException
<1>1. ASSUME IInv PROVE LeaksNeedException
  BY <1>1 DEF IInv, TypeOK, MemoryInv, Pending, LeaksNeedException
<1>. QED
  BY <1>1, InductiveInvariant, PTL
=============================================================================
