----------------------------- MODULE DeviceList -----------------------------
(***************************************************************************)
(* Device.ListDevices and the candle_list_* and candle_dev_get functions   *)
(* it calls: the scan of the attached devices, each opened for a moment to *)
(* see whether it is available, and the copies that Device objects own.    *)
(*                                                                         *)
(* The scan sees a snapshot of the attached devices; meanwhile other       *)
(* processes open, close and unplug them.                                  *)
(***************************************************************************)
EXTENDS Naturals, FiniteSets

CONSTANTS
  MaxDevices,   \* CANDLE_MAX_DEVICES (32)
  MaxAttached,  \* bound: the devices in a snapshot
  MaxCopies     \* bound: no new ListDevices with this many copies or exceptions

ASSUME DeviceListAssumption ==
  MaxDevices \in Nat /\ MaxAttached \in Nat /\ MaxCopies \in Nat

Slots == 0 .. MaxDevices - 1

VARIABLES
  attached,  \* the devices in the snapshot
  busy,      \* those that cannot be opened: in use elsewhere, or unplugged
  pc,        \* where ListDevices is
  i,         \* the index of the loop it is in
  hdi,       \* SetupDi's list of devices is held
  lists,     \* the number of candle_list_t allocated
  numDevices,\* num_devices of the one in use
  listError, \* its last_error
  slot,      \* its dev[]: "empty", "AVAIL" or "INUSE"
  probe,     \* a device is held open by candle_read_di
  copies,    \* the number of candle_device_t allocated by candle_dev_get
  listed,    \* the states of the devices in the result
  owned,     \* the number of copies that belong to a Device the application has
  throws     \* the number of exceptions out of ListDevices

world == <<attached, busy>>
memory == <<lists, copies, owned, throws>>
scan == <<hdi, numDevices, listError, slot, probe>>
vars == <<world, pc, i, memory, scan, listed>>

Errors == {"OK", "CLSID", "GET_DEVICES", "IF_ENUM", "READ_DI", "MALLOC"}

TypeOK ==
  /\ attached \in 0 .. MaxAttached
  /\ busy \subseteq 0 .. MaxAttached - 1
  /\ pc \in {"idle", "scan", "enum", "probe", "destroy", "scanned", "get",
             "thrown"}
  /\ i \in 0 .. MaxDevices
  /\ hdi \in BOOLEAN /\ probe \in BOOLEAN
  /\ lists \in Nat
  /\ numDevices \in 0 .. MaxDevices
  /\ listError \in Errors
  /\ slot \in [Slots -> {"empty", "AVAIL", "INUSE"}]
  /\ copies \in Nat /\ owned \in Nat /\ throws \in Nat
  /\ listed \in [Slots -> {"none", "empty", "AVAIL", "INUSE"}]

NoSlots == [s \in Slots |-> "empty"]
NoneListed == [s \in Slots |-> "none"]

Init ==
  /\ attached = 0 /\ busy = {}
  /\ pc = "idle" /\ i = 0
  /\ hdi = FALSE /\ probe = FALSE
  /\ lists = 0 /\ numDevices = 0 /\ listError = "OK" /\ slot = NoSlots
  /\ copies = 0 /\ listed = NoneListed /\ owned = 0 /\ throws = 0

Goto(from, to) == pc = from /\ pc' = to

\* A device is opened or given back by somebody else, or unplugged.
Elsewhere ==
  /\ \E d \in 0 .. MaxAttached - 1 :
       busy' \in {busy \cup {d}, busy \ {d}}
  /\ UNCHANGED <<attached, pc, i, memory, scan, listed>>

-----------------------------------------------------------------------------
(* candle_list_scan.                                                       *)

\* ListDevices begins; the list is allocated, all zero.
BeginList ==
  /\ copies < MaxCopies /\ throws < MaxCopies
  /\ listed' = NoneListed /\ i' = 0
  /\ \/ /\ Goto("idle", "scan")
        /\ lists' = lists + 1
        /\ numDevices' = 0 /\ listError' = "OK" /\ slot' = NoSlots
     \/ /\ Goto("idle", "thrown")
        /\ UNCHANGED <<lists, numDevices, listError, slot>>
  /\ UNCHANGED <<world, hdi, probe, copies, owned, throws>>

\* CLSIDFromString and SetupDiGetClassDevs.
GetDevices ==
  /\ \/ /\ Goto("scan", "enum")
        /\ hdi' = TRUE
        /\ attached' \in 0 .. MaxAttached
        /\ UNCHANGED listError
     \/ /\ Goto("scan", "thrown")
        /\ listError' \in {"CLSID", "GET_DEVICES"}
        /\ UNCHANGED <<hdi, attached>>
  /\ UNCHANGED <<busy, i, memory, numDevices, slot, probe, listed>>

\* Mutant: i <= CANDLE_MAX_DEVICES.
MoreRoomOneTooMany == i <= MaxDevices

\* for (unsigned i = 0; i<CANDLE_MAX_DEVICES; i++)
MoreRoom == i < MaxDevices

\* Mutant: the error of the device stays in the device.
ReadErrorKept == UNCHANGED listError

\* l->last_error = l->dev[i].last_error
ReadErrorPassedOn == listError' = "READ_DI"

\* candle_read_di, to the end of candle_dev_interal_open: an AVAIL device is now
\* open.  Its own failures (details, path length, memory) break the loop.
ReadDevice ==
  /\ MoreRoom /\ i < attached
  /\ \/ /\ i \notin busy
        /\ Goto("enum", "probe")
        /\ probe' = TRUE
        /\ UNCHANGED <<i, listError, slot>>
     \/ /\ Goto("enum", "enum")    \* busy, or interal_open failed on the way
        /\ slot' = [slot EXCEPT ![i] = "INUSE"]
        /\ i' = i + 1
        /\ UNCHANGED <<listError, probe>>
     \/ /\ Goto("enum", "destroy")
        /\ ReadErrorPassedOn
        /\ UNCHANGED <<i, slot, probe>>
  /\ UNCHANGED <<world, memory, hdi, numDevices, listed>>

\* Mutant: the device stays open.
ProbeLeftOpen == UNCHANGED probe

\* candle_dev_close
ProbeClosed == probe' = FALSE

\* The device is available; the next one.
CloseProbe ==
  /\ Goto("probe", "enum")
  /\ slot' = [slot EXCEPT ![i] = "AVAIL"]
  /\ ProbeClosed
  /\ i' = i + 1
  /\ UNCHANGED <<world, memory, hdi, numDevices, listError, listed>>

\* Mutant: one too many.
FoundOneMore == i + 1

\* l->num_devices = i
Found == i

\* No more devices, an enumeration that fails, or no more room: after the
\* MaxDevices-th device the loop ends with rv still false.
EnumEnds ==
  /\ Goto("enum", "destroy")
  /\ \/ ~MoreRoom /\ UNCHANGED <<numDevices, listError>>
     \/ /\ MoreRoom /\ i >= attached
        /\ numDevices' = Found /\ listError' = "OK"
     \/ /\ MoreRoom
        /\ listError' = "IF_ENUM" /\ UNCHANGED numDevices
  /\ UNCHANGED <<world, memory, i, hdi, slot, probe, listed>>

\* rv: only the end of the devices makes the scan succeed.
ScanSucceeded == MoreRoom /\ i >= attached /\ listError = "OK"

\* SetupDiDestroyDeviceInfoList; ListDevices throws when rv is false.
Destroy ==
  /\ Goto("destroy", IF ScanSucceeded THEN "scanned" ELSE "thrown")
  /\ hdi' = FALSE
  /\ UNCHANGED <<world, memory, i, numDevices, listError, slot, probe, listed>>

-----------------------------------------------------------------------------
(* The rest of ListDevices.                                                *)

BeginGet ==
  /\ Goto("scanned", "get")
  /\ i' = 0
  /\ UNCHANGED <<world, memory, scan, listed>>

\* candle_dev_get(list, i): a copy of the slot, in a new Device.
GetDevice ==
  /\ i < numDevices
  /\ \/ /\ Goto("get", "get")
        /\ copies' = copies + 1
        /\ listed' = [listed EXCEPT ![i] = slot[i]]
        /\ listError' = "OK"
        /\ i' = i + 1
     \/ /\ Goto("get", "thrown")
        /\ listError' = "MALLOC"
        /\ UNCHANGED <<copies, listed, i>>
  /\ UNCHANGED <<world, lists, owned, throws, hdi, numDevices, slot, probe>>

\* Mutant: nobody frees the list.
ListKept == UNCHANGED lists

\* candle_list_free
ListFreed == lists' = lists - 1

\* The scan's list is freed; the application has the Devices.
EndList ==
  /\ Goto("get", "idle") /\ i = numDevices
  /\ ListFreed
  /\ owned' = owned + i
  /\ UNCHANGED <<world, i, scan, copies, listed, throws>>

\* The exception reaches the application, without the Devices made so far.
Caught ==
  /\ Goto("thrown", "idle")
  /\ throws' = throws + 1
  /\ UNCHANGED <<world, i, scan, lists, copies, owned, listed>>

\* Dispose of one of the Devices.
DisposeOne ==
  /\ owned > 0
  /\ owned' = owned - 1 /\ copies' = copies - 1
  /\ UNCHANGED <<world, pc, i, lists, scan, listed, throws>>

Scan == BeginList \/ GetDevices \/ ReadDevice \/ CloseProbe \/ EnumEnds \/ Destroy
Get == BeginGet \/ GetDevice \/ EndList \/ Caught

Next == Elsewhere \/ Scan \/ Get \/ DisposeOne

Spec == Init /\ [][Next]_vars

-----------------------------------------------------------------------------
(* Properties.                                                             *)

\* Between two scans nothing of the scan is held: a device found AVAIL has been
\* closed again, so that Open finds it as the scan did, and SetupDi's list is
\* destroyed on every way out of the loop.  (candle_read_di, candle_list_scan)
NothingHeldBetweenScans ==
  /\ hdi => pc \in {"enum", "probe", "destroy"}
  /\ probe => pc = "probe"

\* The Devices of the result are those the scan has read, in its order, and none
\* is made from a slot that it has not filled: candle_dev_get itself would copy
\* any of the MaxDevices slots.  (ListDevices, candle_dev_get)
ListedWereRead ==
  \A s \in Slots : listed[s] # "none" => listed[s] = slot[s] /\ slot[s] # "empty"

\* A scan that fails leaves a reason in last_error, except that exactly
\* MaxDevices or more attached devices make it fail with none.
\* (candle_list_scan, its loop bound and rv)
FailureExplained ==
  pc = "destroy" /\ ~ScanSucceeded /\ listError = "OK" =>
    attached >= MaxDevices /\ \A s \in Slots : slot[s] # "empty"

\* Native memory outlives a ListDevices only in the Devices it returned, or
\* because it threw.  (ListDevices: no finally around the loop)
LeaksNeedException ==
  pc = "idle" => lists <= throws /\ (throws = 0 => copies = owned)
=============================================================================
