---------------------------- MODULE NativeDevice ----------------------------
(***************************************************************************)
(* Candle/candle.c and candle_ctrl_req.c: the handles of one               *)
(* candle_device_t from its probe in candle_list_scan to candle_dev_free,  *)
(* and the requests made through them.                                     *)
(*                                                                         *)
(* The native library has no thread of its own, and module Device shows    *)
(* that its worker and its owner never call it at the same time: calls     *)
(* follow one another here.  Between two calls of one thread there may be  *)
(* calls of another: Channel.Start makes two.                              *)
(***************************************************************************)
EXTENDS Naturals, FiniteSets, BitTiming

CONSTANTS
  EventCount,  \* CANDLE_URB_COUNT (30)
  Starters,    \* the threads that call Channel.Start
  Bitrates,    \* the bit rates they ask for, supported or not
  Clocks,      \* the clocks that devices report
  NoTiming,    \* what the firmware has before it is given a timing
  MaxLeaks     \* bound: the opens that are refused a read

ASSUME NativeDeviceAssumption ==
  /\ EventCount \in Nat \ {0}
  /\ Bitrates \subseteq Nat \ {0} /\ Clocks \subseteq Nat \ {0}
  /\ NoTiming \notin Nat /\ MaxLeaks \in Nat

Slots == 0 .. EventCount - 1

VARIABLES
  pc,         \* the step of candle_dev_open, or "idle", or "freed"
  probing,    \* the call is that of candle_read_di
  opened,     \* the last candle_dev_open returned true and the device is not closed
  usb,        \* dev->winUSBHandle: "null", "open", or "freed" and still there
  files,      \* the file handles to the device that this process has open
  interfaces, \* the WinUSB handles that it has open
  leaks,      \* the calls of candle_dev_open that were refused a read
  blocked,    \* a handle that one of them left open keeps others out
  next,       \* candle_dev_open's i
  events,     \* dev->rxevents: of each slot "null", "open", or "closed" and still there
  twice,      \* a closed event has been closed again
  lastError,  \* dev->last_error
  clock,      \* dev->bt_const.fclk_can
  timing,     \* the bit rate of the timing that the firmware has
  running,    \* the bit rate at which the channel was started, 0 when it is stopped
  asked,      \* the bit rate its Channel.Start asked for, 0 when it was disturbed
  starting,   \* of each thread, the bit rate it has set in Channel.Start, 0 outside
  disturbed   \* the threads whose timing was replaced since they set it

handles == <<opened, usb, files, interfaces, leaks, blocked, next, events, twice>>
channel == <<timing, running, asked, starting, disturbed>>
vars == <<pc, probing, handles, lastError, clock, channel>>

OpenSteps == {"createFile", "initialize", "settings", "pipes", "rawIo", "hostFormat",
              "config", "capability"}

Errors == {"OK", "CREATE_FILE", "WINUSB_INITIALIZE", "QUERY_INTERFACE", "QUERY_PIPE",
           "PARSE_IF_DESCR", "SET_PIPE_RAW_IO", "SET_HOST_FORMAT", "GET_DEVICE_INFO",
           "GET_BITTIMING_CONST", "PREPARE_READ", "SET_DEVICE_MODE", "SET_BITTIMING",
           "BITRATE_FCLK", "BITRATE_UNSUPPORTED", "GET_TIMESTAMP"}

Rates == {Rate(TimingFor(b)) : b \in Bitrates \cap Supported} \cup {NoTiming}

TypeOK ==
  /\ pc \in OpenSteps \cup {"prepare", "idle", "freed"}
  /\ probing \in BOOLEAN /\ opened \in BOOLEAN /\ blocked \in BOOLEAN /\ twice \in BOOLEAN
  /\ usb \in {"null", "open", "freed"}
  /\ files \in 0 .. MaxLeaks + 1 /\ interfaces \in 0 .. MaxLeaks + 1
  /\ leaks \in 0 .. MaxLeaks
  /\ next \in Slots
  /\ events \in [Slots -> {"null", "open", "closed"}]
  /\ lastError \in Errors
  /\ clock \in Clocks \cup {0}
  /\ timing \in Rates /\ running \in Rates \cup {0}
  /\ asked \in Bitrates \cup {0}
  /\ starting \in [Starters -> Bitrates \cup {0}]
  /\ disturbed \subseteq Starters

\* candle_list_scan has cleared the structure and calls candle_read_di.
Init ==
  /\ pc = "createFile" /\ probing = TRUE /\ opened = FALSE
  /\ usb = "null" /\ files = 0 /\ interfaces = 0 /\ leaks = 0 /\ blocked = FALSE
  /\ next = 0 /\ events = [s \in Slots |-> "null"] /\ twice = FALSE
  /\ lastError = "OK" /\ clock = 0
  /\ timing = NoTiming /\ running = 0 /\ asked = 0
  /\ starting = [t \in Starters |-> 0] /\ disturbed = {}

-----------------------------------------------------------------------------
(* candle_dev_interal_open.                                                *)

\* Mutant: the memset of rxevents is left out.
EventsKept == UNCHANGED events

EventsCleared == events' = [s \in Slots |-> "null"]

\* candle_dev_open begins.  The device structure is in use until it is closed.
BeginOpen ==
  /\ pc = "idle" /\ ~opened
  /\ pc' = "createFile"
  /\ UNCHANGED <<probing, handles, lastError, clock, channel>>

\* candle_read_di takes a device that cannot be opened for one that is in use,
\* and clears the error; candle_dev_open keeps it.
Failed(error) ==
  /\ pc' = "idle" /\ probing' = FALSE
  /\ lastError' = IF probing THEN "OK" ELSE error
  /\ UNCHANGED <<opened, leaks, blocked, next, twice, clock, channel>>

CreateFile ==
  /\ pc = "createFile"
  /\ EventsCleared
  /\ \/ /\ pc' = "initialize"
        /\ files' = files + 1
        /\ UNCHANGED <<probing, opened, usb, interfaces, leaks, blocked, next, twice,
                       lastError, clock, channel>>
     \/ Failed("CREATE_FILE") /\ UNCHANGED <<usb, files, interfaces>>

\* A device has one WinUSB interface.  When WinUSB does not give it away, the
\* handle stays what it was or is cleared.
Initialize ==
  /\ pc = "initialize"
  /\ \/ /\ ~blocked
        /\ pc' = "settings"
        /\ usb' = "open" /\ interfaces' = interfaces + 1
        /\ UNCHANGED <<probing, opened, files, leaks, blocked, next, events, twice,
                       lastError, clock, channel>>
     \/ /\ Failed("WINUSB_INITIALIZE")
        /\ files' = files - 1
        /\ usb' \in {usb, "null"}
        /\ UNCHANGED <<interfaces, events>>

\* Mutant: goto close_handle.
CloseHandleOnly ==
  /\ files' = files - 1
  /\ UNCHANGED <<usb, interfaces, events>>

\* winusb_free and close_handle.  The handles keep their values.
WinUsbFree ==
  /\ files' = files - 1
  /\ usb' = "freed" /\ interfaces' = interfaces - 1
  /\ UNCHANGED events

\* A step that needs the interface: the device or WinUSB may refuse it.
Query(step, errors, after) ==
  /\ pc = step
  /\ \/ /\ pc' = after
        /\ UNCHANGED <<probing, handles, lastError, clock, channel>>
     \/ (\E error \in errors : Failed(error)) /\ WinUsbFree

\* One of the control requests of candle_ctrl_req.c.
ControlRequest(step, error, after) ==
  /\ pc = step
  /\ \/ /\ pc' = after /\ lastError' = "OK"
        /\ UNCHANGED <<probing, handles, clock, channel>>
     \/ Failed(error) /\ WinUsbFree

Queries ==
  \/ Query("settings", {"QUERY_INTERFACE"}, "pipes")
  \/ Query("pipes", {"QUERY_PIPE", "PARSE_IF_DESCR"}, "rawIo")
  \/ Query("rawIo", {"SET_PIPE_RAW_IO"}, "hostFormat")
  \/ ControlRequest("hostFormat", "SET_HOST_FORMAT", "config")
  \/ ControlRequest("config", "GET_DEVICE_INFO", "capability")

\* candle_close_rxurbs, with these events in rxevents.
CloseRxurbs(rxevents) ==
  /\ events' = [s \in Slots |-> IF rxevents[s] = "null" THEN "null" ELSE "closed"]
  /\ twice' = (twice \/ \E s \in Slots : rxevents[s] = "closed")

\* candle_dev_close, without what it leaves in last_error.
Closed ==
  /\ CloseRxurbs(events)
  /\ files' = files - 1
  /\ usb' = "null" /\ interfaces' = interfaces - 1

\* The last request, and what follows it: candle_read_di closes the device again,
\* candle_dev_open goes on.
Capability ==
  /\ pc = "capability"
  /\ \/ /\ clock' \in Clocks
        /\ lastError' = "OK"
        /\ \/ /\ probing
              /\ pc' = "idle" /\ probing' = FALSE
              /\ Closed
              /\ UNCHANGED next
           \/ /\ ~probing
              /\ pc' = "prepare" /\ next' = 0
              /\ UNCHANGED <<probing, usb, files, interfaces, events, twice>>
        /\ UNCHANGED <<opened, leaks, blocked, channel>>
     \/ Failed("GET_BITTIMING_CONST") /\ WinUsbFree

-----------------------------------------------------------------------------
(* candle_dev_open's reads.                                                *)

\* Mutant: the loop ends one turn too late.
LastSlotMissed(slot) == slot = EventCount

LastSlot(slot) == slot = EventCount - 1

\* CreateEvent may return NULL, and nobody looks: the open goes on with it, and every
\* wait on rxevents fails from then on.
WithEvent == {[events EXCEPT ![next] = event] : event \in {"open", "null"}}

\* Mutant: candle_dev_close instead of candle_close_rxurbs.
RefusedClosing ==
  /\ \E rxevents \in WithEvent : CloseRxurbs(rxevents)
  /\ files' = files - 1
  /\ usb' = "null" /\ interfaces' = interfaces - 1
  /\ lastError' = "OK"
  /\ UNCHANGED <<leaks, blocked>>

\* candle_close_rxurbs closes the events, and nothing closes the handles.
Refused ==
  /\ leaks < MaxLeaks
  /\ \E rxevents \in WithEvent : CloseRxurbs(rxevents)
  /\ leaks' = leaks + 1 /\ blocked' = TRUE
  /\ lastError' = "PREPARE_READ"
  /\ UNCHANGED <<usb, files, interfaces>>

\* One turn of candle_dev_open's loop.
Prepare ==
  /\ pc = "prepare"
  /\ \/ /\ events' \in WithEvent
        /\ lastError' = "OK"
        /\ IF LastSlot(next)
             THEN pc' = "idle" /\ opened' = TRUE /\ UNCHANGED next
             ELSE next' = next + 1 /\ UNCHANGED <<pc, opened>>
        /\ UNCHANGED <<usb, files, interfaces, leaks, blocked, twice>>
     \/ /\ Refused
        /\ pc' = "idle"
        /\ UNCHANGED <<opened, next>>
  /\ UNCHANGED <<probing, clock, channel>>

CloseDev ==
  /\ pc = "idle" /\ opened
  /\ Closed
  /\ opened' = FALSE /\ lastError' = "OK"
  /\ UNCHANGED <<pc, probing, leaks, blocked, next, clock, channel>>

\* candle_dev_free, after the Close of Device.Dispose.
FreeDev ==
  /\ pc = "idle" /\ ~opened
  /\ pc' = "freed"
  /\ UNCHANGED <<probing, handles, lastError, clock, channel>>

\* The device loses its power, or is plugged in again, and with it go the leaked
\* handle's claim and what the firmware was told.  (While the device is open its
\* requests fail from then on; the rest shows when it is opened again.)
PowerCycle ==
  /\ pc = "idle" /\ ~opened
  /\ blocked' = FALSE
  /\ timing' = NoTiming /\ running' = 0 /\ asked' = 0
  /\ disturbed' = {t \in Starters : starting[t] # 0}
  /\ UNCHANGED <<pc, probing, opened, usb, files, interfaces, leaks, next, events, twice,
                 lastError, clock, starting>>

-----------------------------------------------------------------------------
(* Requests.                                                               *)

\* candle_dev_get_timestamp_us, which Device.Timestamp also calls on a device that
\* is not open: WinUSB then refuses the handle, unless a refused read has left it
\* open.
Timestamp ==
  /\ pc = "idle"
  /\ \/ usb = "open" /\ (opened \/ blocked) /\ lastError' = "OK"
     \/ lastError' = "GET_TIMESTAMP"
  /\ UNCHANGED <<pc, probing, handles, clock, channel>>

\* The requests of a channel are queued, and so reach only an open device.
Request == pc = "idle" /\ opened /\ UNCHANGED <<pc, probing, handles, clock>>

\* candle_ctrl_set_bittiming succeeds with a timing of this bit rate.
TimingSet(rate) ==
  /\ timing' = rate
  /\ disturbed' = {u \in Starters : starting[u] # 0}
  /\ lastError' = "OK"
  /\ UNCHANGED <<running, asked>>

SetTiming ==
  /\ Request
  /\ \/ \E rate \in Rates \ {NoTiming} : TimingSet(rate)
     \/ lastError' = "SET_BITTIMING" /\ UNCHANGED <<timing, disturbed, running, asked>>
  /\ UNCHANGED starting

\* candle_channel_set_bitrate, the first request of Channel.Start.
SetBitrate(t, bitrate) ==
  /\ Request
  /\ starting[t] = 0
  /\ \/ /\ clock # BaseClock
        /\ lastError' = "BITRATE_FCLK"
        /\ UNCHANGED channel
     \/ /\ clock = BaseClock /\ bitrate \notin Supported
        /\ lastError' = "BITRATE_UNSUPPORTED"
        /\ UNCHANGED channel
     \/ /\ clock = BaseClock /\ bitrate \in Supported
        /\ \/ /\ TimingSet(Rate(TimingFor(bitrate)))
              /\ starting' = [starting EXCEPT ![t] = bitrate]
           \/ lastError' = "SET_BITTIMING" /\ UNCHANGED channel

\* candle_channel_start, its second.
StartChannel(t) ==
  /\ Request
  /\ starting[t] # 0
  /\ \/ /\ lastError' = "OK"
        /\ running' = timing
        /\ asked' = IF t \in disturbed THEN 0 ELSE starting[t]
     \/ lastError' = "SET_DEVICE_MODE" /\ UNCHANGED <<running, asked>>
  /\ starting' = [starting EXCEPT ![t] = 0]
  /\ disturbed' = disturbed \ {t}
  /\ UNCHANGED timing

\* The device was closed in between: there is no action queue for the second one.
StartAbandoned(t) ==
  /\ pc = "idle" /\ ~opened
  /\ starting[t] # 0
  /\ starting' = [starting EXCEPT ![t] = 0]
  /\ disturbed' = disturbed \ {t}
  /\ UNCHANGED <<pc, probing, handles, lastError, clock, timing, running, asked>>

\* candle_channel_stop.
StopChannel ==
  /\ Request
  /\ \/ lastError' = "OK" /\ running' = 0 /\ asked' = 0
     \/ lastError' = "SET_DEVICE_MODE" /\ UNCHANGED <<running, asked>>
  /\ UNCHANGED <<timing, starting, disturbed>>

Opening == CreateFile \/ Initialize \/ Queries \/ Capability \/ Prepare

Requests ==
  \/ Timestamp \/ SetTiming \/ StopChannel
  \/ \E t \in Starters :
       \/ \E b \in Bitrates : SetBitrate(t, b)
       \/ StartChannel(t) \/ StartAbandoned(t)

Next == BeginOpen \/ Opening \/ CloseDev \/ FreeDev \/ PowerCycle \/ Requests

Spec == Init /\ [][Next]_vars

-----------------------------------------------------------------------------
(* Properties.                                                             *)

Count(b) == IF b THEN 1 ELSE 0

\* Between calls, an open device holds one file handle and one WinUSB handle and
\* the events it was given, none of them closed, and any other holds none: whichever
\* step of whichever open failed, nothing is left behind but by the opens that were
\* refused a read, one pair of handles each.
\* (winusb_free, close_handle, candle_close_rxurbs, candle_dev_close)
HandlesHeld ==
  pc \in {"idle", "freed"} =>
    /\ files = leaks + Count(opened)
    /\ interfaces = leaks + Count(opened)
    /\ \A s \in Slots : events[s] # IF opened THEN "closed" ELSE "open"

\* No event is closed twice, although closed ones stay in rxevents: between two
\* calls of candle_close_rxurbs there is always the memset of the next open.
EventsClosedOnce == ~twice

\* After candle_dev_open, last_error is OK when the device is open, and
\* PREPARE_READ when the call left handles behind: the error outlives what is
\* cleaned up.  ("keep last_error" in candle_dev_open)
OpenReports ==
  [][Opening /\ pc' = "idle" /\ ~probing =>
       /\ (lastError' = "OK" <=> opened')
       /\ (lastError' = "PREPARE_READ" <=> leaks' > leaks)]_vars

\* A channel runs at the bit rate that its Channel.Start asked for, unless another
\* thread set a timing, or the device lost its own, between the two requests.
\* (candle_channel_set_bitrate's table, and Channel.Start's SetBitrate throwing)
RunsAtAskedRate == asked # 0 => running = asked
=============================================================================
