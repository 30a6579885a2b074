# A verification development for Candle.NET

TLA+ modules that model Candle.NET (`src/`), TLC runs that check them on small
instances, and theorems about them that TLAPS proves for every value of the
constants. Candle.NET is a .NET wrapper around a C library that talks to
candleLight USB/CAN adapters through WinUSB.

`PROJECT.json` lists components, runs, mutants (a plausible bug for each property,
which the run must find), the source lines of every definition, hazards and theorems.

## 1. Inventory

```
 application threads                         worker thread (ThreadedUpdate)
   Device.Open/Close/Dispose                   loop: frame_read -> Channel.FRxQueue
   Channel.Send/Start/...   --- FActionQueue -->     take and perform a batch of actions
   ReceiveErrors            <-- FExceptionQueue --   catch -> FExceptionQueue
   Channel.Receive/Update   <-- FRxQueue, counters
                                                   |
                       candle.c: candle_frame_send | candle_frame_read
                                 30 URBs, each an overlapped read and an event
                                                   |
                       WinUSB, firmware: buffers, echoes, frames of the bus
```

| Component | State | Operations | What is hard | What makes it correct |
|---|---|---|---|---|
| **Device** (`Candle.NET/Device.cs`) | `FThread`, `FIsClosing`, `FActionQueue`, `FExceptionQueue`, native handle | Open, Close, Dispose, Perform, PerformBlocking, PerformInRightThread, BlockUntilActionsComplete, properties, ReceiveErrors, NotifyError; ThreadedUpdate | no lock but the two collections; Close runs partly in the worker; calls overtaken by Close; exceptions in the worker | one user of the native handle at a time; actions in order, once; a blocked caller is released by its own action; Open and Close return unless the bus floods the flush or every pass; batches are bounded |
| **Receive ring** (`Candle/candle.c`) | 30 URBs, their events and buffers, `last_error` | dev_open, prepare_read, frame_read, dev_close | reads complete at any time; bad transfers; a replacement read that is refused; half-done open | a buffer has one read at a time; a frame is returned at most once; a frame that was read is lost only by a call that reports PREPARE_READ |
| **Send flow** (Device, candle.c and firmware together) | queued sends, frames in the device, echoes in URBs | Send, a worker pass | bounded buffers on two sides, one read per pass | failures only on overrun; echoes are drained |
| **Device list** (`ListDevices`, `candle_list_*`, `candle_read_di`, `candle_dev_get`) | the list, its slots, copies owned by Devices, the probe's handle | ListDevices, Dispose | the scan opens every device for a moment; failures at every step; a fixed number of slots | nothing stays open or allocated; only slots that were read are listed; failures have a reason |
| **Native device** (`Candle/candle.c`, `candle_ctrl_req.c`) | file and WinUSB handles, events, `last_error`, the clock and the timing of the channel | candle_read_di's probe, dev_open, dev_close, dev_free, channel_set_timing, set_bitrate, start, stop, timestamp | eight steps that may fail, with two labels to clean up; values that stay behind in the structure; requests of several threads | no handle is left but by refused reads; no event closed twice; the error is that of the step that failed; a channel runs at the rate it was asked for |
| **Bit timing** (`candle_channel_set_bitrate`) | none | ten bit rates to divisors and segments | a table by hand | every row gives its bit rate |
| **Channel** (`Candle.NET/Channel.cs`) | `FRxQueue`, bit counters, `FCounterLastTime`, rates | Send, NotifyReceive, Receive, IncrementTx/Rx, Start, Update | counters shared without a lock; the wrong part of a time span; Update before Start; stale objects after a new Open | frames come out once, in order and as they were sent; the rates count every bit once |
| **Frame conversion** (`Frame.cs`, Device.cs 321-333 and 370-389) | none | managed frame to native and back, LengthOnBus | flags in the identifier, data above 8 bytes, echoes taken for frames | a frame that fits comes back unchanged |
| P/Invoke declarations, test applications, build files | none | | | not modelled |

The hazards, each at its line with the properties that watch it, are in
`PROJECT.json`. The ones that shaped the modules:

* `PerformBlocking` waits without limit for an action that a Close of another
  thread may have dropped (`Device.cs:294`);
* Open throws frames away until a read returns none, which a busy bus may put off
  for ever (`Device.cs:102`);
* the worker's `catch` adds to a collection that Close may have completed
  (`Device.cs:365`): nothing catches that exception;
* a frame that cannot be converted skips the actions of its pass (`Device.cs:341`);
* the batch limit counts with a post-increment and one read per pass returns one
  URB (`Device.cs:316`, `355`);
* `candle_frame_read` submits the consumed URB again before it returns, and what
  that returns is the result of the read (`candle.c:546`);
* a read that WinUSB has completed at once is taken for a failure (`candle.c:305`);
* the lowest signalled event goes first (`candle.c:514`);
* a half-done `candle_dev_open` leaves a WinUSB handle open (`candle.c:335`);
* 32 or more devices make the scan fail with `last_error` OK (`candle.c:104`);
* the rates divide by the millisecond part of the time span (`Channel.cs:85`), and
  the counters they are made of are changed by two threads (`Channel.cs:138`);
* Channel.Start is two requests with a gap between them (`Channel.cs:67`).

## 2. Modules

### Device, with ActionQueue, DeviceRefinement, DeviceInvariant, their proofs, MCDevice

`Device` has one action for each step that another thread can observe: the worker's
`wpc` goes through ThreadedUpdate (`loop`, `read`, `take`, `act`, `caught`, then
`exited` or `crashed`), and `pc[t]` of an application thread through the call it is in.

| TLA+ | Code |
|---|---|
| `fThread`, `isClosing` | `FThread != null` (`IsOpen`), `FIsClosing` |
| `actionMode`, `actionQueue` | `FActionQueue`: null or disposed, adding, completed; its contents |
| `errorMode`, `errors` | `FExceptionQueue`, its Count |
| `native` | the native device: closed, open, freed |
| `current`, `count`, `sendRun` | the action taken, the local `count`, sends since the last frame_read |
| `call`, `returnEvent` | the action a thread is passing, the `ManualResetEvent` of its PerformBlocking with the outcome |
| `LoopTest` ... `Catch` | ThreadedUpdate, 301-368 |
| `BeginCall`, `Inline`, `Add`, `Return` | PerformInRightThread, Perform, PerformBlocking |
| `BeginClose` ... `Free` | Close, and Open and Dispose, which begin with Close |
| `FlushFrame`, `FlushAgain`, `FlushEnd` | Open's flush, 102-105, after the queues have been created |

Actions of the queue are told apart by what matters to the Device: a send (the only
one that may be non-blocking), a native request that needs the device, a query that
may not need it, an action that cannot fail, and the close action. Whether a native
call succeeds is a choice, except that it fails on a closed device. One application
thread, `Owner`, calls Open, Close and Dispose; any number of others, `Clients`, send,
query and read errors. (Two threads closing at the same time is something the code
makes no provision for; it is not modelled.) A frame that a Channel has taken has no
further effect on the Device. A worker that runs an action which calls back into the
Device is not modelled: no action of the library does.

`ActionQueue` is the promise, without threads: pending actions are performed in order
and once, a waiting thread is released after its action, and actions are dropped only
behind a Close and never for the thread that closes. `DeviceRefinement` maps Device to
it: the action that the worker has taken and not performed is still pending.

`DeviceInvariant` is the inductive invariant `IInv`, `DeviceProofs` and
`DeviceRefinementProofs` the proofs.

### RxRing

The URBs of candle.c: for each, whether it is submitted, the transfer in its buffer,
and the transfer whose timestamp is in its buffer. `Complete` is WinUSB and the device
(external): submitted reads complete in order, with a frame, with a frame that lacks
its timestamp, with fewer bytes than that, or as a failed transfer (one that is not a
full frame leaves the timestamp in the buffer alone).

`candle_frame_read` is two steps, and reads complete between them as well: the wait
reports a URB (`Take`, which puts it into `taken`), and the call ends with a bad
transfer (`ReadBad`) or with a frame (`ReadFrame`); each of the two submits the URB
again. That new read is pending (`Submitted`), or it is not (`NotPending`):
WinUSB has refused it, with or without a reset of the event, or has completed it at
once, so that the buffer has a new transfer already. `candle_prepare_read` returns
false for both.

`dev = "leaked"` is the half-done open, whose handle makes every later open fail.
Closing an event that is waited for does not arise: Close runs in the thread that
reads. The events are taken to have been created; NativeDevice has those that were not.

### SendFlow

The balance between the worker's passes and the buffers below: how many frames are
queued, in the device, in URBs, and received. `Echo` is the firmware (external).
The bus has any speed: an echo may come at once, or when the worker has made many
passes that found nothing to read. The buffers of the device (64 frames) are
inferred from the 94 sends of `README.md:19` and `NativeTest.cpp:46` and the 30 URBs;
the firmware is not in the repository.
Refused sends are either reported (an exception that ends the batch) or not
(`README.md:19`).

### DeviceList

`ListDevices` through `candle_list_scan`, `candle_read_di` (with the device it opens to
see whether it is available), `candle_dev_get` and `candle_list_free`. The attached
devices are a snapshot (SetupDi's), while `busy` changes at any time. Memory is
counted: lists, copies, and the copies that a Device of the application owns.

### NativeDevice, with BitTiming

One `candle_device_t` from the probe of `candle_list_scan` to `candle_dev_free`. `pc`
goes through the steps of `candle_dev_interal_open`, each of which may fail, and through
the reads of `candle_dev_open`. `files` and `interfaces` count what Windows has open for
this process; `usb` and `events` are what the structure says, which is not the same:
after a failed open `winUSBHandle` is `"freed"`, after `candle_close_rxurbs` the events
are `"closed"`, and both are still there. Nothing looks at what CreateEvent returns, so
an event of an open device may also be `"null"`; every wait then fails. `leaks` counts
the opens that were refused a read; while the device keeps its power such a handle keeps
the next `WinUsb_Initialize` out (`blocked`).

The firmware (external) keeps the last timing it was given and uses it at the start
of the channel. `starting[t]` is a thread between the two requests of Channel.Start;
`disturbed` has the threads whose timing was replaced in between. Native calls follow
one another, which is what `HandleHandoff` of Device shows for the owner and the
worker; a request on a handle that WinUSB has freed is taken to fail.

`BitTiming` is the table with its real values, and the bit rate that a CAN controller
makes of a timing (external).

### Channel, with FrameCodec and MCChannel

`FrameCodec` converts a frame to `can_id` and length and back; `IdLimit` stands for the
2^29 identifiers, and the three flags are its multiples as in the code, so that an
identifier that is too large sets flags in the model as it does there.

`Channel` has the worker, which sends, receives and counts, and one application thread.
`+=` on a counter is a read (in the step that begins the count: nothing else of the
worker lies between) and a write. Update is six steps: the look at the clock, the two
rates, `FCounterLastTime`, the two resets. Time is a number of milliseconds, of which
`SecondMs` make a second. `since`, `began` and `raced` are history: the bits counted
since Update or Start last looked, from when, and whether an increment fell between that
look and the reset. `ideal` is the rate that follows from them. What was sent comes back
as an echo, the only source of frames: one from another node goes the same way. The
clock only goes forward, which `DateTime.Now` need not do: a clock that is set back is
not modelled.

### DeviceRx

Device and RxRing together, by INSTANCE, with no state of its own.
`candle_dev_open` is several joint steps, inside Device's `NativeOpen`. The flush of
Open is in the owner's thread: each of its reads is `FlushTake` and `FlushRead`, and it
goes on while they return a frame. The worker's `Receive` is one `candle_frame_read`,
`WorkerTake` and `WorkerRead`, whose failure Device.cs ignores. The close action is
`candle_dev_close`. `Transfer`, the device, may come anywhere. That the two layers
can always take their steps together is checked as the absence of deadlock.

## 3. Runs

| Run | Instance | Shows |
|---|---|---|
| `device_clients` | owner, 2 clients, queue bound 1, batch limit 0 | all safety properties of Device, and `IInv` |
| `device_single` | owner alone, queue bound 4 | no deadlock, no crash, `ImplementsActionQueue` |
| `device_live` | owner, 1 client, queue bound 2 | calls of the owner return whatever the client does, but for two kinds of bus (Fairness); `ImplementsActionQueue` |
| `device_barrier` | as above | finding: `BarrierReturns` is violated |
| `rx_ring` | 3 URBs, 5 transfers per open | the properties of RxRing |
| `send_flow` | 2 URBs, 3 buffers, batch limit 1, 12 sends | the properties of SendFlow |
| `send_overrun` | as above | finding: `ReadsKeepUp` is violated |
| `device_list` | 2 slots, up to 3 devices, 3 copies or exceptions | the properties of DeviceList |
| `native_device` | 3 events, 2 starting threads, 3 supported bit rates and another, 2 clocks, 2 leaks | the properties of NativeDevice |
| `channel` | 4 identifiers, 5 kinds of frames, 2 sends, 3 ms, 2 ms to the second | the properties of Channel |
| `channel_rates` | as above | finding: `RatesArePerSecond` is violated |
| `device_rx` | owner alone, queue bound 1, 2 URBs, 2 transfers per open | the properties of DeviceRx |

**Bounds.** `MaxQueue` stops new calls, not the calls already begun: with a bound of 1
and three threads the queue still holds three actions, which is one of every thread and
so every order of a close action, a blocking action and a send. A batch limit of 0 lets
a batch end by its limit (after two actions) as well as by an empty queue. 1 queued
error is enough for a `catch` before and after `CompleteAdding`. 5 transfers over 3 URBs
make the ring wrap, and every URB may be lost on the way. 12 sends exceed the 5 frames
that SendFlow's URBs and buffers hold more than twice. 2 slots with up to 3 devices give
fewer, as many and more devices than slots. 3 events have a first, a middle and a last
one to be refused or to be null; 2 leaks, because a leaked handle that was blocked may
be followed by an open that works and one that leaks again. 83333 (not a divisor of the
clock) and 800000 (segments of its own) are the odd rows of the table. Two frames are
enough for an increment of each counter to meet each step of Update, and 3 ms at 2 ms to
the second give a period within a second, of a whole second and beyond. 2 URBs and 2
transfers per open let each URB be read, refused or left submitted, over any number of
opens. In `device_clients` the two clients are symmetric; the runs with temporal
properties use no symmetry.

**Deadlock** is checked in `device_single`, `rx_ring`, `send_flow`, `device_list`,
`channel` and `device_rx`. It is not checked where a state without a step is legitimate:
a client abandoned by a Close (the first finding) never ends its call, and once the
Device is disposed of nothing else is left to do. It says most of `device_single`,
`rx_ring` and `device_rx`, where it means that two parts do not wait for each other. In
`device_list` and `channel` some action of the environment is always enabled, and in
`send_flow` the worker always is: there it says only that the model has no dead end.

**Fairness.** `FairSpec` of Device: every thread that can run is scheduled (`WF` of the
worker, of every thread inside a call, of the owner inside Open, Close and Dispose).
Nothing makes an application begin a call, and nothing is assumed of the bus. There are
two things it can do to keep the owner waiting, and the liveness properties name them as
their exceptions: frames come so fast that the flush of Open always finds one
(`FlushedForEver`; `Device.cs:102` has no other way out), and every pass of the worker
meets a frame that cannot be converted (`EveryPassFails`; such a frame skips the
actions, Close included). `OwnerCallsReturn` shows that there is no third. `FairSpec` of
SendFlow: the worker, the bus and the device go on, at whatever speed. `Spec` of
DeviceRx: threads are scheduled as in Device, and WinUSB does not refuse every read for
ever (`SF` of `ReadAccepted`; a refused read may leave its event signalled, and without
the assumption the same frame is tried again and again). The device is under no
obligation there: `UrbsAreEmptied` speaks of what has arrived. Its bound on transfers
stands for a bus that becomes quiet; on one that never does, the lowest event always
goes first and a high URB may wait for ever.

**Findings.** `device_barrier`: the `timeout` of BlockUntilActionsComplete is not used,
and a Close abandons the caller. `send_overrun`: one read per pass against up to 66
sends lets a sustained burst leave every URB unread and every buffer in use, where the
next send fails, although "you don't have to worry about regularly receiving".
`channel_rates`: `timeDelta.Milliseconds` is the millisecond part of the span, and the
rates are not per second once a second has passed between two Updates.

## 4. Proofs

Every safety invariant that a run checks, the action properties (`LossIsReported`,
`ErrorAgrees`, `FailureNeedsOverrun`, `OpenReports`) and the refinement of ActionQueue
are theorems, for every value of the constants that the assumptions of the modules
allow. In each `...Proofs` module an inductive invariant `IInv` has the type invariant
and the properties, or what implies them, as conjuncts, with what they need besides; TLC
has checked each one on the instance of the component's run. One lemma for each conjunct
has one step per action; `InitIInv` and `NextIInv` put them together, and each theorem
follows from `InductiveInvariant`.

| Module | Theorem | Property |
|---|---|---|
| `DeviceProofs` | `InductiveInvariant` | `IInv` of DeviceInvariant |
| | `TypeCorrect` | `TypeOK` |
| | `HandleIsHandedOff` | `HandleHandoff` |
| | `WorkerKeepsQueues` | `WorkerHasQueues` |
| | `BlockedCallsAreAccounted` | `BlockedCallAccounted` |
| | `OwnerIsNotAbandoned` | `OwnerNotAbandoned` |
| | `CloseIsBehindItsOwner` | `NothingOfOwnerBehindClose` |
| | `CrashesNeedClients` | `CrashNeedsClient` |
| | `SendRunsAreBounded` | `SendRunBounded` |
| `DeviceRefinementProofs` | `DeviceImplementsActionQueue` | `ImplementsActionQueue` |
| `RxRingProofs` | `TypeCorrect` | `TypeOK` |
| | `BufferHandedOnce` | `OneReadPerBuffer` |
| | `ReturnedAtMostOnce` | `AtMostOnce` |
| | `FirstRoundOrdered` | `FirstRoundInOrder` |
| | `StampsCurrent` | `StampsOfThisOpen` |
| | `LossesReported` | `LossIsReported` |
| | `ReadErrorAgrees` | `ErrorAgrees` |
| `SendFlowProofs` | `TypeCorrect` | `TypeOK` |
| | `FailuresNeedOverrun` | `FailureNeedsOverrun` |
| `DeviceListProofs` | `TypeCorrect` | `TypeOK` |
| | `NothingHeld` | `NothingHeldBetweenScans` |
| | `ListedRead` | `ListedWereRead` |
| | `FailuresExplained` | `FailureExplained` |
| | `LeaksExplained` | `LeaksNeedException` |
| `NativeDeviceProofs` | `TypeCorrect` | `TypeOK` |
| | `HandlesAccounted` | `HandlesHeld` |
| | `NoEventClosedTwice` | `EventsClosedOnce` |
| | `ChannelRunsAtAskedRate` (with `RateOfSupported`) | `RunsAtAskedRate` |
| | `OpenReportsError` | `OpenReports` |
| `ChannelProofs` | `TypeCorrect` | `TypeOK` |
| | `ReportsAreRight` | `ReportsRight` |
| | `FramesAreKept` (with `ConversionIsInverted`) | `FramesKept` |
| `DeviceRxProofs` | `ImplementsDevice`: `Spec => D!Spec` | |
| | `ImplementsRing`: `Spec => R!Spec` | |
| | `CompositionImplementsActionQueue` | |
| | `LayersAgree` | `RingFollowsDevice` |
| | `MemoryFreedWhenQuiet` | `FreedWhenQuiet` |

### What is assumed

Only the named assumptions on the constants, which TLC evaluates in every run. All are
about the shape of an instance (the owner is not a client, bounds are naturals) but for
these, which the code gives:

* there is at least one URB, and in SendFlow at least one buffer (the code has 30, and
  64 are inferred): with neither, the first send fails;
* `IdLimit` is positive (it is 2^29), and an identifier of the application fits a
  `UInt32`;
* a second has at least one millisecond, and the bound on time is no shorter.

### Why the invariants have to be stronger

**Device.** `OwnerNotAbandoned` needs to know that a running worker cannot see
`FIsClosing` while the owner has an action queued, which needs the close action to be
behind all others of the owner (`CloseIsLast`), which needs to know that the owner is
blocked while its close action is queued (`CallsMatch`), and that only the owner closes
(`CallsTyped`). `HandleHandoff` and `WorkerHasQueues` follow from what each point of
Open and Close implies for thread, queues and native device (`Lifecycle`).
`BlockedCallAccounted` needs that no event is set before its call waits
(`EventsFresh`). `SendRunBounded` needs the relation of `count` and `sendRun`
(`Batch`).

**The refinement.** Under `IInv` of Device each step is a step of ActionQueue or leaves
its state alone. Perform and drop are the two that show; that a dropped action is never
the owner's is `NothingOfOwnerBehindClose`, and that a released thread is the one whose
action was performed is `CallsMatch`. The rest is the algebra of `\o`: what the worker
has taken, put before what is queued, is what was pending.

**RxRing.** `FirstRoundInOrder` needs to know which URB the next transfer goes to
(`SubmittedInv`: transfer *k* of the first round is in URB *k* - 1). `AtMostOnce` and
`StampsOfThisOpen` need what the buffers hold (`BufferInv`: a buffer's transfer is of
this open, no two buffers hold the same, the timestamp is that of the last full one)
and how that relates to what was returned (`DeliveredInv`). As the device goes on
during a `candle_frame_read`, they also need what the call may rely on between the wait
and its end (`TakenInv`: the URB it has taken stays signalled, and nothing older of the
first round appears behind it). `LossIsReported` and `ErrorAgrees` are about the step
that ends the call.

**SendFlow.** `TypeOK` has the capacities: no buffer and no URB holds more than one
frame. `Balance` says that what an application counts as under way is what is queued, in
the device or in a URB. A send that fails is still queued and finds the device full, so
that more than `BufferCount` are under way (`FailureNeedsOverrun`); when the bus has kept
up the URBs are full, too.

**DeviceList.** The result is made from the slots below `numDevices`, so the loop has
to fill them one after the other (`LoopInv`); the verdict (`VerdictInv`) remembers why
the loop has ended; `MemoryInv` counts what each holder has.

**NativeDevice.** `HandleInv` says for each of the steps of the open which handles are
held, in the structure and in Windows, and `EventInv` which events exist; `TimingInv`
relates the timing in the firmware to what each thread in Channel.Start has asked for.
`RateOfSupported` computes the bit rate of every row of the table.

**Channel.** `ReportsRight` is about a report that is made once and stays; its invariant
(`CountInv`, `TimeInv`) says that, unless an increment fell between Update's look and
its reset, counter and history agree outside that interval, that nothing is counted
within it, and that an increment under way has read the present value. `FramesKept`
needs that the wire has what the conversion made of the frames (`WireInv`) and that the
conversion back inverts it. `ConversionIsInverted` is arithmetic on words: a word is
three bits above an identifier (`WordShape`), of which each mask sees one
(`FlagsOfWord`) and sets one (`FlagSet`). The flags are multiples of `IdLimit`, and not
powers of two, because the provers know nothing of `^`.

**DeviceRx.** `ImplementsDevice` and `ImplementsRing` hold step by step, so that the
inductive invariants of Device and of RxRing hold of the composition, and with them all
that is proved of the two, the promise of ActionQueue included. `JointInv` adds that the
layers open and close in the same steps, that a `candle_frame_read` is the owner's in
its flush or the worker's in its pass, and that nobody opens a device that was given
back. `RingFollowsDevice` then follows from the lifecycle of Device and, for the reads that
are submitted, from that of the ring: one that is closed has none. `FreedWhenQuiet`
follows from the latter too. `DP`
and `RP` are the modules with the proofs, `D` and `R` those of the composition; that
the two instances of each mean the same is shown action by action.

### Only model-checked

* Liveness: `OwnerCallsReturn`, `EverythingReceived`, `UrbsAreEmptied`. Fairness and
  ENABLED are outside what the provers do.
* That the steps of DeviceRx can always be taken together (no deadlock), and the
  absence of deadlock elsewhere: these are about ENABLED too.
* The three findings, which are counterexamples.

## 5. Plan

The models are done, and so are the proofs of all safety properties. What could still
be added: an abstract specification of the ring (a store from which each transfer is
taken once, out of order) with RxRing as its
implementation, proved like the refinement of ActionQueue.

## 6. Not modelled

* Test and example applications: they call the library from one thread against
  attached hardware. What they do is part of what the environments of the modules may
  do; there is no state or decision in them to model.
* Build files and the P/Invoke declarations: no logic of their own. A native failure
  that becomes an exception is an outcome in Device.
* The bytes of set-up packets and frames, and the accessors of a frame
  (`candle_frame_type` and the following), which Candle.NET does not call.
* `candle_channel_count` and `candle_channel_get_capabilities` beyond that they cannot
  fail: they copy what the open has read.
* `FAlternativeDevices` and overrides of the virtual methods by an application; an
  action that calls back into the Device.
* Two threads that open or close the same Device at once, or call Update of one Channel
  at once: the code makes no provision for either.
* Channels kept over a new Open (`Device.cs:113`): no text says what they should do.
* Some hazards of `PROJECT.json` have no property, and their notes say why. The
  timestamp of a transfer that lacks one (`candle.c:541`), two threads in Channel.Start
  (`Channel.cs:67`), increments that meet the reset of Update (`Channel.cs:138`) and an
  Update before the first Start (`Channel.cs:83`) are in the models; the properties
  there are stated for the cases without them (`RunsAtAskedRate`, `ReportsRight`) or
  allow them (`StampsOfThisOpen`), because nothing in the repository says what should
  happen.
* What the late reads of a half-done open write to, and what WinUSB does with a freed
  handle: both are outside the code. `FreedWhenQuiet` and `HandlesHeld` say when they
  can happen.
