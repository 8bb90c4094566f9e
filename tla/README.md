# A verification project for sdr-msi-driver

sdr-msi-driver turns an MSi2500/MSi001 USB receiver into an rtl_tcp server on Android. A Java service obtains the
permission for the device and hands its descriptor to native code, which configures the tuner, streams samples
through a vendored libusb, converts them and serves them to one TCP client, whose commands change the tuner while it
streams. This directory holds TLA+ models of it, from the usbfs ioctls of libusb to the Android service, TLC runs
that check them on small instances, and proofs for every value of the constants. `PROJECT.json` lists the
components, the runs, the lines of code behind every definition, the hazards, the findings and the theorems.

Paths below are relative to `src/`: `cpp/` is `msisdr/src/main/cpp/src/`, `lib/` is
`msisdr/src/main/cpp/libmsisdr/src/`, `libusb/` is `msisdr/src/main/cpp/libmsisdr/libusb/libusb/`.

## The system

| Component | State it keeps | Operations | Talks to |
|---|---|---|---|
| Streaming engine, `lib/async.c`, `lib/streaming.c`, stop/restart of `lib/hard.c` | `async_status`, the transfers, `transfer` (ISOC or BULK) | read_async, cancel_async, stop_async, start_async, close, the transfer callback | libusb (calls, callbacks), the command thread (shared `async_status`, no lock) |
| Repacking, `msisdr_feed_async` | `xfer_out`, `xfer_out_pos` | feed | called by the transfer callback, calls the user's |
| Block synchronization, `lib/convert/`, end of the callback | `addr`, `sync_loss_cnt`, length of each transfer | convert, shorten a transfer | decides how the callback resubmits |
| Tuner, `lib/soft.c`, `lib/gain.c` | frequency, band, filter, gain reductions | the setters | registers, on Android each by one ioctl |
| Sample rate and format, `lib/hard.c` | rate, format, `format_auto` | set_sample_rate, set_sample_format | pauses the engine |
| libusb: URBs, `libusb/os/linux_usbfs.c` | the URBs of a transfer, how many are retired, `reap_action` | submit, discard, reap, disconnect | the kernel (ioctls) |
| libusb: event loop, `libusb/io.c`, `libusb/sync.c` | flying transfers, five kinds of locks, `event_handler_active` | submit, cancel, handle events, wait, synchronous control transfer (not on Android) | both threads of the driver; while `msisdr_stop_async` runs they handle each other's events |
| libusb: devices, `libusb/core.c`, `libusb/hotplug.c`, `libusb/os/linux_netlink.c` | contexts, device lists, reference counts, hotplug messages, the event pipe, the netlink thread | init, exit, list, open, get_device2, open2 | the kernel (uevents, sysfs), `lib/devices.c`, `lib/libmsisdr.c` |
| TCP server, `cpp/sdrtcp.c` | `state` (volatile), `state_locker`, sockets, pool | open, serve, feed, stop, two threads | the device layer (callbacks), the client |
| Pool, `cpp/workpool.c`; queue, `cpp/queue.c`; buffers, `cpp/extbuffer.c` | queues of buffers, counter | get, put | used by feeder and server thread |
| Device layer, `cpp/msisdrdevice.c` | `miri_dev` | openAsync, close, tcpCommandCallback, tcpClosedCallback | everything above, Java |
| Java service: BinaryRunnerService, DeviceOpenActivity, StreamActivity, SdrDevice | queue of devices, `isRunning`, `thisSdrDevice`, wake lock, callbacks, listeners | start, close, listeners, the button | the device layer, Android's main thread |
| Java permission: UsbPermissionObtainer, AsyncFuture | a future per opening, a receiver | obtainFdFor, onReceive, get, setDone | the user's answer |

What makes it hard, and for each part what makes it correct:

- **Engine.** Two threads and callbacks on either work on the transfers without a lock, and the driver judges by
  `transfer->status`, which is the result of the *last* reap and survives a new submission. Correct means: nothing
  that libusb owns is freed, no thread uses freed transfers, a cancel ends, a failure ends, a change of rate loses
  no transfer.
- **libusb, URBs.** One transfer is several URBs; they come back in the kernel's order, in the middle of a
  submission or a cancellation. Correct means: they are freed when the last is back, once; data has no hole; the
  status that is told is true; the end comes.
- **libusb, events.** Whichever thread gets the events lock works for both, and leaves when its own wait is over.
  Correct means: nobody sleeps while nobody handles events, calls return, a synchronous transfer is freed when nobody
  has it, an unplug reaches every transfer.
- **libusb, devices.** The netlink thread changes the lists of contexts that other threads open, list and close.
  Correct means: references are counted, the lists follow the bus, and every event has its byte in the pipe.
- **TCP server.** Five threads; the state is checked and written in separate unlocked steps; a stop may come at any
  of them. Correct means: the client gets every buffer once and in order, the pool is not freed under its user,
  `closedcb` is called once, after the commands, and a stop or failure ends the server and releases the port and the
  pool.
- **Pool and queue.** Buffers circulate between two threads under a bound. Correct means: every buffer is in one
  place, no wake-up is lost for good, the list stays linked.
- **Repacking and synchronization.** Many cases of lengths; counters whose threshold and reset must match the number
  of transfers in the queue. Correct means: every byte once and in order; a loss is repaired within a bound.
- **Tuner and rate.** What is written depends on what is remembered, and a pause may fail half-way. Correct means:
  the gain that is set is what the chip applies, in every band; the registers give the frequency and the rate; the
  converter decodes what is sent.
- **Service.** Its fields are written by the main thread and by the threads of the devices, listeners remove
  themselves while they are called, and an exception in one announces the end again. Correct means: listeners hear
  the end once, every opening is answered, and at rest the fields, the wake lock and the button agree.

## Modules

| Module | Models | State and actions in the code |
|---|---|---|
| `UsbTransfers` | libusb's transfers as the engine sees them, in short | `xst` is `transfer->status`, `fly` the private flags, `cb` the callback that is running and its thread; `Reap...` ends a transfer, the callback of the engine is a later step; `Discard`, `ReadFlags` and `Mark` are a timeout and the thread that overtakes it, `expiry` says how far it is |
| `AsyncEngine` (extends `UsbTransfers`) | `msisdr_read_async` from its call to the end of `msisdr_close`, `msisdr_stop_async`, `msisdr_start_async`, `msisdr_cancel_async` | `rpc` is the place of the reader thread, `cpc` of the command thread, `closer` the answer to the one cancel; an action is the code from one place where the thread can be overtaken to the next |
| `UsbUrbs` | submit, discard, reap and disconnect in `linux_usbfs.c` | one transfer; `job` is what the holder of its lock is doing, one ioctl per step; `priv` is `linux_transfer_priv`; the kernel is external and moves at any time |
| `UsbEvents` | the event loop of `io.c`, as `msisdr_read_async` and `msisdr_stop_async` call it, and `sync.c`'s control transfer | `th[t].at` is the place of a thread, with the transfer it works on and where it returns to; one variable per lock; one URB per transfer |
| `UsbHotplug` | contexts, devices and the netlink thread | `ctx[c]` is a context with the thread that uses it, `dev[d]` a device structure with its references, `walk` a uevent on its way through the contexts; a section under a lock that does not call out is one step |
| `WorkPool` | `workpool.c` | `wpc` is the place of a thread in `pool_get_wait_lock`; reading and incrementing the counter are two steps, as they are under no mutex of the pool |
| `SdrTcp` (extends `WorkPool`) | `sdrtcp.c` and its use by `msisdrdevice.c` | `pc` for the driver, server, command and feeding threads and for the application's close; the steps of the pool are `WorkPool`'s actions; `stream` stands for the engine |
| `RunnerService` | `BinaryRunnerService`, its activities, the device objects, the permission | `pc[t]` for the main thread and one driver thread per device; `mainq` is Android's queue of messages; the fields of the classes under their names |
| `Fifo` | what `queue.c` promises | the abstract specification of `LinkedQueue` |
| `LinkedQueue` | `queue.c` on explicit memory cells | `chain` is auxiliary: the cells in their order; the refinement maps the payloads along it to `Fifo` |
| `FeedAsync` | `msisdr_feed_async` | a byte is its number in the stream; each round of the two loops is a step; `Restart` is what `msisdr_start_async` resets |
| `SyncLoss` | `sync_loss_cnt`, the shortened transfer | a stream is its position in a block of two packets; `expected` says whether `p->addr` is the number of the block; `queue` is the order of the transfers in libusb |
| `Tuner` | `soft.c`, `gain.c` | what is remembered, and what was written to the registers (`soft`, `reg1`); all setters |
| `SampleRate` | `hard.c` | `SetHard` is a call that succeeds up to the registers, `PauseFails` one that cannot pause the stream |
| `AsyncEngineInv`, `RunnerServiceInv`, `SdrTcpInv`, `UsbEventsInv`, `UsbUrbsInv`, `UsbHotplugInv` | | the inductive invariants of the proofs |
| `MCSamplePath`, `MCSettings` | `FeedAsync` with `SyncLoss`, `Tuner` with `SampleRate` | each pair is used together and shares no state: one is followed while the other is where it started |
| other `MC...` | | values of the constants for TLC |
| `...Proofs` | | theorems and proofs |

The levels are joined by abstraction. What `AsyncEngine` assumes of libusb (a transfer that is submitted comes back
once, after a cancel or an unplug in any case, and its callback runs on a thread that is in the event loop) is what
`UsbUrbs` shows of the URBs below (`TransferEnds`, `CompletedIsTrue`) and `UsbEvents` of the loop around them
(`GoneEnds`, `CallsEnd`). What `SdrTcp` assumes of `msisdr_read_async` (a cancel is refused before RUNNING, and
otherwise ends it) is what `AsyncEngine` shows. What `RunnerService` assumes of the native part (an accepted close ends
`openAsync`, a close before RUNNING may be lost) is what `SdrTcp` shows. `SampleRate` leaves the pause to
`AsyncEngine`. Every definition whose comment begins with "A mutant of" is a plausible bug of that definition: put in
its place it violates a property (`PROJECT.json`, "mutants").

### Decisions of the models

- *Engine.* A scan of all transfers is one step, because what it does with one transfer commutes with what others do
  with the rest; the submission loops go transfer by transfer. STALL stands for STALL and OVERFLOW. A transfer that
  was freed while libusb owned it is not followed further; `wild` is the place of a command thread that has used
  freed transfers. The order in which transfers are reaped is free, which includes every real order. `p->dh` does not
  change during read_async. Failures of malloc are left out. The closer comes when the command thread has been
  joined, which `SdrTcp` shows (`ClosedIsLast`). The build is Android's, the only one of the repository: a register
  write is a USBDEVFS_CONTROL ioctl (`lib/libmsisdr.c:33`), so the command thread is in libusb's event loop in
  `msisdr_stop_async` only. `handle_timeout` discards the transfer in one step and marks it TIMED_OUT in another, with
  `flying_transfers_lock` held; between the two the other thread may reap it and read its flags, and it then reports
  CANCELLED. A discard that comes too late leaves the data of the transfer as it is.
- *URBs.* Lengths are in units of data and `Cap` is the largest URB. IN endpoints only, as the driver's. The driver's
  own transfers are of one URB (bulk, control) or of a few (isochronous); the requests include those the library must
  split, with each set of usbfs capabilities.
- *Events.* The command thread calls, as often as it likes, either `libusb_handle_events_timeout`, as
  `msisdr_stop_async` does on Android, or `libusb_control_transfer`, by which builds for other systems write registers
  and Android's does not; what holds of the module holds of both. Time is a count per transfer until its timeout.
  `SlowSubmits` FALSE: a submission does not take longer than the timeout (500 ms). The event pipe has no part in it,
  because nobody opens or closes a device meanwhile.
- *Devices.* Built as the repository builds it: netlink, no udev, sysfs. `Hosts` are a Linux that can be scanned and
  the two kinds of Android that `libusb_get_device2` is for. The default context of a caller without one and hotplug
  callbacks, which the driver does not register, are left out.
- *Server.* A locked section that does not sleep is one step, guarded by the lock being free. Two hold `locker` across
  steps: `sdrtcp_feed`, which sleeps under the lock, and `sdrtcp_cleanup`, which writes the state, closes the socket
  and frees the pool while others read the state without the lock (`cleaning` is its place). The device layer's part
  of a command is a step from `set` to `Executed`. A send takes a whole buffer. One session is modelled: `openAsync`
  is called once per device.
- *Service.* `openAsync`'s native part is one place, `Serving`, which a stop, an unplug or a failure ends. A device
  object is opened once, because each activity makes new ones. A process that an exception has ended, and a device
  that is opened twice, are not followed further (`ended`).
- *FeedAsync* has every block length up to a bound, although the program passes 0: the library offers the others.
- *Tuner.* The unit of frequency is 1/`MHz` of a megahertz and a fraction has `Steps` steps, so that TLC's instance can
  be coarser than the device (10^6 and 4096). Setters the program never calls are included where the library has them.
  Not included: `msisdr_set_xtal_freq`, `set_bias`, `set_transfer`, which keep a value only.
- *SampleRate.* `RateSteps` is 2^21 in the device; TLC's 32-bit integers need a smaller one. `FormatAnyTime` is FALSE:
  the program sets the format once, before it streams (`cpp/msisdrdevice.c:218`).
- *SyncLoss.* That samples look by chance like the expected number, and transfers that the device ends early, are left
  out.

## Runs

| Run | Question | Bounds |
|---|---|---|
| `EngineEnds` | Whatever the faults: are the two stops quiet, and does a reported failure end the stream? On a healthy bus: does an accepted cancel end read_async with nothing freed in flight, and a change of rate with a running, complete stream? | 2 transfers, both modes, 2 faults, drain of 2 rounds, up to 1 change of rate |
| `EngineFailedFree` | (violation) Does failed_free free nothing in flight? | drain of 20 rounds as in the code, 1 fault |
| `UrbEnds` | Are URBs freed when the kernel has returned them, is data contiguous, the status true, and does the end come? | pieces of 2, transfers of 0 to 5 and up to 4 packets (up to 3 URBs), 2 submissions, both kinds of disconnect |
| `EventLoop` | Is no wake-up lost, do the calls of the command thread return, is a control transfer freed when nobody has it, does an unplug end the stream's transfer? | 1 transfer of the stream, any number of calls, timeouts of 1 and 2 |
| `Hotplug` | Are references right, do lists follow the bus, has every event its byte? | 2 contexts, a hub that stays and a device behind it, 3 plugs and unplugs, 10 structures, 3 hosts |
| `QueueFifo` | Is `queue.c` a queue? | 3 cells |
| `TcpAnyTime` | Safety of server and pool with stops and failures at every moment | 2 buffers, 3 fillings, 2 closes, 1 failure |
| `TcpEnds` | Do stops, failures and samples arrive, and do commands find an open device? | the same with 1 close; none of them between accept and SERVING (`QuietAccept`) |
| `TcpLostStop` | (violation) The same question without `QuietAccept` | 2 buffers, 1 close |
| `SamplePath` | Every byte once, in order, and less than a block waits? Is the stream found again, and how soon? | blocks of 0-3, transfers of 1-8, 14 bytes; 4 transfers, 8 disturbances |
| `Settings` | Gain, tuning, rate, format and registers under every order of the setters and failing pauses | ends of all segments, gains around each threshold, 100 kHz units, 64 steps; 40 rates around every threshold, 32 steps |
| `Runner` | Is the end heard once, every opening answered, and does everything agree at rest? | 2 devices, openings that overlap and that do not, stops at any moment |

Why the bounds are enough. Two transfers are one that has come back and one that has not, which is all the scans tell
apart; the proofs are for any number. Two faults are one during the recovery from another. A second change of rate
adds nothing to what is claimed: the two quiet stops are about the first. Three URBs are a first, a last and one
between, which is all the code tells apart; two submissions show what the first leaves behind. One transfer of the
stream is enough for `EventLoop`, because both threads can handle it, the control transfer's place in the list can be
before and after it, and it is submitted again without end by callbacks on either. Two contexts are one that starts
the monitor and one that stops it, in either order; three plugs put a device, another and none at an address, and ten
structures are more than are ever held at once, so that no step of the run waits for memory (`Room`). Two buffers and
three fillings make the feeder wait and be refused, and the ring go round. Blocks of three and transfers of eight meet
all five cases of lengths with both loops going round. Eight disturbances bring the count of `SyncLoss` beyond its
threshold in the worst order. Two devices are one that closes and one that is next. `MaxTotal`, `MaxFed`, `MaxCloses`,
`MaxFailures`, `MaxFaults`, `MaxDisturbances`, `MaxSubmits`, `MaxPlugs` and the plans' `retunes` are the only bounds
on counters. Deadlock is checked but where the modelled session ends (`SdrTcp`), the submissions do (`UsbUrbs`) or the
bytes do (`FeedAsync`).

What the passing runs leave out on purpose, and is described below under "What does not hold": the constants `Races`
of `UsbUrbs` and `UsbHotplug`, `SlowSubmits` of `UsbEvents`, `EarlyAnswer` of `RunnerService` and `QuietAccept` of
`SdrTcp` switch it on.

## Fairness

- `AsyncEngine`: the two threads are strongly fair (a call of the event loop handles what one poll reports and
  returns, however many transfers keep completing), callbacks return (weak), and a transfer that the kernel has
  finished discarding is reported when the loop is entered often enough, and not each time found to have completed
  before the discard (strong, per transfer). A timeout that is being handled is marked (weak). One assumption is
  about time: the scans of a `msisdr_stop_async` that repeats for ever do not *all* fall into a callback that is about
  to submit its transfer again, because the device needs time to fill a transfer. Without it `RetuneEnds` fails: the
  code has no other guarantee.
- `UsbUrbs`: a call that has begun goes on, and the event handler handles what poll reports. The kernel and the device
  owe nothing but that a discarded URB comes back.
- `UsbEvents`: each thread is strongly fair, because a mutex that is free again and again is obtained at some time;
  time passes. The device may be silent for ever. Nothing is assumed of the retry in
  `libusb_handle_events_timeout_completed` (`libusb/io.c:2320`), which has no bound: `CallsEnd` lets a call that waits
  for no transfer stay there, and a control transfer, which asks each time whether it is over, not.
- `SdrTcp`: every thread that can run does. A connected client reads on or leaves (`WF(Sent)`). Nobody has to connect,
  command, close or fail.
- `SyncLoss`: the device sends while it streams.
- `RunnerService`: the main thread handles its messages and the driver threads run, the user answers the dialog, and a
  stop that was accepted ends the device. Nobody has to open, click or leave.
- `UsbHotplug` claims safety only.

## What is proved

All theorems are proved by TLAPS for every value of the constants that satisfies the named ASSUMEs.

- **`AsyncEngineProofs`.** `IInv` is inductive; from it `CancelPathQuiet` and `FirstStopQuiet`, together `QuietStops`.
  The argument: "all transfers read CANCELLED" means "libusb owns none" only while no transfer has been submitted
  after it was cancelled. `FreshInv` says so until the first restart; it needs `StartInv` (nobody restarts while
  read_async submits), `CancelInv` (a cancel comes after the command thread), `CallbackInv` (a callback runs on a
  thread in the event loop) and `StopInv` (what a scan has found stays true until it is used). After a restart the
  implication fails, and with it the property: both are stated for `restarts = 0`.
  On a healthy bus `HealthInv` is inductive on top of it, for at most one change of rate: the status is PAUSED exactly
  at the places between the stop and the restart (`PlacesInv`); a callback finds its transfer free to be submitted,
  unless it was cancelled (`BusInv`); and between start and cancel each transfer is flying or with a callback that
  submits it again (`AliveInv`), which the restart establishes one by one, because it starts with all of them idle
  (`StopInv`, and `restarts < retunes <= 1`). A timeout needs a part of its own (`ExpiryInv`): the transfer whose
  timeout is handled stays in flight until it is marked, and the other thread overtakes it only where both are in the
  event loop, in the middle of `msisdr_stop_async`; a transfer lost there is one the restart submits. From it
  `FreedQuiet`, `NoWildAccess` and `StreamAlive`.
- **`LinkedQueueProofs`.** The list is well formed and implements `Fifo`, for every set of cells and payloads: initial
  states map to initial states, each call to a call of the abstract queue. The invariant adds types and `Loaded`
  (payloads are never NULL, so that NULL means empty).
- **`SdrTcpProofs`.** `TInv` is inductive; from it `ClosedIsLast` and `FeederKeepsPool`. The parts: which threads
  exist in which places (`ThreadOrder`), the feeder is in the pool only under the lock (`FeederLocks`), state
  UNINITIALIZED means cleaned up or being cleaned up (`CleanedUp`) although unlocked writes may overwrite it later, who
  is inside `sdrtcp_cleanup` holds the lock (`CleanerLocks`), and `ClosedInv`. Each step of `sdrtcp_cleanup` is proved
  once, for whichever thread calls it.
  On top of it `PInv`, the pool: each queue's entries are those its counter says, a buffer a thread holds is in none,
  and only one thread at a time is in `get_new_elements`, which counts without a mutex, because stage 0 is read by the
  feeder alone. From it `OnePlace` and `SentInOrder`. `DInv` says which place of which thread has closed the device,
  and gives `CommandsOnOpenDevice`. The calls of the pool are proved once, for whoever makes them, and then each
  thread's actions.
- **`DriverProofs`**, four components, each by itself. The gain parts stay in range; a gain that is set is what is
  read back, in any band and for both frequency plans. `Retuned` (the gain register is the one of the remembered band,
  and the band the one of the mode that was written) is inductive, and from it `RetuneKeepsGain`, if no frequency is
  in the segment that sets no band. `Remembered` (what the converters go by is what was written) is inductive when no
  format is set while samples are streamed, and gives `DecodesWhatIsSent`. `RegistersGiveRate` holds for every rate
  that is asked for and every width of the fraction: `DividerFits` bounds the oscillator, `FractionLoses` what is lost
  by rounding. `FeedInv` (the books of the two loops of `msisdr_feed_async`) is inductive; from it `RestWaits` and
  `NextBytes`, for all lengths. `SyncInv` is inductive; from it `GarbageBounded`: a transfer without samples is either
  counted, or a shortened transfer is in the queue and its place bounds what is still to come.
- **`UsbUrbsProofs`.** `UInv` is inductive short of the races (`Races = {}`), for every transfer and every size of an
  URB; from it `NoUrbLeft`. The code compares `num_retired` with `num_urbs`, except that the last URB of a normal
  transfer is taken for its end without counting. The first needs `CountInv` (the count is the number of URBs that are
  back or were never submitted, also while a failed submission is undone), the second `OrderInv`: URBs come back in
  order as long as the transfer is normal and a cancellation has not begun to take them back from the last one on.
  `CancelInv` says when that is so: on a device that is plugged in, the first discard of a cancellation either takes
  the last URB or finds that all are back. `KernelInv` says what a stall leaves behind, which is where the races break
  it. On top of it `DataInv` is inductive, for the data of the transfer; from it `DataKept` and `CompletedIsTrue`. The
  parts: URBs lie one behind the other and fill the transfer (`LayoutInv`, from the split in `submit_bulk_transfer`
  and the packing of packets, where `PackCounts` to `Cut` say how packets rise through the URBs); data comes to the
  URBs in order, and none behind one that failed (`FillInv`); those with data are reaped in order, although a
  cancellation takes the others back first (`ReapInv`). `Located` is the heart: for each URB a place where its data
  belongs and one boundary, before which the data has been moved there and behind which it is where the kernel has put
  it, so that each move of `handle_bulk_completion` closes exactly the gap in front of it. It cannot be replaced by
  the order of `OrderInv`, which a cancellation breaks. `StatusInv` ties the action and the status of a bulk transfer
  to what the URBs have come back with (COMPLETED_EARLY to a short URB with full ones before it), `PacketInv` the
  counter of packets to the URBs of a normal isochronous transfer, `AcceptInv` an accepted cancellation to the action,
  and `EndInv` keeps what was reported true until the next submission.
- **`UsbEventsProofs`.** `NoSleeper` is inductive together with "no function returns into a wait": a handler that goes
  away has still to broadcast, and a thread goes to sleep only while one is active. `FreedIsGone` needs `FInv`: a
  call returns only to a caller that could make it (`Returns`); whoever is at a place that needs a lock owns it
  (`LockOwners`), so that one thread alone handles events; the control transfer is listed once and completed once
  (`Lists`); before it is listed, after its callback and after a failed submission nobody has it, and between reaping
  and callback the kernel does not (`ControlLife`); and a transfer is marked by `usbi_handle_disconnect` only on
  kernels that then reap nothing (`DisconnectInv`), without which a submission that is undone could meet a transfer
  that was reaped. The slow submissions that end in the deadlock are included.
- **`RunnerServiceProofs`.** `RInv` is inductive, for any set of devices. When openings do not overlap (`~overlap`),
  `AloneInv` holds until the process ends: nothing runs (`AtEase`), or one device is on its way and the others are
  quiet. The way has five stretches, which say who works on the device and what the queue of messages, the fields and
  the listeners then are: the service was started and will be connected (`Coming`), the device is in its queue
  (`Queued`), the main thread starts it (`Launched`), its thread is at work (`Running`), the service has heard the end
  and stops on that thread (`Ending`). Each also says what the button shows or which posted message will put it right.
  From it `RestIsRest`, `ToggleTrue` and the service's half of `HeardOnce`; the activity's half needs no such order
  (`ActivityInv`: it is in the list once, or has heard the end) and holds when openings overlap, too. The lemmas about
  the queue say what taking, posting and unbinding leave of the order of its messages.
- **`UsbHotplugProofs`.** Three invariants, each on top of the others, short of the races (`Races = {}`), for any
  number of contexts and threads, any bus of devices behind hubs and any finite memory. `SInv`: each context has at
  each place of its life what belongs there (`LifeOf`: before the event pipe nothing is pending, what exits has left
  the active ones), a uevent walks through active contexts only, and the byte in each pipe is the one the pending
  events call for; from it `SignalTrue`. Without the exclusion of the race in `usbi_io_init` it fails where that race
  strikes: a context with a message list and no pipe. On top of it `RInv`: the books of every structure balance
  (`Books`: its count is what contexts hold directly plus the devices behind it, a parent is in use and has no
  parent), a context points to devices of its own (`PointsOK`), and the reference of a list is in exactly one place at
  a time, the list, one message or with nobody. What points to a device without a reference (a message that it has
  arrived, the handle of `libusb_get_device2`) comes before the one that it has left, or the device is listed; that is
  why `Dereferenced` may free it. From it `RefsTrue`. The hard step is `UnrefAll`: several devices, some with the same
  hub, drop their references at once (`DropBooks`), and the hub may go with the last of them. Each step of a thread is
  then one of three kinds, that takes references (`TakeStep`), drops them (`DropStep`) or moves none (`SameStep`); the
  walks and scans add a device and its hub in turn (`HeldEnumerate`). On top of both, `LInv`, where sysfs is scanned:
  a list is right about every address no uevent of which is on its way to its context (`ListOf`). That is inductive
  only with three facts about the others. Each lock is with whoever is at its places, so a uevent walks while nobody
  scans (`LockInv`). `init_count` is the number of contexts it stands for, and the monitor runs as long as one of them
  or one in `op_init` is there, so no plug goes unheard by a context that has scanned (`MonitorInv`). And the last
  unread uevent of each device says whether it is plugged (`QueueInv`), which is why a uevent that comes late, after
  the scan has seen the device or missed it, does no harm. A list holds each address once (`OneEach`); from it
  `ListTrue`, when nothing is on its way.

Types are proved where they are part of these invariants, and not checked by runs of their own.

Only model-checked: all liveness (`CancelEnds`, `RetuneEnds`, `FailureEnds`, `TransferEnds`, `CallsEnd`, `GoneEnds`,
`StopEnds`, `FailureReleases`, `FedIsSent`, `Recovers`, `AnswerHeard`), because TLAPS has no rules for fairness and
ENABLED here; and `TunedClose`, because `Gcd` is a recursive function whose value for every input needs induction over
data.

## What does not hold

Two runs end in a violation; the findings in `PROJECT.json` quote the promise that is broken.

- `EngineFailedFree` (`lib/async.c:586`): the drain of failed_free accepts a stale COMPLETED of a transfer in flight
  and frees it.
- `TcpLostStop` (`cpp/sdrtcp.c:230`): SERVING and CLIENT_OPEN are written over a stop.

Other disagreements the models contain or lead to; the passing runs are stated so that they do not claim the contrary.

Engine:

- A second change of rate before the restarted transfers were reaped takes their stale CANCELLED for the answer and
  writes the registers of a running stream (`lib/async.c:661`); hence `restarts = 0` in the two quiet stops.
- `msisdr_stop_async` checks RUNNING, sleeps, and writes PAUSED over whatever the reader has written
  (`lib/async.c:686`); hence no change of rate in `FailureEnds`.
- failed_free sends its control request to the handle of an unplugged device (`lib/async.c:607`), although
  `doc/architecture.md:20` says that `p->dh` becomes NULL.
- On the failure path, and when ISOC submission falls back after only one round of events, transfers in flight may be
  freed and a callback on the command thread may use them; hence "healthy bus" in `FreedQuiet` and `NoWildAccess`.
- RUNNING is written after the transfers have been submitted: an unplug during the start is dropped. A cancel before
  RUNNING is refused and not repeated. An unplug after a cancel leaves NO_DEVICE, which the cancel never accepts.

Server and pool:

- The command thread is created at `cpp/sdrtcp.c:227`, before the state becomes SERVING: it may see CLIENT_OPEN and
  end, and leave a client that is served without one, although `cpp/sdrtcp.h:61` promises "if a command is received
  command cb will be called".
- A close while `sdrtcp_open_socket` is running is lost, or frees the pool and is then overwritten: the server serves
  from a pool that is not there (`FedIsSent` therefore asks for a valid pool).
- `sdrtcp_stop_serving_client` may free the pool while the server thread is inside `pool_get_wait_lock`; `sdrtcp_feed`
  is called again after it has answered 0 (`cpp/msisdrdevice.c:193`); a client that does not read holds up every stop.
- `pool_get_wait_lock` alone is not thread safe: it compares and increments the counter under no mutex
  (`cpp/workpool.c:79`). `sdrtcp.c` is safe because it takes buffers of stage 0 under `state_locker`.
- `sdrtcp_serve_client_async` reads the state without the lock (`cpp/sdrtcp.c:323`) and calls `closedcb` when it is
  not SOCKET_OPEN. A close that is in `sdrtcp_cleanup` has written UNINITIALIZED (line 58) before it closes the socket
  (67) and frees the pool (71), so the callback may find both still there; `ClosedIsLast` excepts that call only.
- `deInit`, called by the finalizer, frees the structure while the server thread, which nobody joins, may still be
  running (`cpp/msisdrdevice.c:321`).

Tuner, rate and synchronization:

- In the segment of 259 to 330 MHz (mode 6 of the plan) no band is set, so after an AM frequency the LNA stays on:
  24 dB too much (`lib/soft.c:128`); `Settings` leaves the segment out. `msisdr_setup` remembers a gain of 43 but sets
  reductions that read 59 (`lib/libmsisdr.c:184`).
- `sync_loss_cnt` is never decreased in sync: losses of whole blocks add up until a stream that is in sync is shifted
  out of it (`lib/async.c:211`). `SamplePath` shows that the driver recovers from that as well.

libusb:

- URBs are discarded last one first, so after a stall the last of a split transfer comes back before those between and
  is taken for the end (`libusb/os/linux_usbfs.c:2409`): the others are reaped after they were freed. `Races` with
  "stall" makes `NoUrbLeft` fail; "unplug" and "early" break it or `CompletedIsTrue`.
- `handle_timeout` sets TIMED_OUT after the transfer has been discarded (`libusb/io.c:1957`); the other thread may reap
  it in between and tell CANCELLED, and libmsisdr does not submit a CANCELLED transfer again. On Android the two threads
  meet in the event loop only during `msisdr_stop_async`, which wants CANCELLED and submits all transfers later: no
  transfer is lost (`StreamAlive`). Where register writes are `libusb_control_transfer`, and the command thread so in
  the event loop of a running stream, it is: with `cpc = "idle"` added to `InEvents`, `StreamAlive` is violated by a
  timeout that the command thread discards and the reader overtakes.
- `libusb_handle_events_timeout_completed` tries again without bound when it finds the events lock taken and nobody
  handling events (`libusb/io.c:2320`).
- A submission that fails takes `flying_transfers_lock` with the transfer's lock held, `handle_timeouts` the other way
  round (`libusb/io.c:1526`): with `SlowSubmits` both threads wait for ever.
- A context is active before `op_init` has counted it (`libusb/core.c:2100`): the last other one may stop the monitor
  in between, and an unplug it had not read is never told. `Races` with "restart" makes `ListTrue` fail.
- A uevent between the list of messages and the pipe of `usbi_io_init` (`libusb/io.c:1136`) writes its byte to
  descriptor 0, and later ones write none. `Races` with "io_init" makes `SignalTrue` fail.
- A device that leaves between the scan and the message pipe of its context keeps the reference of the list for ever
  (`lost` in the model).
- `linux_netlink_hotplug_poll` stops at the first uevent that is not a device's (`libusb/os/linux_netlink.c:366`), and
  on an unplug the interfaces' come first, although `libusb/libusbi.h` says that pending hotplug events are fully
  processed.
- The session id is the address, which the next device may have: a structure handed out before an unplug is opened on
  the device plugged after it (`libusb/os/linux_usbfs.c:1103`).
- `msisdr_open` ignores the result of `libusb_init` (`lib/libmsisdr.c:226`); `op_device2` fills in no descriptor, so on
  Android the product id reads 0 and the flavour is always the default (`lib/libmsisdr.c:308`).

Service:

- `AsyncFuture.get` waits without having looked whether the result is there (`AsyncFuture.java:58`), although its class
  says that it blocks "until result has been returned" (line 33): with `EarlyAnswer` the opening is never answered.
- `closeService` uses `thisSdrDevice`, which is null between two devices while `isRunning` still reads true
  (`BinaryRunnerService.java:193`): the process ends.
- A second start while a device runs finds an empty queue, marks the service as not running and opens a second device
  beside the first (`BinaryRunnerService.java:230`); hence "not overlapping" in three of the four properties. The
  broadcast of another device's permission then completes the wrong future (`UsbPermissionObtainer.java:61`).
- With three openings that overlap, two threads in `startWithDevice` may both read the later `thisSdrDevice`
  (`BinaryRunnerService.java:101`): the service listens to one device twice and hears its end twice, although
  `SdrDevice.java:40` promises once. `HeardOnce` therefore speaks of the service only without overlapping openings.

## Not modelled

Sample conversion and the DC filter (data); `extbuffer.c`, whose content is sequential pointer arithmetic;
`threading.c` and `msisdr_read_sync` (unused); libusb's handles (claim, reset, kernel drivers, the handshake of
`libusb_close` with another thread that handles events), because the driver calls them when no other thread is in the
library; libusb's descriptor parsing, logging, the ports to other systems, and allocation failures; `deInit`, because
nothing in the models tracks what the finalizer sees; JNI glue, argument parsing, logging and user interface. Each is
a component in `PROJECT.json` with its reason.

## Plan

1. Done: the engine, then the queue, the pool and the server around it; the algorithms that depend on history,
   `FeedAsync`, `SyncLoss`, `Tuner`, `SampleRate`; below them libusb, `UsbUrbs`, `UsbEvents`, `UsbHotplug`; above them
   `RunnerService`.
2. `Driver`: `AsyncEngine` refines the `stream` variable of `SdrTcp` (an abstract stream with `off`, `running`,
   `cancel`, `failed`); `UsbUrbs` and `UsbEvents` refine `UsbTransfers`.
3. `ExtBuffer`: the content of a buffer across fill, send in parts and clear, with the partial send in `SdrTcp`.
