------------------------------ MODULE UsbHotplug ------------------------------
(***************************************************************************)
(* The devices of the vendored libusb (core.c, hotplug.c, io.c, os/linux_* *)
(* files): contexts, each opened by one thread of the driver (msisdr_open, *)
(* msisdr_open_fd or one of the functions that list devices); their lists  *)
(* of reference-counted device structures; the netlink thread, which       *)
(* follows the uevents of the kernel in every active context; and the      *)
(* hotplug messages a context's event loop handles.                        *)
(*                                                                         *)
(* On "linux" devices are found by scanning sysfs.  On Android they are    *)
(* not: libusb_get_device2 makes up the structure of the one the app was   *)
(* given; an "android" of before version 7 lets the netlink thread run     *)
(* beside it, a "sealed" one has neither netlink nor a readable sysfs.     *)
(***************************************************************************)
EXTENDS Naturals, FiniteSets, Sequences, SequencesExt, FiniteSetsExt

CONSTANTS
  Ctx,         \* the contexts
  Addr,        \* addresses on the bus (bus number and device address)
  Fixed,       \* those of hubs that stay, the driver's devices have the others
  Parent,      \* Parent[a]: the address of the hub a hangs on, or None
  Devs,        \* bound: the memory for device structures
  MaxPlugs,    \* bound: the kernel plugs or unplugs this often
  Hosts,       \* the systems considered, a subset of AllHosts
  Races        \* the races followed that break what the properties say: a uevent
               \* handled in the middle of usbi_io_init, the monitor stopped while
               \* another context is on its way into op_init

None == "none"
Netlink == "netlink"
AllHosts == {"linux", "android", "sealed"}

ASSUME HotplugAssumption ==
  /\ Ctx \cap {None, Netlink} = {}
  /\ None \notin Addr /\ IsFiniteSet(Devs) /\ None \notin Devs
  /\ Fixed \subseteq Addr /\ Parent \in [Addr -> Fixed \union {None}]
  /\ \A a \in Fixed : Parent[a] = None
  /\ MaxPlugs \in Nat /\ Hosts \subseteq AllHosts /\ Races \subseteq {"io_init", "restart"}

VARIABLES
  host,
  plugged,    \* the addresses with a device
  plugs,      \* how often the kernel has plugged or unplugged
  uevents,    \* the netlink socket: uevents not read yet
  monitor,    \* the netlink thread: "none", "running", "stopping", "ended"
  initCount,  \* init_count
  locks,      \* who holds default_context_lock, startstop and linux_hotplug_lock
  walk,       \* a uevent on its way through active_contexts_list, whose lock is held
  dev,        \* the device structures: Free or a record
  ctx,        \* ctx[c]: the context and its thread
  todo,       \* what the scan of sysfs has not looked at yet
  lost        \* structures with a reference nobody holds

vars == <<host, plugged, plugs, uevents, monitor, initCount, locks, walk, dev, ctx, todo, lost>>
world == <<host, plugged, plugs>>

Free == [refs |-> 0]
NoWalk == [todo |-> {}]

NewContext ==
  [at |-> "off", active |-> FALSE, list |-> <<>>, ready |-> FALSE, msgs |-> <<>>,
   modified |-> FALSE, piped |-> FALSE, bytes |-> 0, array |-> {}, handle |-> None]

Init ==
  /\ host \in Hosts
  /\ plugged \in {Addr, Fixed} /\ plugs = 0 /\ uevents = <<>>
  /\ monitor = "none" /\ initCount = 0
  /\ locks = [init |-> None, startstop |-> None, hotplug |-> None]
  /\ walk = NoWalk
  /\ dev = [d \in Devs |-> Free]
  /\ ctx = [c \in Ctx |-> NewContext]
  /\ todo = {} /\ lost = {}

At(c, place) == ctx[c].at = place
Go(c, place) == ctx' = [ctx EXCEPT ![c].at = place]
IsFree(lock) == locks[lock] = None
Walking == walk # NoWalk

-----------------------------------------------------------------------------
(* Reference counts and events.                                              *)

\* libusb_ref_device, and libusb_unref_device for each device of S: a structure is
\* destroyed with its last reference and drops the one on its parent, a hub, which
\* has none.
Ref(ds, d) == [ds EXCEPT ![d].refs = @ + 1]

UnrefAll(ds, S) ==
  LET last     == {d \in S : ds[d].refs = 1}
      drops(d) == Cardinality({d} \cap S) + Cardinality({e \in last : ds[e].parent = d})
  IN [d \in Devs |-> IF ds[d].refs > drops(d) THEN [ds[d] EXCEPT !.refs = @ - drops(d)] ELSE Free]

Unref(ds, d) == UnrefAll(ds, {d})

\* usbi_pending_events, usbi_signal_event, usbi_clear_event.  The event pipe
\* is descriptor 0 until usbi_io_init makes it.
Pending(x) == x.modified \/ x.msgs # <<>>
Signal(x) == IF x.piped THEN [x EXCEPT !.bytes = @ + 1] ELSE x
SignalIfFirst(x) == IF Pending(x) THEN x ELSE Signal(x)
ClearIfLast(x) == IF Pending(x) THEN x ELSE [x EXCEPT !.bytes = @ - 1]

\* usbi_fd_notification
FdNotification(x) == [SignalIfFirst(x) EXCEPT !.modified = TRUE]

\* A mutant of Notification: signals only when something is pending already.
SilentNotification(x, event, d) ==
  [x EXCEPT !.msgs = Append(@, [event |-> event, dev |-> d])]

\* usbi_hotplug_notification
Notification(x, event, d) ==
  [SignalIfFirst(x) EXCEPT !.msgs = Append(@, [event |-> event, dev |-> d])]

-----------------------------------------------------------------------------
(* Devices come and go, in one context, given as [dev, ctx, lost].           *)

Now == [dev |-> dev, ctx |-> ctx, lost |-> lost]
Becomes(w) == dev' = w.dev /\ ctx' = w.ctx /\ lost' = w.lost

ListedAt(w, c, a) == {i \in DOMAIN w.ctx[c].list : w.dev[w.ctx[c].list[i]].addr = a}

\* usbi_get_device_by_session_id: the first one.
BySession(w, c, a) ==
  IF ListedAt(w, c, a) = {} THEN None ELSE w.ctx[c].list[Min(ListedAt(w, c, a))]

\* usbi_alloc_device, linux_get_parent_info and usbi_connect_device.
Connect(w, c, a, parent) ==
  LET d  == CHOOSE d \in Devs : w.dev[d] = Free
      ds == IF parent = None THEN w.dev ELSE Ref(w.dev, parent)
      x  == [w.ctx[c] EXCEPT !.list = <<d>> \o @]
  IN [w EXCEPT !.dev = [ds EXCEPT ![d] = [ctx |-> c, addr |-> a, refs |-> 1,
                                          attached |-> TRUE, parent |-> parent]],
               !.ctx = [@ EXCEPT ![c] = IF x.ready THEN Notification(x, "arrived", d) ELSE x]]

\* There is memory for a device and its parent.
Room == Cardinality({d \in Devs : dev[d] = Free}) > 1

\* initialize_device and usbi_sanitize_device read the descriptors.
Readable(a) == a \in plugged /\ host # "sealed"

\* linux_enumerate_device: nothing for a session id the context knows; one
\* whose parent is unknown has it enumerated first.
EnumerateOne(w, c, a) ==
  IF BySession(w, c, a) # None \/ ~Readable(a) THEN w
  ELSE Connect(w, c, a, IF Parent[a] = None THEN None ELSE BySession(w, c, Parent[a]))

Enumerate(w, c, a) ==
  IF BySession(w, c, a) = None /\ Readable(a) /\ Parent[a] # None
    THEN EnumerateOne(EnumerateOne(w, c, Parent[a]), c, a)
    ELSE EnumerateOne(w, c, a)

\* usbi_disconnect_device: the reference of the list goes to the message, or,
\* when the context has no message list yet, to nobody.
Disconnect(w, c, d) ==
  LET i == CHOOSE i \in DOMAIN w.ctx[c].list : w.ctx[c].list[i] = d
      x == [w.ctx[c] EXCEPT !.list = RemoveAt(@, i)]
  IN [dev  |-> [w.dev EXCEPT ![d].attached = FALSE],
      ctx  |-> [w.ctx EXCEPT ![c] = IF x.ready THEN Notification(x, "left", d) ELSE x],
      lost |-> IF x.ready THEN w.lost ELSE w.lost \union {d}]

-----------------------------------------------------------------------------
(* The kernel and the netlink thread.                                        *)

\* Two uevents each: of the device and of its interface, whose DEVTYPE is not
\* usb_device; the device's own comes first when it is added, last when removed.
Uevent(add, a) == [add |-> add, addr |-> a, device |-> TRUE]
Other(add, a)  == [add |-> add, addr |-> a, device |-> FALSE]

Receives(es) == uevents' = IF monitor \in {"running", "stopping"} THEN uevents \o es ELSE uevents

Plug(a) ==
  /\ plugs < MaxPlugs /\ a \notin plugged
  /\ plugged' = plugged \union {a} /\ plugs' = plugs + 1
  /\ Receives(<<Uevent(TRUE, a), Other(TRUE, a)>>)
  /\ UNCHANGED <<host, monitor, initCount, locks, walk, dev, ctx, todo, lost>>

Unplug(a) ==
  /\ plugs < MaxPlugs /\ a \in plugged \ Fixed
  /\ plugged' = plugged \ {a} /\ plugs' = plugs + 1
  /\ Receives(<<Other(FALSE, a), Uevent(FALSE, a)>>)
  /\ UNCHANGED <<host, monitor, initCount, locks, walk, dev, ctx, todo, lost>>

\* linux_netlink_read_message, with linux_hotplug_lock held: the uevent of a
\* device is taken through the contexts that are active.
WalkFrom(e) ==
  walk' = IF e.device
            THEN [add |-> e.add, addr |-> e.addr, todo |-> {c \in Ctx : ctx[c].active}]
            ELSE NoWalk

NetlinkReads ==
  /\ monitor \in {"running", "stopping"} /\ uevents # <<>>
  /\ IsFree("hotplug") /\ ~Walking
  /\ locks' = [locks EXCEPT !.hotplug = Netlink]
  /\ uevents' = Tail(uevents)
  /\ WalkFrom(Head(uevents))
  /\ UNCHANGED <<world, monitor, initCount, dev, ctx, todo, lost>>

\* linux_hotplug_enumerate and linux_device_disconnected, one context of the list.
WalkOn(c) ==
  LET d == BySession(Now, c, walk.addr)
  IN /\ c \in walk.todo /\ (IF walk.add THEN Room ELSE TRUE)
     /\ walk' = IF walk.todo = {c} THEN NoWalk ELSE [walk EXCEPT !.todo = @ \ {c}]
     /\ "io_init" \in Races \/ ~At(c, "io_init") \/ ~ctx[c].ready
     /\ Becomes(IF walk.add THEN Enumerate(Now, c, walk.addr)
                ELSE IF d = None THEN Now ELSE Disconnect(Now, c, d))
     /\ UNCHANGED <<world, uevents, monitor, initCount, locks, todo>>

WalkNobody ==
  /\ Walking /\ walk.todo = {}
  /\ walk' = NoWalk
  /\ UNCHANGED <<world, uevents, monitor, initCount, locks, dev, ctx, todo, lost>>

NetlinkDone ==
  /\ locks.hotplug = Netlink /\ ~Walking
  /\ locks' = [locks EXCEPT !.hotplug = None]
  /\ UNCHANGED <<world, uevents, monitor, initCount, walk, dev, ctx, todo, lost>>

\* The thread reads the control pipe when it polls again.
NetlinkEnds ==
  /\ monitor = "stopping" /\ locks.hotplug # Netlink
  /\ monitor' = "ended"
  /\ UNCHANGED <<world, uevents, initCount, locks, walk, dev, ctx, todo, lost>>

-----------------------------------------------------------------------------
(* libusb_init, in the thread of context c.                                  *)

\* The context is active before it knows any device.
NewActive(c) ==
  /\ At(c, "off") /\ IsFree("init") /\ ~Walking
  /\ "restart" \in Races \/ monitor \notin {"stopping", "ended"}
  /\ locks' = [locks EXCEPT !.init = c]
  /\ ctx' = [ctx EXCEPT ![c].at = "op_init", ![c].active = TRUE]
  /\ UNCHANGED <<world, uevents, monitor, initCount, walk, dev, todo, lost>>

\* linux_netlink_start_event_monitor, unless another context has done so.
Started == initCount = 0 /\ host # "sealed"

\* op_init: the monitor first, then the scan, under linux_hotplug_lock.
OpInit(c) ==
  /\ At(c, "op_init") /\ IsFree("startstop")
  /\ IF Started THEN monitor' = "running" /\ uevents' = <<>> ELSE UNCHANGED <<monitor, uevents>>
  /\ locks' = [locks EXCEPT !.startstop = c]
  /\ Go(c, IF host = "linux" THEN "scan" ELSE "inited")
  /\ UNCHANGED <<world, initCount, walk, dev, todo, lost>>

\* op_init without a monitor is an error on linux; the context is given up,
\* and msisdr_open, which does not look at the answer, is not followed.
StartFails(c) ==
  /\ At(c, "op_init") /\ IsFree("startstop") /\ ~Walking
  /\ host = "linux" /\ initCount = 0
  /\ locks' = [locks EXCEPT !.init = None]
  /\ ctx' = [ctx EXCEPT ![c] = [NewContext EXCEPT !.at = "over"]]
  /\ dev' = UnrefAll(dev, ToSet(ctx[c].list))
  /\ UNCHANGED <<world, uevents, monitor, initCount, walk, todo, lost>>

\* sysfs_get_device_list, one entry of the directory at a time.
ScanStart(c) ==
  /\ At(c, "scan") /\ IsFree("hotplug")
  /\ locks' = [locks EXCEPT !.hotplug = c]
  /\ todo' = Addr
  /\ Go(c, "scanning")
  /\ UNCHANGED <<world, uevents, monitor, initCount, walk, dev, lost>>

Scan(c) ==
  /\ At(c, "scanning") /\ Room
  /\ \E a \in todo : todo' = todo \ {a} /\ Becomes(Enumerate(Now, c, a))
  /\ UNCHANGED <<world, uevents, monitor, initCount, locks, walk>>

ScanDone(c) ==
  /\ At(c, "scanning") /\ todo = {}
  /\ locks' = [locks EXCEPT !.hotplug = None]
  /\ Go(c, "inited")
  /\ UNCHANGED <<world, uevents, monitor, initCount, walk, dev, todo, lost>>

OpInitDone(c) ==
  /\ At(c, "inited")
  /\ initCount' = initCount + 1
  /\ locks' = [locks EXCEPT !.startstop = None]
  /\ Go(c, "io_init")
  /\ UNCHANGED <<world, uevents, monitor, walk, dev, todo, lost>>

\* usbi_io_init: the list of messages, then the event pipe and its poll fd.
MessageList(c) ==
  /\ At(c, "io_init") /\ ~ctx[c].ready
  /\ ctx' = [ctx EXCEPT ![c].ready = TRUE]
  /\ UNCHANGED <<world, uevents, monitor, initCount, locks, walk, dev, todo, lost>>

EventPipe(c) ==
  /\ At(c, "io_init") /\ ctx[c].ready
  /\ ctx' = [ctx EXCEPT ![c] = FdNotification([@ EXCEPT !.at = "ready", !.piped = TRUE])]
  /\ locks' = [locks EXCEPT !.init = None]
  /\ UNCHANGED <<world, uevents, monitor, initCount, walk, dev, todo, lost>>

-----------------------------------------------------------------------------
(* libusb_get_device_list and libusb_open; on Android libusb_get_device2 and *)
(* libusb_open2.                                                             *)

\* linux_netlink_hotplug_poll reads until a message is not one of a device.
PollStart(c) ==
  /\ At(c, "ready") /\ host = "linux" /\ IsFree("hotplug")
  /\ locks' = [locks EXCEPT !.hotplug = c]
  /\ Go(c, "polling")
  /\ UNCHANGED <<world, uevents, monitor, initCount, walk, dev, todo, lost>>

PollOn(c) ==
  /\ At(c, "polling") /\ ~Walking /\ uevents # <<>>
  /\ uevents' = Tail(uevents)
  /\ WalkFrom(Head(uevents))
  /\ IF Head(uevents).device THEN UNCHANGED <<ctx, locks>>
     ELSE Go(c, "listing") /\ locks' = [locks EXCEPT !.hotplug = None]
  /\ UNCHANGED <<world, monitor, initCount, dev, todo, lost>>

PollDone(c) ==
  /\ At(c, "polling") /\ ~Walking /\ uevents = <<>>
  /\ locks' = [locks EXCEPT !.hotplug = None]
  /\ Go(c, "listing")
  /\ UNCHANGED <<world, uevents, monitor, initCount, walk, dev, todo, lost>>

\* A mutant of Taken: the array holds pointers, not references.
TakenPointers(ds, S) == ds

\* discovered_devs_append: the array holds references of its own.
Taken(ds, S) == [d \in Devs |-> IF d \in S THEN [ds[d] EXCEPT !.refs = @ + 1] ELSE ds[d]]

GetDeviceList(c) ==
  LET S == ToSet(ctx[c].list)
  IN /\ At(c, "listing")
     /\ dev' = Taken(dev, S)
     /\ ctx' = [ctx EXCEPT ![c].at = "listed", ![c].array = S]
     /\ UNCHANGED <<world, uevents, monitor, initCount, locks, walk, todo, lost>>

\* Only looked (devices.c), or found none of the driver's: the array is freed.
FreeDeviceList(c) ==
  /\ At(c, "listed")
  /\ dev' = UnrefAll(dev, ctx[c].array)
  /\ ctx' = [ctx EXCEPT ![c].at = "exit", ![c].array = {}]
  /\ UNCHANGED <<world, uevents, monitor, initCount, locks, walk, todo, lost>>

\* libusb_open refuses what is known to be gone, and refers to the rest.
Open(c, d) ==
  /\ At(c, "listed") /\ d \in ctx[c].array /\ dev[d].addr \notin Fixed
  /\ dev[d].attached
  /\ dev' = Ref(dev, d)
  /\ ctx' = [ctx EXCEPT ![c].at = "opening", ![c].handle = d]
  /\ UNCHANGED <<world, uevents, monitor, initCount, locks, walk, todo, lost>>

\* op_open: the node is there, and its descriptor is polled from now on.
OpenNode(c) ==
  LET x == ctx[c]
  IN /\ At(c, "opening") /\ dev[x.handle].addr \in plugged
     /\ dev' = UnrefAll(dev, x.array)
     /\ ctx' = [ctx EXCEPT ![c] = FdNotification([x EXCEPT !.at = "open", !.array = {}])]
     /\ UNCHANGED <<world, uevents, monitor, initCount, locks, walk, todo, lost>>

\* Or it is not, and the netlink thread is overtaken.
OpenGone(c) ==
  LET d == ctx[c].handle
  IN /\ At(c, "opening") /\ dev[d].addr \notin plugged
     /\ IsFree("hotplug") /\ ~Walking
     /\ locks' = [locks EXCEPT !.hotplug = c]
     /\ walk' = IF dev[d].attached
                  THEN [add |-> FALSE, addr |-> dev[d].addr, todo |-> {e \in Ctx : ctx[e].active}]
                  ELSE NoWalk
     /\ Go(c, "gone")
     /\ UNCHANGED <<world, uevents, monitor, initCount, dev, todo, lost>>

OpenFails(c) ==
  /\ At(c, "gone") /\ ~Walking
  /\ locks' = [locks EXCEPT !.hotplug = None]
  /\ dev' = UnrefAll(Unref(dev, ctx[c].handle), ctx[c].array)
  /\ ctx' = [ctx EXCEPT ![c].at = "exit", ![c].array = {}, ![c].handle = None]
  /\ UNCHANGED <<world, uevents, monitor, initCount, walk, todo, lost>>

\* op_device2 connects a structure without looking for the session id, or the
\* path is not one of a device.
GetDevice2(c, a) ==
  /\ At(c, "ready") /\ host # "linux" /\ a \notin Fixed /\ Room
  /\ Becomes(LET w == Connect(Now, c, a, None)
             IN [w EXCEPT !.ctx = [@ EXCEPT ![c].at = "device2",
                                            ![c].handle = Head(w.ctx[c].list)]])
  /\ UNCHANGED <<world, uevents, monitor, initCount, locks, walk, todo>>

NoDevice2(c) ==
  /\ At(c, "ready") /\ host # "linux"
  /\ Go(c, "exit")
  /\ UNCHANGED <<world, uevents, monitor, initCount, locks, walk, dev, todo, lost>>

\* libusb_open2: the descriptor is the app's; usbi_add_pollfd may fail.
Open2(c) ==
  /\ At(c, "device2")
  /\ dev' = Ref(dev, ctx[c].handle)
  /\ ctx' = [ctx EXCEPT ![c] = FdNotification([@ EXCEPT !.at = "open"])]
  /\ UNCHANGED <<world, uevents, monitor, initCount, locks, walk, todo, lost>>

Open2Fails(c) ==
  /\ At(c, "device2")
  /\ ctx' = [ctx EXCEPT ![c].at = "exit", ![c].handle = None]
  /\ UNCHANGED <<world, uevents, monitor, initCount, locks, walk, dev, todo, lost>>

-----------------------------------------------------------------------------
(* The context's events (handle_events) and its end.                         *)

Handling(c) == ctx[c].at \in {"open", "drain"}

\* New poll fds are taken over before poll.
TakePollfds(c) ==
  /\ Handling(c) /\ ctx[c].modified
  /\ ctx' = [ctx EXCEPT ![c] = ClearIfLast([@ EXCEPT !.modified = FALSE])]
  /\ UNCHANGED <<world, uevents, monitor, initCount, locks, walk, dev, todo, lost>>

\* The message that a device has left carries the reference of the list.
Dereferenced(ds, m) == IF m.event = "left" THEN Unref(ds, m.dev) ELSE ds

\* The event pipe is readable: one message, then poll again with timeout 0.
TakeMessage(c) ==
  LET x == ctx[c]
  IN /\ Handling(c) /\ ~x.modified /\ x.bytes > 0 /\ x.msgs # <<>>
     /\ ctx' = [ctx EXCEPT ![c] = ClearIfLast([x EXCEPT !.msgs = Tail(@)])]
     /\ dev' = Dereferenced(dev, Head(x.msgs))
     /\ UNCHANGED <<world, uevents, monitor, initCount, locks, walk, todo, lost>>

\* libusb_close, while no other thread handles events, as the driver calls it: the
\* poll fd is removed and the handle's reference dropped.
Close(c) ==
  /\ At(c, "open")
  /\ dev' = Unref(dev, ctx[c].handle)
  /\ ctx' = [ctx EXCEPT ![c] = FdNotification([@ EXCEPT !.at = "exit", !.handle = None])]
  /\ UNCHANGED <<world, uevents, monitor, initCount, locks, walk, todo, lost>>

\* libusb_exit: no uevent reaches the context from now on.
ExitActive(c) ==
  /\ At(c, "exit") /\ ~Walking
  /\ ctx' = [ctx EXCEPT ![c].at = "drain", ![c].active = FALSE]
  /\ UNCHANGED <<world, uevents, monitor, initCount, locks, walk, dev, todo, lost>>

\* When the messages have been handled, what is left of the list is dropped
\* and usbi_io_exit closes the pipe.
ExitContext(c) ==
  LET x == ctx[c]
  IN /\ At(c, "drain") /\ ~x.modified /\ (x.bytes = 0 \/ x.msgs = <<>>)
     /\ dev' = UnrefAll(dev, ToSet(x.list))
     /\ ctx' = [ctx EXCEPT ![c] = [NewContext EXCEPT !.at = "op_exit"]]
     /\ UNCHANGED <<world, uevents, monitor, initCount, locks, walk, todo, lost>>

\* A mutant of LastOut: whoever exits stops the monitor.
AnyoneOut == TRUE

LastOut == initCount = 1

\* op_exit: the last context stops the monitor, if there is one.
OpExit(c) ==
  /\ At(c, "op_exit") /\ IsFree("startstop")
  /\ initCount' = initCount - 1
  /\ IF LastOut /\ monitor # "none"
       THEN /\ "restart" \in Races \/ \A e \in Ctx : ~At(e, "op_init")
            /\ monitor' = "stopping"
            /\ locks' = [locks EXCEPT !.startstop = c]
            /\ Go(c, "join")
       ELSE Go(c, "over") /\ UNCHANGED <<monitor, locks>>
  /\ UNCHANGED <<world, uevents, walk, dev, todo, lost>>

\* linux_netlink_stop_event_monitor joins the thread and closes the socket.
Join(c) ==
  /\ At(c, "join") /\ monitor = "ended"
  /\ monitor' = "none" /\ uevents' = <<>>
  /\ locks' = [locks EXCEPT !.startstop = None]
  /\ Go(c, "over")
  /\ UNCHANGED <<world, initCount, walk, dev, todo, lost>>

-----------------------------------------------------------------------------
NetlinkStep == NetlinkReads \/ WalkNobody \/ NetlinkDone \/ NetlinkEnds \/ \E c \in Ctx : WalkOn(c)

Session(c) ==
  \/ NewActive(c) \/ OpInit(c) \/ StartFails(c) \/ ScanStart(c) \/ Scan(c) \/ ScanDone(c)
  \/ OpInitDone(c) \/ MessageList(c) \/ EventPipe(c)
  \/ PollStart(c) \/ PollOn(c) \/ PollDone(c) \/ GetDeviceList(c) \/ FreeDeviceList(c)
  \/ (\E d \in Devs : Open(c, d)) \/ OpenNode(c) \/ OpenGone(c) \/ OpenFails(c)
  \/ (\E a \in Addr : GetDevice2(c, a)) \/ NoDevice2(c) \/ Open2(c) \/ Open2Fails(c)
  \/ TakePollfds(c) \/ TakeMessage(c) \/ Close(c) \/ ExitActive(c) \/ ExitContext(c)
  \/ OpExit(c) \/ Join(c)

\* Everything has ended; nothing more has to happen.
Over ==
  /\ \A c \in Ctx : At(c, "over")
  /\ UNCHANGED vars

Next ==
  \/ \E a \in Addr : Plug(a) \/ Unplug(a)
  \/ NetlinkStep
  \/ \E c \in Ctx : Session(c)
  \/ Over

Spec == Init /\ [][Next]_vars

-----------------------------------------------------------------------------
(* Properties.                                                               *)

Allocated == {d \in Devs : dev[d] # Free}

\* Who holds references to d: lists, arrays, open handles, messages that it has
\* left, devices behind it, and nobody.  op_device2's pointer is not a reference.
Holders(d) ==
  LET places == {<<c, "list">> : c \in {e \in Ctx : d \in ToSet(ctx[e].list)}}
                \union {<<c, "array">> : c \in {e \in Ctx : d \in ctx[e].array}}
                \union {<<c, "handle">> :
                          c \in {e \in Ctx : ctx[e].handle = d /\ ~At(e, "device2")}}
      left   == UNION {{<<c, i>> : i \in {j \in DOMAIN ctx[c].msgs :
                                            ctx[c].msgs[j] = [event |-> "left", dev |-> d]}}
                         : c \in Ctx}
      behind == {e \in Allocated : dev[e].parent = d}
  IN Cardinality(places) + Cardinality(left) + Cardinality(behind) + Cardinality({d} \cap lost)

Pointers(c) ==
  ToSet(ctx[c].list) \union ctx[c].array \union ({ctx[c].handle} \ {None})
    \union {m.dev : m \in ToSet(ctx[c].msgs)}

\* The reference count of a structure is the number of those who hold it, and
\* no pointer outlives it: a device that is unplugged, seen by several contexts,
\* in a message, open and listed is freed exactly when the last of them lets go
\* (libusb_unref_device, core.c:1132), so nothing is left when all have exited.
RefsTrue ==
  /\ \A d \in Allocated : dev[d].refs = Holders(d)
  /\ \A c \in Ctx : Pointers(c) \subseteq Allocated

Followed(c) ==
  ctx[c].active /\ ctx[c].at \notin {"op_init", "scan", "scanning"}

\* When every uevent has been handled, each context of a system with a scan
\* lists each device once and nothing else, though devices come and go between
\* the start of the monitor, the scan and the first message, and the other
\* context may exit (linux_usbfs.c:462, linux_netlink.c:295).
ListTrue ==
  host = "linux" /\ uevents = <<>> /\ ~Walking =>
    \A c \in Ctx : Followed(c) =>
      /\ {dev[d].addr : d \in ToSet(ctx[c].list)} = plugged
      /\ Len(ctx[c].list) = Cardinality(plugged)

\* A byte is in the event pipe exactly while something is pending, and one is
\* enough: the event loop is neither left asleep with work to do nor made to
\* read a pipe that is empty, and never written to, for ever (core.c:1185).
SignalTrue ==
  \A c \in Ctx : ctx[c].piped => ctx[c].bytes = (IF Pending(ctx[c]) THEN 1 ELSE 0)

=============================================================================
