---------------------------- MODULE UsbHotplugInv ----------------------------
(***************************************************************************)
(* The inductive invariants, short of the races: of the event pipe of each *)
(* context (SInv); on top of it, who holds which device structure (RInv);  *)
(* and on top of both, which uevents a list is still waiting for (LInv).   *)
(***************************************************************************)
EXTENDS UsbHotplug

Starting == {"op_init", "scan", "scanning", "inited"}
Up == {"ready", "polling", "listing", "listed", "opening", "gone", "device2", "open", "exit",
       "drain"}
Places == Starting \union Up \union {"off", "io_init", "op_exit", "join", "over"}

Messages == [event : {"arrived", "left"}, dev : Devs]

Contexts ==
  [at : Places, active : BOOLEAN, list : Seq(Devs), ready : BOOLEAN, msgs : Seq(Messages),
   modified : BOOLEAN, piped : BOOLEAN, bytes : Nat, array : SUBSET Devs,
   handle : Devs \union {None}]

-----------------------------------------------------------------------------
(* The event pipe.                                                           *)

\* What a context has at which place; before its event pipe, nothing is pending.
LifeOf(x) ==
  /\ x.active <=> x.at \in (Starting \union Up \union {"io_init"}) \ {"drain"}
  /\ x.piped <=> x.at \in Up
  /\ x.ready => x.piped \/ x.at = "io_init"
  /\ x.piped => x.ready
  /\ ~x.piped => x.msgs = <<>> /\ ~x.modified /\ x.bytes = 0
  /\ x.array # {} => x.at \in {"listed", "opening", "gone"}
  /\ x.handle # None <=> x.at \in {"opening", "gone", "device2", "open"}
  /\ x.list # <<>> => x.active \/ x.at = "drain"

SignalOf(x) == x.piped => x.bytes = (IF Pending(x) THEN 1 ELSE 0)

ContextOK(x) == x \in Contexts /\ LifeOf(x) /\ SignalOf(x)

\* A uevent is on its way through contexts that are active.
WalkInv ==
  /\ walk = NoWalk \/ walk = [add |-> walk.add, addr |-> walk.addr, todo |-> walk.todo]
  /\ walk.todo \subseteq {c \in Ctx : ctx[c].active}
  /\ Walking => walk.add \in BOOLEAN

Uevents == [add : BOOLEAN, addr : Addr, device : BOOLEAN]

IsMemory(ds) == DOMAIN ds = Devs /\ ds = [d \in Devs |-> ds[d]]

SInv ==
  /\ ctx = [c \in Ctx |-> ctx[c]] /\ \A c \in Ctx : ContextOK(ctx[c])
  /\ IsMemory(dev) /\ WalkInv
  /\ uevents \in Seq(Uevents) /\ todo \subseteq Addr
  /\ Fixed \subseteq plugged /\ plugged \subseteq Addr

-----------------------------------------------------------------------------
(* References.                                                               *)

Structures ==
  [ctx : Ctx, addr : Addr, refs : Nat \ {0}, attached : BOOLEAN, parent : Devs \union {None}]

Times(b) == IF b THEN 1 ELSE 0
Message(e, d) == [event |-> e, dev |-> d]
InList(x, d) == \E i \in DOMAIN x.list : x.list[i] = d
HasLeft(x, d) == \E i \in DOMAIN x.msgs : x.msgs[i] = Message("left", d)
HasOpen(x, d) == x.handle = d /\ x.at # "device2"

\* The references a context holds on a device.
Local(x, d) ==
  Times(InList(x, d)) + Times(d \in x.array) + Times(HasOpen(x, d)) + Times(HasLeft(x, d))

\* All references on d but the ones of the devices behind it.
Direct(w, d) ==
  IF w.dev[d] = Free THEN 0 ELSE Local(w.ctx[w.dev[d].ctx], d) + Times(d \in w.lost)

Behind(ds, d) == {e \in Devs : ds[e] # Free /\ ds[e].parent = d}

\* Each structure counts its references, h[d] and those of the devices behind it.
Books(ds, h) ==
  /\ ds \in [Devs -> {Free} \union Structures]
  /\ \A d \in Devs :
       /\ h[d] \in Nat
       /\ ds[d] = Free => h[d] = 0
       /\ ds[d] # Free =>
            /\ ds[d].refs = h[d] + Cardinality(Behind(ds, d))
            /\ ds[d].addr \in Fixed => ds[d].parent = None
            /\ ds[d].parent # None =>
                 ds[ds[d].parent] # Free /\ ds[ds[d].parent].parent = None

PointsTo(x, d) ==
  InList(x, d) \/ d \in x.array \/ x.handle = d \/ \E i \in DOMAIN x.msgs : x.msgs[i].dev = d

\* A context points to devices of its own.  One is listed once, or a message or nobody has
\* the list's reference; what points to a device and holds none comes before its end.
PointsOK(ds, ls, c, x) ==
  /\ \A d \in Devs : PointsTo(x, d) => ds[d] # Free /\ ds[d].ctx = c
  /\ \A i, j \in DOMAIN x.list : x.list[i] = x.list[j] => i = j
  /\ \A i, j \in DOMAIN x.msgs : x.msgs[i] = x.msgs[j] /\ x.msgs[i].event = "left" => i = j
  /\ \A d \in Devs : InList(x, d) => ~HasLeft(x, d) /\ d \notin ls
  /\ \A d \in Devs : HasLeft(x, d) => d \notin ls
  /\ \A i \in DOMAIN x.msgs : x.msgs[i].event = "arrived" =>
       \/ InList(x, x.msgs[i].dev)
       \/ \E j \in DOMAIN x.msgs : i < j /\ x.msgs[j] = Message("left", x.msgs[i].dev)
  /\ x.at = "device2" => InList(x, x.handle) \/ HasLeft(x, x.handle)

Held(w) ==
  /\ Books(w.dev, [d \in Devs |-> Direct(w, d)])
  /\ \A c \in Ctx : PointsOK(w.dev, w.lost, c, w.ctx[c])
  /\ \A d \in w.lost : d \in Devs /\ w.dev[d] # Free

RInv == Held(Now) /\ (Walking => walk.addr \in Addr)

-----------------------------------------------------------------------------
(* Lists.                                                                    *)

Counted == {c \in Ctx : ctx[c].at \in Up \union {"io_init", "op_exit"}}
Begun == {c \in Ctx : ctx[c].at \in {"scan", "scanning", "inited"}}

\* Who is where with which lock.
LockInv ==
  /\ \A c \in Ctx :
       /\ locks.init = c <=> ctx[c].at \in Starting \union {"io_init"}
       /\ locks.startstop = c <=> ctx[c].at \in {"scan", "scanning", "inited", "join"}
       /\ locks.hotplug = c <=> ctx[c].at \in {"scanning", "polling", "gone"}
  /\ locks = [init |-> locks.init, startstop |-> locks.startstop, hotplug |-> locks.hotplug]
  /\ locks.init \in Ctx \union {None} /\ locks.startstop \in Ctx \union {None}
  /\ locks.hotplug \in Ctx \union {None, Netlink}
  /\ Walking => \/ locks.hotplug = Netlink
                \/ \E c \in Ctx : ctx[c].at \in {"polling", "gone"} /\ locks.hotplug = c

\* The monitor runs for those whom init_count counts, and stops when nobody is active.
MonitorInv ==
  /\ monitor \in {"none", "running", "stopping", "ended"}
  /\ IsFiniteSet(Counted) /\ initCount = Cardinality(Counted)
  /\ monitor \in {"stopping", "ended"} =>
       /\ \A c \in Ctx : ~ctx[c].active
       /\ \E c \in Ctx : ctx[c].at = "join"
  /\ monitor = "running" => Counted \union Begun # {}
  /\ host = "linux" /\ Counted \union Begun # {} => monitor = "running"
  /\ locks.hotplug = Netlink => monitor \in {"running", "stopping"}

\* The uevents of a that have not been read; the last one says whether a is plugged.
Unread(a) == {i \in DOMAIN uevents : uevents[i].device /\ uevents[i].addr = a}

QueueInv ==
  monitor = "running" =>
    /\ \A a \in Addr, i \in DOMAIN uevents :
         i \in Unread(a) /\ (\A j \in Unread(a) : j <= i) => (uevents[i].add <=> a \in plugged)
    /\ Walking /\ Unread(walk.addr) = {} => (walk.add <=> walk.addr \in plugged)

\* No uevent of a is on its way to c.
Quiet(c, a) == Unread(a) = {} /\ ~(c \in walk.todo /\ walk.addr = a)

Scanned(c, a) == ctx[c].at \notin {"op_init", "scan"} /\ ~(At(c, "scanning") /\ a \in todo)

\* Context c lists a device at address a, and one at most at each address.
Lists(w, c, a) == \E d \in Devs : InList(w.ctx[c], d) /\ w.dev[d].addr = a
OneEach(w, c) ==
  \A d, e \in Devs :
    InList(w.ctx[c], d) /\ InList(w.ctx[c], e) /\ w.dev[d].addr = w.dev[e].addr => d = e

\* What a list says of an address no uevent of which is on its way.
ListOf(c) ==
  /\ OneEach(Now, c)
  /\ \A a \in Addr : Quiet(c, a) => /\ Lists(Now, c, a) => a \in plugged
                                    /\ a \in plugged /\ Scanned(c, a) => Lists(Now, c, a)
  /\ At(c, "op_init") /\ monitor = "none" => ctx[c].list = <<>>

ListInv == \A c \in Ctx : ctx[c].active => ListOf(c)

LInv == LockInv /\ MonitorInv /\ (host = "linux" => QueueInv /\ ListInv)

=============================================================================
