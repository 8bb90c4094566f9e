-------------------------- MODULE UsbHotplugProofs --------------------------
(***************************************************************************)
(* For any number of contexts, any bus of devices behind hubs and any      *)
(* finite memory for their structures, short of the races of usbi_io_init  *)
(* and of the monitor: a byte is in a context's event pipe exactly while   *)
(* something is pending; the reference count of every device structure is  *)
(* the number of those who hold it; and, where sysfs is scanned, a list is *)
(* what is plugged when every uevent has been handled.                     *)
(***************************************************************************)
EXTENDS UsbHotplugInv, SequenceTheorems, FiniteSetTheorems, WellFoundedInduction, TLAPS

USE HotplugAssumption

-----------------------------------------------------------------------------
(* Contexts and their event pipes.                                           *)

\* What follows of one context that changes alone.
LEMMA OneContext ==
  ASSUME SInv, NEW c \in Ctx, NEW x, ctx' = [ctx EXCEPT ![c] = x], ContextOK(x),
         IsMemory(dev'), todo' \subseteq Addr, uevents' \in Seq(Uevents),
         plugged' \in SUBSET Addr, Fixed \subseteq plugged',
         \/ walk' = walk /\ (x.active = ctx[c].active \/ ~Walking)
         \/ walk' = NoWalk
         \/ /\ walk' = [add |-> walk'.add, addr |-> walk'.addr, todo |-> walk'.todo]
            /\ walk'.add \in BOOLEAN
            /\ walk'.todo \subseteq {e \in Ctx : ctx[e].active}
            /\ x.active = ctx[c].active
  PROVE  SInv'
<1>1. ctx' = [e \in Ctx |-> ctx'[e]] /\ \A e \in Ctx : ContextOK(ctx[e])'
  BY ZenonT(40) DEF SInv, ContextOK, LifeOf, SignalOf, Pending
<1>2. x.active = ctx[c].active => \A e \in Ctx : ctx'[e].active = ctx[e].active
  BY DEF SInv
<1>3. CASE walk' = NoWalk
  BY <1>1, <1>3 DEF SInv, WalkInv, NoWalk, Walking
<1>4. CASE walk' = walk /\ (x.active = ctx[c].active \/ ~Walking)
  <2>1. CASE ~Walking
    BY <1>3, <1>4, <2>1 DEF Walking
  <2>2. CASE x.active = ctx[c].active
    BY <1>1, <1>2, <1>4, <2>2 DEF SInv, WalkInv, Walking
  <2> QED
    BY <1>4, <2>1, <2>2
<1>5. CASE /\ walk' = [add |-> walk'.add, addr |-> walk'.addr, todo |-> walk'.todo]
           /\ walk'.add \in BOOLEAN
           /\ walk'.todo \subseteq {e \in Ctx : ctx[e].active}
           /\ x.active = ctx[c].active
  BY <1>1, <1>2, <1>5 DEF SInv, WalkInv, Walking
<1> QED
  BY <1>3, <1>4, <1>5

\* What follows when no context changes.
LEMMA NoContext ==
  ASSUME SInv, ctx' = ctx, IsMemory(dev'),
         todo' \subseteq Addr, uevents' \in Seq(Uevents),
         plugged' \in SUBSET Addr, Fixed \subseteq plugged',
         \/ walk' = walk
         \/ walk' = NoWalk
         \/ /\ walk' = [add |-> walk'.add, addr |-> walk'.addr, todo |-> walk'.todo]
            /\ walk'.add \in BOOLEAN
            /\ walk'.todo \subseteq {e \in Ctx : ctx[e].active}
  PROVE  SInv'
<1>1. ctx' = [e \in Ctx |-> ctx'[e]] /\ \A e \in Ctx : ContextOK(ctx[e])'
  BY DEF SInv, ContextOK, LifeOf, SignalOf, Pending
<1>2. WalkInv'
  <2>1. CASE walk' = walk
    BY <2>1 DEF SInv, WalkInv, Walking
  <2>2. CASE walk' = NoWalk
    BY <2>2 DEF SInv, WalkInv, NoWalk, Walking
  <2>3. CASE /\ walk' = [add |-> walk'.add, addr |-> walk'.addr, todo |-> walk'.todo]
             /\ walk'.add \in BOOLEAN /\ walk'.todo \subseteq {e \in Ctx : ctx[e].active}
    BY <2>3 DEF WalkInv
  <2> QED
    BY <2>1, <2>2, <2>3
<1> QED
  BY <1>1, <1>2 DEF SInv

\* usbi_fd_notification, when the pipe exists.
LEMMA FdKeeps ==
  ASSUME NEW x, ContextOK(x), x.piped
  PROVE  ContextOK(FdNotification(x)) /\ FdNotification(x).active = x.active
<1>1. CASE Pending(x)
  BY <1>1 DEF FdNotification, SignalIfFirst, Pending, ContextOK, LifeOf, SignalOf, Contexts
<1>2. CASE ~Pending(x)
  <2> DEFINE y == [x EXCEPT !.bytes = 1, !.modified = TRUE]
  <2>1. x.bytes = 0 /\ x \in Contexts
    BY <1>2 DEF ContextOK, SignalOf
  <2>2. FdNotification(x) = y
    BY <1>2, <2>1 DEF FdNotification, SignalIfFirst, Signal, Contexts
  <2>3. ContextOK(y) /\ y.active = x.active
    BY <2>1 DEF ContextOK, LifeOf, SignalOf, Contexts, Pending
  <2> QED
    BY <2>2, <2>3
<1> QED
  BY <1>1, <1>2

\* A world of contexts, between two steps or inside of one.
World(w) ==
  /\ w = [dev |-> w.dev, ctx |-> w.ctx, lost |-> w.lost]
  /\ IsMemory(w.dev)
  /\ w.ctx = [c \in Ctx |-> w.ctx[c]] /\ \A c \in Ctx : ContextOK(w.ctx[c])

\* What a context makes of a device that comes, and of the i-th of its list that leaves.
Joined(x, d) ==
  IF x.ready
    THEN [x EXCEPT !.list = <<d>> \o @, !.msgs = Append(@, Message("arrived", d)), !.bytes = 1]
    ELSE [x EXCEPT !.list = <<d>> \o @]

Left(x, i) ==
  IF x.ready
    THEN [x EXCEPT !.list = RemoveAt(@, i), !.msgs = Append(@, Message("left", x.list[i])),
                   !.bytes = 1]
    ELSE [x EXCEPT !.list = RemoveAt(@, i)]

\* The context can be told, or need not be.
Hears(x) == x.active /\ (x.ready => x.piped)

\* usbi_hotplug_notification leaves exactly one byte in the pipe.
LEMMA Notified ==
  ASSUME NEW x, x \in Contexts, SignalOf(x), x.piped, NEW e \in {"arrived", "left"}, NEW d \in Devs
  PROVE  Notification(x, e, d) = [x EXCEPT !.msgs = Append(@, Message(e, d)), !.bytes = 1]
<1>1. CASE Pending(x)
  <2>1. x.bytes = 1
    BY <1>1 DEF SignalOf
  <2>2. x = [x EXCEPT !.bytes = 1]
    BY <2>1 DEF Contexts
  <2> QED
    BY <1>1, <2>2 DEF Notification, SignalIfFirst, Message, Contexts
<1>2. CASE ~Pending(x)
  <2>1. x.bytes = 0
    BY <1>2 DEF SignalOf
  <2>2. SignalIfFirst(x) = [x EXCEPT !.bytes = 1]
    BY <1>2, <2>1 DEF SignalIfFirst, Signal, Contexts
  <2> QED
    BY <2>2 DEF Notification, Message, Contexts
<1> QED
  BY <1>1, <1>2

\* Both leave a context in order.
LEMMA JoinedOK ==
  ASSUME NEW x, ContextOK(x), Hears(x), NEW d \in Devs
  PROVE  /\ ContextOK(Joined(x, d)) /\ Hears(Joined(x, d))
         /\ Joined(x, d).at = x.at /\ Joined(x, d).active = x.active
         /\ Joined(x, d).ready = x.ready /\ Joined(x, d).piped = x.piped
         /\ Joined(x, d).list = <<d>> \o x.list
         /\ Joined(x, d).array = x.array /\ Joined(x, d).handle = x.handle
         /\ Joined(x, d).msgs = IF x.ready THEN Append(x.msgs, Message("arrived", d)) ELSE x.msgs
<1> DEFINE l == <<d>> \o x.list
           m == Append(x.msgs, Message("arrived", d))
<1>1. x \in Contexts /\ x.list \in Seq(Devs) /\ x.msgs \in Seq(Messages)
  BY DEF ContextOK, Contexts
<1>2. l \in Seq(Devs)
  BY <1>1
<1>3. m \in Seq(Messages) /\ m # <<>>
  <2>1. Message("arrived", d) \in Messages
    BY <1>1 DEF Messages, Message
  <2> QED
    BY <1>1, <2>1
<1> HIDE DEF l, m
<1>4. CASE x.ready
  <2> DEFINE y == [x EXCEPT !.list = l, !.msgs = m, !.bytes = 1]
  <2>1. Joined(x, d) = y
    BY <1>4 DEF Joined, l, m
  <2>2. /\ y \in Contexts /\ y.at = x.at /\ y.active = x.active /\ y.ready = x.ready
        /\ y.piped = x.piped /\ y.list = l /\ y.msgs = m /\ y.array = x.array
        /\ y.handle = x.handle /\ y.bytes = 1 /\ y.modified = x.modified
    BY <1>1, <1>2, <1>3 DEF Contexts
  <2> HIDE DEF y
  <2>3. ContextOK(y) /\ Hears(y)
    BY <1>1, <1>3, <1>4, <2>2 DEF ContextOK, LifeOf, SignalOf, Hears, Pending
  <2> QED
    BY <1>4, <2>1, <2>2, <2>3 DEF l, m
<1>5. CASE ~x.ready
  <2>1. Joined(x, d) = [x EXCEPT !.list = l]
    BY <1>5 DEF Joined, l
  <2> QED
    BY ZenonT(40), <1>1, <1>2, <1>5, <2>1
       DEF ContextOK, LifeOf, SignalOf, Hears, Contexts, Pending, l
<1> QED
  BY <1>4, <1>5

LEMMA LeftOK ==
  ASSUME NEW x, ContextOK(x), Hears(x), NEW i \in DOMAIN x.list
  PROVE  /\ ContextOK(Left(x, i)) /\ Hears(Left(x, i))
         /\ Left(x, i).at = x.at /\ Left(x, i).active = x.active
         /\ Left(x, i).ready = x.ready /\ Left(x, i).piped = x.piped
         /\ Left(x, i).list = RemoveAt(x.list, i)
         /\ Left(x, i).array = x.array /\ Left(x, i).handle = x.handle
         /\ Left(x, i).msgs = IF x.ready THEN Append(x.msgs, Message("left", x.list[i])) ELSE x.msgs
<1> DEFINE l == RemoveAt(x.list, i)
           m == Append(x.msgs, Message("left", x.list[i]))
<1>1. x \in Contexts /\ x.list \in Seq(Devs) /\ x.msgs \in Seq(Messages) /\ x.list # <<>>
  BY DEF ContextOK, Contexts
<1>2. l \in Seq(Devs)
  BY <1>1 DEF RemoveAt
<1>3. m \in Seq(Messages) /\ m # <<>>
  <2>1. Message("left", x.list[i]) \in Messages
    BY <1>1 DEF Messages, Message
  <2> QED
    BY <1>1, <2>1
<1> HIDE DEF l, m
<1>4. CASE x.ready
  <2> DEFINE y == [x EXCEPT !.list = l, !.msgs = m, !.bytes = 1]
  <2>1. Left(x, i) = y
    BY <1>4 DEF Left, l, m
  <2>2. /\ y \in Contexts /\ y.at = x.at /\ y.active = x.active /\ y.ready = x.ready
        /\ y.piped = x.piped /\ y.list = l /\ y.msgs = m /\ y.array = x.array
        /\ y.handle = x.handle /\ y.bytes = 1 /\ y.modified = x.modified
    BY <1>1, <1>2, <1>3 DEF Contexts
  <2> HIDE DEF y
  <2>3. ContextOK(y) /\ Hears(y)
    BY <1>1, <1>3, <1>4, <2>2 DEF ContextOK, LifeOf, SignalOf, Hears, Pending
  <2> QED
    BY <1>4, <2>1, <2>2, <2>3 DEF l, m
<1>5. CASE ~x.ready
  <2>1. Left(x, i) = [x EXCEPT !.list = l]
    BY <1>5 DEF Left, l
  <2> QED
    BY ZenonT(40), <1>1, <1>2, <1>5, <2>1
       DEF ContextOK, LifeOf, SignalOf, Hears, Contexts, Pending, l
<1> QED
  BY <1>4, <1>5

\* usbi_connect_device: one structure that was free is the context's.
New(c, a, parent) ==
  [ctx |-> c, addr |-> a, refs |-> 1, attached |-> TRUE, parent |-> parent]

LEMMA ConnectIs ==
  ASSUME NEW w, World(w), NEW c \in Ctx, Hears(w.ctx[c]), NEW a, NEW parent,
         \E d \in Devs : w.dev[d] = Free
  PROVE  \E d \in Devs :
           /\ w.dev[d] = Free
           /\ Connect(w, c, a, parent) =
                [dev  |-> [(IF parent = None THEN w.dev ELSE Ref(w.dev, parent))
                             EXCEPT ![d] = New(c, a, parent)],
                 ctx  |-> [w.ctx EXCEPT ![c] = Joined(w.ctx[c], d)],
                 lost |-> w.lost]
           /\ World(Connect(w, c, a, parent)) /\ Hears(Connect(w, c, a, parent).ctx[c])
<1> DEFINE d == CHOOSE d \in Devs : w.dev[d] = Free
           ds == IF parent = None THEN w.dev ELSE Ref(w.dev, parent)
           x == [w.ctx[c] EXCEPT !.list = <<d>> \o @]
           y == IF x.ready THEN Notification(x, "arrived", d) ELSE x
           devs == [ds EXCEPT ![d] = New(c, a, parent)]
           r == [dev |-> devs, ctx |-> [w.ctx EXCEPT ![c] = Joined(w.ctx[c], d)], lost |-> w.lost]
<1>1. d \in Devs /\ w.dev[d] = Free
  OBVIOUS
<1>2. Connect(w, c, a, parent) = [dev |-> devs, ctx |-> [w.ctx EXCEPT ![c] = y], lost |-> w.lost]
  <2>1. Connect(w, c, a, parent) = [w EXCEPT !.dev = devs, !.ctx = [@ EXCEPT ![c] = y]]
    BY DEF Connect, New
  <2> HIDE DEF devs, y
  <2> QED
    BY <2>1 DEF World
<1> HIDE DEF d
<1>3. y = Joined(w.ctx[c], d)
  <2>1. w.ctx[c] \in Contexts /\ ContextOK(w.ctx[c]) /\ w.ctx[c].list \in Seq(Devs)
    BY DEF World, ContextOK, Contexts
  <2>2. x \in Contexts /\ x.ready = w.ctx[c].ready /\ x.piped = w.ctx[c].piped /\ SignalOf(x)
    <3>1. <<d>> \o w.ctx[c].list \in Seq(Devs)
      BY <1>1, <2>1
    <3> HIDE DEF d
    <3> QED
      BY <2>1, <3>1 DEF Contexts, ContextOK, SignalOf, Pending
  <2>3. CASE w.ctx[c].ready
    <3>1. y = [x EXCEPT !.msgs = Append(@, Message("arrived", d)), !.bytes = 1]
      BY <1>1, <2>2, <2>3, Notified DEF Hears
    <3> QED
      BY <2>1, <2>3, <3>1 DEF Joined, Contexts
  <2>4. CASE ~w.ctx[c].ready
    BY <2>2, <2>4 DEF Joined
  <2> QED
    BY <2>3, <2>4
<1> HIDE DEF y
<1>4. Connect(w, c, a, parent) = r
  BY <1>2, <1>3
<1>5. IsMemory(devs)
  <2>1. IsMemory(w.dev) /\ IsMemory(ds)
    BY SMTT(30) DEF World, Ref, IsMemory
  <2> HIDE DEF ds
  <2> QED
    BY <2>1 DEF IsMemory
<1>6. ContextOK(Joined(w.ctx[c], d)) /\ Hears(Joined(w.ctx[c], d))
  BY <1>1, JoinedOK DEF World
<1>7. World(r) /\ Hears(r.ctx[c])
  <2> HIDE DEF devs
  <2> QED
    BY <1>5, <1>6 DEF World
<1> QED
  BY <1>1, <1>4, <1>7

\* A set of numbers has a smallest one.
LEMMA MinIs ==
  ASSUME NEW S \in SUBSET Nat, S # {} PROVE Min(S) \in S /\ \A j \in S : Min(S) <= j
<1>1. PICK i \in S : \A j \in S : ~(<<j, i>> \in OpToRel(<, Nat))
  BY WFMin, NatLessThanWellFounded
<1>2. ASSUME NEW j \in S PROVE i <= j
  <2>1. ~(<<j, i>> \in {ss \in Nat \X Nat : ss[1] < ss[2]})
    BY <1>1 DEF OpToRel
  <2>2. <<j, i>> \in Nat \X Nat /\ j \in Nat /\ i \in Nat
    OBVIOUS
  <2>3. ~(j < i)
    BY SMTT(30), <2>1, <2>2
  <2> QED
    BY <2>2, <2>3
<1> QED
  BY <1>2 DEF Min

\* usbi_get_device_by_session_id.
LEMMA BySessionIs ==
  ASSUME NEW w, World(w), NEW c \in Ctx, NEW a
  PROVE  /\ BySession(w, c, a) = None =>
              \A d \in Devs : InList(w.ctx[c], d) => w.dev[d].addr # a
         /\ BySession(w, c, a) # None =>
              /\ BySession(w, c, a) \in Devs /\ InList(w.ctx[c], BySession(w, c, a))
              /\ w.dev[BySession(w, c, a)].addr = a
<1> DEFINE l == w.ctx[c].list
           b == BySession(w, c, a)
           S == ListedAt(w, c, a)
<1>1. l \in Seq(Devs)
  BY SMTT(30) DEF World, ContextOK, Contexts
<1>2. S \in SUBSET Nat /\ \A i \in S : i \in DOMAIN l /\ w.dev[l[i]].addr = a
  BY SMTT(30), <1>1 DEF ListedAt
<1>3. \A d : InList(w.ctx[c], d) <=> \E i \in DOMAIN l : l[i] = d
  BY DEF InList
<1>4. \A i \in DOMAIN l : l[i] \in Devs /\ (w.dev[l[i]].addr = a => i \in S)
  BY <1>1 DEF ListedAt
<1>5. S = {} => b = None
  BY DEF BySession
<1>6. S # {} => b = l[Min(S)] /\ Min(S) \in S
  <2>1. S # {} => Min(S) \in S
    BY <1>2, MinIs
  <2> QED
    BY <2>1 DEF BySession
<1> HIDE DEF l, b, S
<1>7. S # {} => b \in Devs /\ b # None /\ w.dev[b].addr = a /\ \E i \in DOMAIN l : l[i] = b
  <2> SUFFICES ASSUME S # {}
               PROVE  b \in Devs /\ b # None /\ w.dev[b].addr = a /\ \E i \in DOMAIN l : l[i] = b
    OBVIOUS
  <2>1. PICK i \in S : b = l[i]
    BY Zenon, <1>6
  <2>2. i \in DOMAIN l /\ w.dev[l[i]].addr = a /\ l[i] \in Devs
    BY Zenon, <1>2, <1>4, <2>1
  <2>3. None \notin Devs
    BY HotplugAssumption
  <2> QED
    BY Zenon, <2>1, <2>2, <2>3
<1>8. S = {} => \A d \in Devs : (\E i \in DOMAIN l : l[i] = d) => w.dev[d].addr # a
  BY <1>4
<1>9. /\ b = None => \A d \in Devs : InList(w.ctx[c], d) => w.dev[d].addr # a
      /\ b # None => b \in Devs /\ InList(w.ctx[c], b) /\ w.dev[b].addr = a
  BY <1>3, <1>5, <1>7, <1>8
<1> QED
  BY <1>9 DEF b

\* Only context c has changed, and what it has besides its list and its messages has not.
Alike(w, v, c) ==
  /\ v.ctx = [w.ctx EXCEPT ![c] = v.ctx[c]]
  /\ v.ctx[c].at = w.ctx[c].at /\ v.ctx[c].active = w.ctx[c].active
  /\ v.ctx[c].ready = w.ctx[c].ready /\ v.ctx[c].piped = w.ctx[c].piped
  /\ v.ctx[c].array = w.ctx[c].array /\ v.ctx[c].handle = w.ctx[c].handle

LEMMA ConnectAlike ==
  ASSUME NEW w, World(w), NEW c \in Ctx, Hears(w.ctx[c]), NEW a, NEW parent,
         \E d \in Devs : w.dev[d] = Free
  PROVE  /\ World(Connect(w, c, a, parent)) /\ Hears(Connect(w, c, a, parent).ctx[c])
         /\ Alike(w, Connect(w, c, a, parent), c)
<1> DEFINE v == Connect(w, c, a, parent)
<1>1. PICK d \in Devs : /\ v.ctx = [w.ctx EXCEPT ![c] = Joined(w.ctx[c], d)]
                        /\ World(v) /\ Hears(v.ctx[c])
  <2>1. PICK d \in Devs :
          /\ v = [dev  |-> [(IF parent = None THEN w.dev ELSE Ref(w.dev, parent))
                              EXCEPT ![d] = New(c, a, parent)],
                  ctx  |-> [w.ctx EXCEPT ![c] = Joined(w.ctx[c], d)],
                  lost |-> w.lost]
          /\ World(v) /\ Hears(v.ctx[c])
    BY ConnectIs
  <2> HIDE DEF v
  <2>2. v.ctx = [w.ctx EXCEPT ![c] = Joined(w.ctx[c], d)]
    BY <2>1
  <2> QED
    BY <2>1, <2>2
<1> HIDE DEF v
<1>2. v.ctx[c] = Joined(w.ctx[c], d) /\ ContextOK(w.ctx[c])
  BY <1>1 DEF World
<1>3. /\ v.ctx[c].at = w.ctx[c].at /\ v.ctx[c].active = w.ctx[c].active
      /\ v.ctx[c].ready = w.ctx[c].ready /\ v.ctx[c].piped = w.ctx[c].piped
      /\ v.ctx[c].array = w.ctx[c].array /\ v.ctx[c].handle = w.ctx[c].handle
  <2> DEFINE x == w.ctx[c]
             y == Joined(x, d)
  <2>1. ContextOK(x) /\ Hears(x)
    BY <1>2
  <2>2. /\ y.at = x.at /\ y.active = x.active /\ y.ready = x.ready /\ y.piped = x.piped
        /\ y.array = x.array /\ y.handle = x.handle
    <3> HIDE DEF x
    <3> QED
      BY <2>1, JoinedOK
  <2> QED
    BY <1>2, <2>2
<1>4. Alike(w, v, c)
  BY <1>1, <1>2, <1>3 DEF Alike
<1> QED
  BY <1>1, <1>4 DEF v

\* linux_enumerate_device has found out about the parent, or there is none.
LEMMA OneAlike ==
  ASSUME NEW w, World(w), NEW c \in Ctx, Hears(w.ctx[c]), NEW a, \E d \in Devs : w.dev[d] = Free
  PROVE  /\ World(EnumerateOne(w, c, a)) /\ Hears(EnumerateOne(w, c, a).ctx[c])
         /\ Alike(w, EnumerateOne(w, c, a), c)
<1>1. CASE BySession(w, c, a) # None \/ ~Readable(a)
  <2>1. EnumerateOne(w, c, a) = w
    BY <1>1 DEF EnumerateOne
  <2> QED
    BY <2>1 DEF Alike, World
<1>2. CASE ~(BySession(w, c, a) # None \/ ~Readable(a))
  <2>1. PICK p : EnumerateOne(w, c, a) = Connect(w, c, a, p)
    BY <1>2 DEF EnumerateOne
  <2> QED
    BY <2>1, ConnectAlike
<1> QED
  BY <1>1, <1>2

LEMMA AlikeTwice ==
  ASSUME NEW w, NEW v, NEW u, NEW c \in Ctx, World(w), Alike(w, v, c), Alike(v, u, c)
  PROVE  Alike(w, u, c)
BY DEF Alike, World

\* With the hub in its place, one structure is left for the device.
LEMMA HubLeavesRoom ==
  ASSUME NEW w, World(w), NEW c \in Ctx, Hears(w.ctx[c]), NEW h \in Fixed,
         Cardinality({d \in Devs : w.dev[d] = Free}) > 1
  PROVE  /\ \E d \in Devs : w.dev[d] = Free
         /\ \E d \in Devs : EnumerateOne(w, c, h).dev[d] = Free
<1> DEFINE F == {d \in Devs : w.dev[d] = Free}
<1>1. IsFiniteSet(F)
  BY FS_Subset
<1>2. PICK d \in F : TRUE
  BY <1>1, FS_EmptySet
<1>3. \A x : F # {x}
  BY SMTT(30), FS_Singleton
<1>4. CASE BySession(w, c, h) # None \/ ~Readable(h)
  BY <1>2, <1>4 DEF EnumerateOne
<1>5. CASE ~(BySession(w, c, h) # None \/ ~Readable(h))
  <2>1. EnumerateOne(w, c, h) = Connect(w, c, h, None)
    BY <1>5 DEF EnumerateOne
  <2>2. PICK d1 \in Devs : Connect(w, c, h, None).dev = [w.dev EXCEPT ![d1] = New(c, h, None)]
    <3>1. \E e \in Devs : w.dev[e] = Free
      BY <1>2
    <3>2. PICK d1 \in Devs :
            Connect(w, c, h, None) = [dev |-> [(IF None = None THEN w.dev ELSE Ref(w.dev, None))
                                                 EXCEPT ![d1] = New(c, h, None)],
                                      ctx  |-> [w.ctx EXCEPT ![c] = Joined(w.ctx[c], d1)],
                                      lost |-> w.lost]
      BY <3>1, ConnectIs
    <3>3. Connect(w, c, h, None).dev =
            [(IF None = None THEN w.dev ELSE Ref(w.dev, None)) EXCEPT ![d1] = New(c, h, None)]
      BY <3>2
    <3> QED
      BY <3>3
  <2>3. PICK e \in F : e # d1
    BY <1>2, <1>3
  <2> QED
    BY <1>2, <2>1, <2>2, <2>3 DEF World, IsMemory
<1> QED
  BY <1>2, <1>4, <1>5

LEMMA EnumerateAlike ==
  ASSUME NEW w, World(w), NEW c \in Ctx, Hears(w.ctx[c]), NEW a, plugged \subseteq Addr,
         Cardinality({d \in Devs : w.dev[d] = Free}) > 1
  PROVE  /\ World(Enumerate(w, c, a)) /\ Hears(Enumerate(w, c, a).ctx[c])
         /\ Alike(w, Enumerate(w, c, a), c)
<1>1. \E d \in Devs : w.dev[d] = Free
  <2>1. IsFiniteSet({d \in Devs : w.dev[d] = Free})
    BY FS_Subset
  <2> QED
    BY <2>1, FS_EmptySet
<1>2. CASE BySession(w, c, a) = None /\ Readable(a) /\ Parent[a] # None
  <2> DEFINE v == EnumerateOne(w, c, Parent[a])
  <2>1. Enumerate(w, c, a) = EnumerateOne(v, c, a)
    BY <1>2 DEF Enumerate
  <2>2. World(v) /\ Hears(v.ctx[c]) /\ Alike(w, v, c)
    BY <1>1, OneAlike
  <2>3. \E d \in Devs : v.dev[d] = Free
    <3>1. Parent[a] \in Fixed
      BY <1>2 DEF Readable
    <3> QED
      BY <3>1, HubLeavesRoom
  <2> HIDE DEF v
  <2>4. /\ World(EnumerateOne(v, c, a)) /\ Hears(EnumerateOne(v, c, a).ctx[c])
        /\ Alike(v, EnumerateOne(v, c, a), c)
    BY <2>2, <2>3, OneAlike
  <2> QED
    BY <2>1, <2>2, <2>4, AlikeTwice
<1>3. CASE ~(BySession(w, c, a) = None /\ Readable(a) /\ Parent[a] # None)
  <2>1. Enumerate(w, c, a) = EnumerateOne(w, c, a)
    BY <1>3 DEF Enumerate
  <2> QED
    BY <1>1, <2>1, OneAlike
<1> QED
  BY <1>2, <1>3

\* usbi_disconnect_device takes the device out of the list, wherever it is.
LEMMA DisconnectIs ==
  ASSUME NEW w, World(w), NEW c \in Ctx, Hears(w.ctx[c]), NEW d \in Devs,
         InList(w.ctx[c], d)
  PROVE  \E i \in DOMAIN w.ctx[c].list :
           /\ w.ctx[c].list[i] = d
           /\ Disconnect(w, c, d) =
                [dev  |-> [w.dev EXCEPT ![d].attached = FALSE],
                 ctx  |-> [w.ctx EXCEPT ![c] = Left(w.ctx[c], i)],
                 lost |-> IF w.ctx[c].ready THEN w.lost ELSE w.lost \union {d}]
           /\ World(Disconnect(w, c, d)) /\ Hears(Disconnect(w, c, d).ctx[c])
           /\ Alike(w, Disconnect(w, c, d), c)
<1> DEFINE i == CHOOSE i \in DOMAIN w.ctx[c].list : w.ctx[c].list[i] = d
           x == w.ctx[c]
           y == [x EXCEPT !.list = RemoveAt(@, i)]
           z == IF y.ready THEN Notification(y, "left", d) ELSE y
           r == [dev  |-> [w.dev EXCEPT ![d].attached = FALSE],
                 ctx  |-> [w.ctx EXCEPT ![c] = Left(w.ctx[c], i)],
                 lost |-> IF w.ctx[c].ready THEN w.lost ELSE w.lost \union {d}]
<1>1. i \in DOMAIN x.list /\ x.list[i] = d
  BY DEF InList
<1>2. Disconnect(w, c, d) =
        [dev  |-> [w.dev EXCEPT ![d].attached = FALSE],
         ctx  |-> [w.ctx EXCEPT ![c] = z],
         lost |-> IF y.ready THEN w.lost ELSE w.lost \union {d}]
  BY DEF Disconnect
<1> HIDE DEF i
<1>3. x \in Contexts /\ ContextOK(x) /\ x.list \in Seq(Devs) /\ Hears(x)
  BY DEF World, ContextOK, Contexts
<1>4. y \in Contexts /\ y.ready = x.ready /\ y.piped = x.piped /\ SignalOf(y)
  <2>1. RemoveAt(x.list, i) \in Seq(Devs)
    BY SMTT(30), <1>1, <1>3 DEF RemoveAt
  <2> QED
    BY <1>3, <2>1 DEF Contexts, ContextOK, SignalOf, Pending
<1>5. z = Left(x, i)
  <2>1. CASE x.ready
    <3>1. z = [y EXCEPT !.msgs = Append(@, Message("left", d)), !.bytes = 1]
      BY <1>3, <1>4, <2>1, Notified DEF Hears
    <3> QED
      BY SMTT(30), <1>1, <1>3, <2>1, <3>1 DEF Left, Contexts
  <2>2. CASE ~x.ready
    BY <1>4, <2>2 DEF Left
  <2> QED
    BY <2>1, <2>2
<1>6. Disconnect(w, c, d) = r
  BY <1>2, <1>4, <1>5
<1>7. /\ ContextOK(Left(x, i)) /\ Hears(Left(x, i))
      /\ Left(x, i).at = x.at /\ Left(x, i).active = x.active
      /\ Left(x, i).ready = x.ready /\ Left(x, i).piped = x.piped
      /\ Left(x, i).array = x.array /\ Left(x, i).handle = x.handle
  BY <1>1, <1>3, LeftOK
<1>8. World(r) /\ Hears(r.ctx[c]) /\ Alike(w, r, c)
  <2>1. IsMemory([w.dev EXCEPT ![d].attached = FALSE])
    BY DEF World, IsMemory
  <2> QED
    BY <1>7, <2>1 DEF World, Alike
<1> QED
  BY <1>1, <1>6, <1>8

\* The structures stay where they are.
LEMMA DevFunctions ==
  /\ \A ds, S : IsMemory(UnrefAll(ds, S)) /\ IsMemory(Taken(ds, S))
  /\ \A ds, d : IsMemory(Unref(ds, d))
  /\ \A ds, d : IsMemory(ds) => IsMemory(Ref(ds, d))
<1>1. \A ds, S : IsMemory(UnrefAll(ds, S)) /\ IsMemory(Taken(ds, S))
  BY DEF UnrefAll, Taken, IsMemory
<1>2. \A ds, d : IsMemory(Unref(ds, d))
  BY <1>1 DEF Unref
<1>3. \A ds, d : IsMemory(ds) => IsMemory(Ref(ds, d))
  BY DEF Ref, IsMemory
<1> QED
  BY <1>1, <1>2, <1>3

\* A uevent on its way, and the context it has come to.
LEMMA NowWorld == ASSUME SInv PROVE World(Now)
BY DEF SInv, World, Now

LEMMA WalkFacts ==
  ASSUME SInv, Races = {}, NEW c \in Ctx, WalkOn(c)
  PROVE  /\ Hears(ctx[c])
         /\ walk.add => Room
         /\ walk' = IF walk.todo = {c} THEN NoWalk ELSE [walk EXCEPT !.todo = @ \ {c}]
         /\ \/ walk.add /\ Becomes(Enumerate(Now, c, walk.addr))
            \/ /\ ~walk.add /\ BySession(Now, c, walk.addr) # None
               /\ Becomes(Disconnect(Now, c, BySession(Now, c, walk.addr)))
            \/ ~walk.add /\ BySession(Now, c, walk.addr) = None /\ Becomes(Now)
<1>1. Walking /\ c \in walk.todo
  BY DEF WalkOn, Walking, NoWalk
<1>2. ctx[c].active /\ walk.add \in BOOLEAN
  BY <1>1 DEF SInv, WalkInv
<1>3. ctx[c].ready => ctx[c].piped
  BY DEF WalkOn, SInv, ContextOK, LifeOf, At
<1> QED
  BY <1>2, <1>3 DEF WalkOn, Hears

\* The first state.
LEMMA InitSignals == Init => SInv
<1> SUFFICES ASSUME Init PROVE SInv
  OBVIOUS
<1>1. ContextOK(NewContext)
  BY DEF NewContext, ContextOK, LifeOf, SignalOf, Contexts, Places, Starting, Up
<1>2. IsMemory(dev) /\ walk = NoWalk /\ NoWalk.todo = {} /\ ~Walking
  BY DEF Init, IsMemory, NoWalk, Walking
<1> QED
  BY <1>1, <1>2 DEF Init, SInv, WalkInv

\* The uevents of a walk, and what is left of it.
LEMMA WalkFromOK ==
  ASSUME SInv, uevents # <<>>, WalkFrom(Head(uevents)), uevents' = Tail(uevents)
  PROVE  /\ uevents' \in Seq(Uevents)
         /\ \/ walk' = NoWalk
            \/ /\ walk' = [add |-> walk'.add, addr |-> walk'.addr, todo |-> walk'.todo]
               /\ walk'.add \in BOOLEAN
               /\ walk'.todo \subseteq {e \in Ctx : ctx[e].active}
<1>1. Head(uevents) \in Uevents /\ Tail(uevents) \in Seq(Uevents)
  BY DEF SInv
<1> QED
  BY <1>1 DEF WalkFrom, Uevents

\* A change of the world inside of one context.
LEMMA BecomesKeeps ==
  ASSUME SInv, NEW c \in Ctx, NEW v, World(v), Alike(Now, v, c), Becomes(v),
         todo' \subseteq Addr, uevents' \in Seq(Uevents), plugged' = plugged,
         \/ walk' = walk
         \/ walk' = NoWalk
         \/ walk.todo # {} /\ \E T \in SUBSET walk.todo : walk' = [walk EXCEPT !.todo = T]
  PROVE  SInv'
<1>1. ctx' = [ctx EXCEPT ![c] = v.ctx[c]] /\ v.ctx[c].active = ctx[c].active
  BY DEF Becomes, Alike, Now
<1>2. ContextOK(v.ctx[c]) /\ IsMemory(dev') /\ plugged' \in SUBSET Addr /\ Fixed \subseteq plugged'
  BY DEF World, Becomes, SInv
<1>3. ASSUME walk.todo # {}, NEW T \in SUBSET walk.todo, walk' = [walk EXCEPT !.todo = T]
      PROVE  /\ walk' = [add |-> walk'.add, addr |-> walk'.addr, todo |-> walk'.todo]
             /\ walk'.add \in BOOLEAN
             /\ walk'.todo \subseteq {e \in Ctx : ctx[e].active}
  <2>1. Walking /\ walk # NoWalk
    BY <1>3 DEF Walking, NoWalk
  <2> QED
    BY <1>3, <2>1 DEF SInv, WalkInv
<1> HIDE DEF World, Alike, Becomes
<1> QED
  BY <1>1, <1>2, <1>3, OneContext

\* The kernel appends two uevents.
LEMMA TwoMore ==
  ASSUME NEW E, NEW s \in Seq(E), NEW x \in E, NEW y \in E PROVE s \o <<x, y>> \in Seq(E)
OBVIOUS

LEMMA ReceivesOK ==
  ASSUME SInv, NEW a \in Addr, NEW b \in BOOLEAN,
         Receives(<<Uevent(b, a), Other(b, a)>>) \/ Receives(<<Other(b, a), Uevent(b, a)>>)
  PROVE  uevents' \in Seq(Uevents)
<1>1. Uevent(b, a) \in Uevents /\ Other(b, a) \in Uevents /\ uevents \in Seq(Uevents)
  BY DEF Uevent, Other, SInv, Uevents
<1>2. uevents \o <<Uevent(b, a), Other(b, a)>> \in Seq(Uevents)
  BY <1>1, TwoMore
<1>3. uevents \o <<Other(b, a), Uevent(b, a)>> \in Seq(Uevents)
  BY <1>1, TwoMore
<1> QED
  BY <1>1, <1>2, <1>3 DEF Receives

\* The kernel and the netlink thread.
LEMMA NetlinkSignals ==
  ASSUME SInv, Races = {},
         (\E a \in Addr : Plug(a) \/ Unplug(a)) \/ NetlinkStep
  PROVE  SInv'
<1>1. ASSUME NEW a \in Addr, Plug(a) PROVE SInv'
  <2>1. uevents' \in Seq(Uevents)
    BY <1>1, ReceivesOK DEF Plug
  <2> QED
    BY <1>1, <2>1, NoContext DEF Plug, SInv
<1>2. ASSUME NEW a \in Addr, Unplug(a) PROVE SInv'
  <2>1. uevents' \in Seq(Uevents)
    BY <1>2, ReceivesOK DEF Unplug
  <2> QED
    BY <1>2, <2>1, NoContext DEF Unplug, SInv
<1>3. CASE NetlinkReads
  BY <1>3, NoContext, WalkFromOK DEF NetlinkReads, SInv, world
<1>4. CASE WalkNobody \/ NetlinkDone \/ NetlinkEnds
  BY <1>4, NoContext DEF WalkNobody, NetlinkDone, NetlinkEnds, SInv, world
<1>5. ASSUME NEW c \in Ctx, WalkOn(c) PROVE SInv'
  <2>1. World(Now) /\ Now.ctx = ctx /\ Now.dev = dev /\ Hears(ctx[c])
    BY <1>5, NowWorld, WalkFacts DEF Now
  <2>2. todo' \subseteq Addr /\ uevents' \in Seq(Uevents) /\ plugged' = plugged
    BY <1>5 DEF WalkOn, SInv, world
  <2>3. \/ walk' = NoWalk
        \/ walk.todo # {} /\ \E T \in SUBSET walk.todo : walk' = [walk EXCEPT !.todo = T]
    BY <1>5 DEF WalkOn
  <2>4. CASE walk.add /\ Becomes(Enumerate(Now, c, walk.addr))
    <3>1. Cardinality({d \in Devs : Now.dev[d] = Free}) > 1 /\ plugged \subseteq Addr
      BY <1>5, <2>1, <2>4, WalkFacts DEF Room, SInv
    <3>2. World(Enumerate(Now, c, walk.addr)) /\ Alike(Now, Enumerate(Now, c, walk.addr), c)
      BY <2>1, <3>1, EnumerateAlike
    <3> QED
      BY <2>2, <2>3, <2>4, <3>2, BecomesKeeps
  <2>5. CASE /\ ~walk.add /\ BySession(Now, c, walk.addr) # None
             /\ Becomes(Disconnect(Now, c, BySession(Now, c, walk.addr)))
    <3> DEFINE d == BySession(Now, c, walk.addr)
    <3>1. d \in Devs /\ InList(Now.ctx[c], d)
      BY SMTT(30), <2>1, <2>5, BySessionIs
    <3> HIDE DEF d
    <3>2. World(Disconnect(Now, c, d)) /\ Alike(Now, Disconnect(Now, c, d), c)
      BY <2>1, <3>1, DisconnectIs
    <3> QED
      BY <2>2, <2>3, <2>5, <3>2, BecomesKeeps DEF d
  <2>6. CASE Becomes(Now)
    <3>1. Alike(Now, Now, c)
      BY <2>1 DEF Alike, World
    <3> QED
      BY <2>1, <2>2, <2>3, <2>6, <3>1, BecomesKeeps
  <2> QED
    BY <1>5, <2>4, <2>5, <2>6, WalkFacts
<1> QED
  BY <1>1, <1>2, <1>3, <1>4, <1>5 DEF NetlinkStep

\* The threads.
LEMMA NewContextOK ==
  ASSUME NEW q \in {"op_exit", "over"}
  PROVE  ContextOK([NewContext EXCEPT !.at = q]) /\ ~[NewContext EXCEPT !.at = q].active
<1> DEFINE y == [NewContext EXCEPT !.at = q]
<1>1. /\ NewContext \in Contexts /\ ~NewContext.active /\ ~NewContext.ready /\ ~NewContext.piped
      /\ NewContext.msgs = <<>> /\ ~NewContext.modified /\ NewContext.bytes = 0
      /\ NewContext.array = {} /\ NewContext.handle = None /\ NewContext.list = <<>>
  BY DEF NewContext, Contexts, Places, Starting, Up
<1>2. /\ y \in Contexts /\ ~y.active /\ ~y.ready /\ ~y.piped
      /\ y.msgs = <<>> /\ ~y.modified /\ y.bytes = 0 /\ y.at = q
      /\ y.array = {} /\ y.handle = None /\ y.list = <<>>
  BY <1>1 DEF Contexts, Places
<1> HIDE DEF y
<1>3. ContextOK(y)
  BY <1>2 DEF ContextOK, LifeOf, SignalOf, Starting, Up
<1> QED
  BY <1>2, <1>3 DEF y

\* The threads of the driver.
LEMMA SessionSignals ==
  ASSUME SInv, NEW c \in Ctx, Session(c) PROVE SInv'
<1> DEFINE x == ctx[c]
<1>1. ContextOK(x) /\ todo \subseteq Addr
  BY DEF SInv
<1>2. /\ dev' = dev => IsMemory(dev')
      /\ \A d : dev' = Ref(dev, d) => IsMemory(dev')
      /\ \A S : dev' = Taken(dev, S) => IsMemory(dev')
  BY DevFunctions DEF SInv
<1>3. \A ds, S : dev' = UnrefAll(ds, S) \/ dev' = Unref(ds, S) => IsMemory(dev')
  BY DevFunctions
<1>4. uevents' = uevents \/ uevents' = <<>> => uevents' \in Seq(Uevents)
  <2>1. uevents \in Seq(Uevents) /\ <<>> \in Seq(Uevents)
    BY DEF SInv
  <2> QED
    BY <2>1
<1>0. UNCHANGED world => plugged' = plugged /\ plugged' \in SUBSET Addr /\ Fixed \subseteq plugged'
  BY DEF SInv, world
<1>5. todo' = todo => todo' \subseteq Addr
  BY <1>1
<1>6. x \in Contexts /\ LifeOf(x) /\ SignalOf(x)
  BY <1>1 DEF ContextOK
<1>7. CASE NewActive(c)
  <2> DEFINE y == [x EXCEPT !.at = "op_init", !.active = TRUE]
  <2>1. ctx' = [ctx EXCEPT ![c] = y]
    BY <1>7 DEF NewActive, At, SInv
  <2>2. ContextOK(y) /\ (y.active = x.active \/ ~Walking)
    BY <1>1, <1>6, <1>7 DEF NewActive, At, ContextOK, LifeOf, SignalOf, Pending, Contexts,
         Starting, Up, Places
  <2> HIDE DEF y
  <2> QED
    BY <1>0, <1>2, <1>3, <1>4, <1>5, <1>7, <2>1, <2>2, OneContext
         DEF NewActive, world, Dereferenced
<1>8. CASE OpInit(c)
  <2> DEFINE q == IF host = "linux" THEN "scan" ELSE "inited"
             y == [x EXCEPT !.at = q]
  <2>1. ctx' = [ctx EXCEPT ![c] = y] /\ x.at = "op_init" /\ q \in {"scan", "inited"}
    BY <1>8 DEF OpInit, Go, At, SInv
  <2> HIDE DEF q
  <2>2. ContextOK(y) /\ y.active = x.active
    BY <1>6, <2>1 DEF ContextOK, LifeOf, SignalOf, Pending, Contexts, Starting, Up, Places
  <2> HIDE DEF y
  <2> QED
    BY <1>0, <1>2, <1>3, <1>4, <1>5, <1>8, <2>1, <2>2, OneContext DEF OpInit, world
<1>9. CASE StartFails(c)
  <2> DEFINE y == [NewContext EXCEPT !.at = "over"]
  <2>1. ctx' = [ctx EXCEPT ![c] = y]
    BY <1>9 DEF StartFails, At, SInv
  <2>2. ContextOK(y) /\ (y.active = x.active \/ ~Walking)
    BY <1>1, <1>9, NewContextOK DEF StartFails
  <2> HIDE DEF y
  <2> QED
    BY <1>0, <1>2, <1>3, <1>4, <1>5, <1>9, <2>1, <2>2, OneContext
         DEF StartFails, world, Dereferenced
<1>10. CASE ScanStart(c)
  <2> DEFINE y == [x EXCEPT !.at = "scanning"]
  <2>1. ctx' = [ctx EXCEPT ![c] = y]
    BY <1>10 DEF ScanStart, Go, At, SInv
  <2>2. ContextOK(y) /\ (y.active = x.active \/ ~Walking)
    BY <1>1, <1>6, <1>10 DEF ScanStart, At, ContextOK, LifeOf, SignalOf, Pending, Contexts,
         Starting, Up, Places
  <2> HIDE DEF y
  <2> QED
    BY <1>0, <1>2, <1>3, <1>4, <1>5, <1>10, <2>1, <2>2, OneContext
         DEF ScanStart, world, Dereferenced
<1>11. CASE Scan(c)
  <2>1. World(Now) /\ Now.ctx = ctx /\ Now.dev = dev
    BY NowWorld DEF Now
  <2>2. /\ Hears(ctx[c]) /\ walk' = walk /\ uevents' \in Seq(Uevents)
        /\ plugged \subseteq Addr /\ plugged' = plugged
    BY <1>0, <1>4, <1>6, <1>11 DEF SInv, Scan, At, Hears, LifeOf, Up, Starting
  <2>3. PICK a \in todo : todo' = todo \ {a} /\ Becomes(Enumerate(Now, c, a))
    BY <1>11 DEF Scan
  <2>4. Cardinality({d \in Devs : Now.dev[d] = Free}) > 1 /\ a \in Addr /\ todo' \subseteq Addr
    BY <1>1, <1>11, <2>1, <2>3 DEF Room, Scan
  <2>5. World(Enumerate(Now, c, a)) /\ Alike(Now, Enumerate(Now, c, a), c)
    BY <2>1, <2>2, <2>4, EnumerateAlike
  <2> QED
    BY <2>2, <2>3, <2>4, <2>5, BecomesKeeps
<1>12. CASE ScanDone(c)
  <2> DEFINE y == [x EXCEPT !.at = "inited"]
  <2>1. ctx' = [ctx EXCEPT ![c] = y]
    BY <1>12 DEF ScanDone, Go, At, SInv
  <2>2. ContextOK(y) /\ (y.active = x.active \/ ~Walking)
    BY <1>1, <1>6, <1>12 DEF ScanDone, At, ContextOK, LifeOf, SignalOf, Pending, Contexts,
         Starting, Up, Places
  <2> HIDE DEF y
  <2> QED
    BY <1>0, <1>2, <1>3, <1>4, <1>5, <1>12, <2>1, <2>2, OneContext
         DEF ScanDone, world, Dereferenced
<1>13. CASE OpInitDone(c)
  <2> DEFINE y == [x EXCEPT !.at = "io_init"]
  <2>1. ctx' = [ctx EXCEPT ![c] = y]
    BY <1>13 DEF OpInitDone, Go, At, SInv
  <2>2. ContextOK(y) /\ (y.active = x.active \/ ~Walking)
    BY <1>1, <1>6, <1>13 DEF OpInitDone, At, ContextOK, LifeOf, SignalOf, Pending, Contexts,
         Starting, Up, Places
  <2> HIDE DEF y
  <2> QED
    BY <1>0, <1>2, <1>3, <1>4, <1>5, <1>13, <2>1, <2>2, OneContext
         DEF OpInitDone, world, Dereferenced
<1>14. CASE MessageList(c)
  <2> DEFINE y == [x EXCEPT !.ready = TRUE]
  <2>1. ctx' = [ctx EXCEPT ![c] = y]
    BY <1>14 DEF MessageList, At, SInv
  <2>2. ContextOK(y) /\ (y.active = x.active \/ ~Walking)
    BY <1>1, <1>6, <1>14 DEF MessageList, At, ContextOK, LifeOf, SignalOf, Pending, Contexts,
         Starting, Up, Places
  <2> HIDE DEF y
  <2> QED
    BY <1>0, <1>2, <1>3, <1>4, <1>5, <1>14, <2>1, <2>2, OneContext
         DEF MessageList, world, Dereferenced
<1>15. CASE EventPipe(c)
  <2> DEFINE y == [x EXCEPT !.at = "ready", !.piped = TRUE, !.bytes = 1, !.modified = TRUE]
             z == [x EXCEPT !.at = "ready", !.piped = TRUE]
  <2>1. z \in Contexts /\ ~Pending(z) /\ z.piped /\ z.bytes = 0
    BY <1>6, <1>15 DEF EventPipe, At, ContextOK, LifeOf, SignalOf, Pending, Contexts, Starting,
         Up, Places
  <2>2. FdNotification(z) = y
    <3>1. y = [z EXCEPT !.bytes = 1, !.modified = TRUE]
      BY <1>6 DEF Contexts
    <3> HIDE DEF z, y
    <3>2. SignalIfFirst(z) = [z EXCEPT !.bytes = 1]
      BY <2>1 DEF SignalIfFirst, Signal
    <3> QED
      BY <3>1, <3>2 DEF FdNotification
  <2>3. ctx' = [ctx EXCEPT ![c] = y]
    BY <1>15, <2>2 DEF EventPipe, SInv
  <2>4. ContextOK(y) /\ y.active = x.active
    BY <1>6, <1>15 DEF EventPipe, At, ContextOK, LifeOf, SignalOf, Pending, Contexts, Starting,
         Up, Places
  <2> HIDE DEF y
  <2> QED
    BY <1>0, <1>2, <1>3, <1>4, <1>5, <1>15, <2>3, <2>4, OneContext DEF EventPipe, world
<1>16. CASE PollStart(c)
  <2> DEFINE y == [x EXCEPT !.at = "polling"]
  <2>1. ctx' = [ctx EXCEPT ![c] = y]
    BY <1>16 DEF PollStart, Go, At, SInv
  <2>2. ContextOK(y) /\ (y.active = x.active \/ ~Walking)
    BY <1>1, <1>6, <1>16 DEF PollStart, At, ContextOK, LifeOf, SignalOf, Pending, Contexts,
         Starting, Up, Places
  <2> HIDE DEF y
  <2> QED
    BY <1>0, <1>2, <1>3, <1>4, <1>5, <1>16, <2>1, <2>2, OneContext
         DEF PollStart, world, Dereferenced
<1>17. CASE PollOn(c)
  <2>1. \/ ctx' = ctx
        \/ x.at = "polling" /\ ctx' = [ctx EXCEPT ![c] = [x EXCEPT !.at = "listing"]]
    BY <1>17 DEF PollOn, Go, At, SInv
  <2>2. x.at = "polling" =>
          ContextOK([x EXCEPT !.at = "listing"]) /\ [x EXCEPT !.at = "listing"].active = x.active
    BY <1>6 DEF ContextOK, LifeOf, SignalOf, Pending, Contexts, Starting, Up, Places
  <2>3. /\ uevents' \in Seq(Uevents)
        /\ \/ walk' = NoWalk
           \/ /\ walk' = [add |-> walk'.add, addr |-> walk'.addr, todo |-> walk'.todo]
              /\ walk'.add \in BOOLEAN
              /\ walk'.todo \subseteq {e \in Ctx : ctx[e].active}
    BY <1>17, WalkFromOK DEF PollOn
  <2> HIDE DEF x
  <2>4. IsMemory(dev') /\ todo' \subseteq Addr
    BY <1>2, <1>5, <1>17 DEF PollOn
  <2>5. plugged' \in SUBSET Addr /\ Fixed \subseteq plugged'
    BY <1>0, <1>17 DEF PollOn
  <2>6. CASE ctx' = ctx
    BY <2>3, <2>4, <2>5, <2>6, NoContext
  <2> QED
    BY <2>1, <2>2, <2>3, <2>4, <2>5, <2>6, OneContext DEF x
<1>18. CASE PollDone(c)
  <2> DEFINE y == [x EXCEPT !.at = "listing"]
  <2>1. ctx' = [ctx EXCEPT ![c] = y]
    BY <1>18 DEF PollDone, Go, At, SInv
  <2>2. ContextOK(y) /\ (y.active = x.active \/ ~Walking)
    BY <1>1, <1>6, <1>18 DEF PollDone, At, ContextOK, LifeOf, SignalOf, Pending, Contexts,
         Starting, Up, Places
  <2> HIDE DEF y
  <2> QED
    BY <1>0, <1>2, <1>3, <1>4, <1>5, <1>18, <2>1, <2>2, OneContext
         DEF PollDone, world, Dereferenced
<1>19. CASE GetDeviceList(c)
  <2> DEFINE y == [x EXCEPT !.at = "listed", !.array = ToSet(x.list)]
  <2>0. ToSet(x.list) \in SUBSET Devs
    BY <1>6 DEF Contexts, ToSet
  <2>1. ctx' = [ctx EXCEPT ![c] = y]
    BY <1>19 DEF GetDeviceList, At, SInv
  <2>2. ContextOK(y) /\ (y.active = x.active \/ ~Walking)
    BY <1>1, <1>6, <1>19, <2>0 DEF GetDeviceList, At, ContextOK, LifeOf, SignalOf, Pending,
         Contexts, Starting, Up, Places
  <2> HIDE DEF y
  <2> QED
    BY <1>0, <1>2, <1>3, <1>4, <1>5, <1>19, <2>1, <2>2, OneContext
         DEF GetDeviceList, world, Dereferenced
<1>20. CASE FreeDeviceList(c)
  <2> DEFINE y == [x EXCEPT !.at = "exit", !.array = {}]
  <2>1. ctx' = [ctx EXCEPT ![c] = y]
    BY <1>20 DEF FreeDeviceList, At, SInv
  <2>2. ContextOK(y) /\ (y.active = x.active \/ ~Walking)
    BY <1>1, <1>6, <1>20 DEF FreeDeviceList, At, ContextOK, LifeOf, SignalOf, Pending, Contexts,
         Starting, Up, Places
  <2> HIDE DEF y
  <2> QED
    BY <1>0, <1>2, <1>3, <1>4, <1>5, <1>20, <2>1, <2>2, OneContext
         DEF FreeDeviceList, world, Dereferenced
<1>21. ASSUME NEW d \in Devs, Open(c, d) PROVE SInv'
  <2> DEFINE y == [x EXCEPT !.at = "opening", !.handle = d]
  <2>1. ctx' = [ctx EXCEPT ![c] = y]
    BY <1>21 DEF Open, At, SInv
  <2>2. ContextOK(y) /\ (y.active = x.active \/ ~Walking)
    BY <1>1, <1>6, <1>21 DEF Open, At, ContextOK, LifeOf, SignalOf, Pending, Contexts, Starting,
         Up, Places
  <2> HIDE DEF y
  <2> QED
    BY <1>0, <1>2, <1>3, <1>4, <1>5, <1>21, <2>1, <2>2, OneContext DEF Open, world, Dereferenced
<1>22. CASE OpenNode(c)
  <2> DEFINE z == [x EXCEPT !.at = "open", !.array = {}]
  <2>1. ctx' = [ctx EXCEPT ![c] = FdNotification(z)]
    BY <1>22 DEF OpenNode, At, SInv
  <2>2. ContextOK(z) /\ z.piped /\ z.active = x.active
    BY <1>6, <1>22 DEF OpenNode, At, ContextOK, LifeOf, SignalOf, Pending, Contexts, Starting, Up,
         Places
  <2> HIDE DEF z
  <2>3. ContextOK(FdNotification(z)) /\ FdNotification(z).active = x.active
    BY <2>2, FdKeeps
  <2> QED
    BY <1>0, <1>2, <1>3, <1>4, <1>5, <1>22, <2>1, <2>3, OneContext DEF OpenNode, world
<1>23. CASE OpenGone(c)
  <2>1. ctx' = [ctx EXCEPT ![c] = [x EXCEPT !.at = "gone"]] /\ x.at = "opening"
    BY <1>23 DEF OpenGone, Go, At, SInv
  <2>2. ContextOK([x EXCEPT !.at = "gone"]) /\ [x EXCEPT !.at = "gone"].active = x.active
    BY <1>6, <2>1 DEF ContextOK, LifeOf, SignalOf, Pending, Contexts, Starting, Up, Places
  <2>3. walk' = NoWalk \/ walk' = [add |-> FALSE, addr |-> dev[x.handle].addr,
                                  todo |-> {e \in Ctx : ctx[e].active}]
    BY <1>23 DEF OpenGone
  <2>4. x.handle \in Devs
    BY <1>6, <2>1 DEF LifeOf, Contexts
  <2> QED
    BY <1>0, <1>2, <1>3, <1>4, <1>5, <1>23, <2>1, <2>2, <2>3, OneContext DEF OpenGone, world
<1>24. CASE OpenFails(c)
  <2> DEFINE y == [x EXCEPT !.at = "exit", !.array = {}, !.handle = None]
  <2>1. ctx' = [ctx EXCEPT ![c] = y]
    BY <1>24 DEF OpenFails, At, SInv
  <2>2. ContextOK(y) /\ (y.active = x.active \/ ~Walking)
    BY <1>1, <1>6, <1>24 DEF OpenFails, At, ContextOK, LifeOf, SignalOf, Pending, Contexts,
         Starting, Up, Places
  <2> HIDE DEF y
  <2> QED
    BY <1>0, <1>2, <1>3, <1>4, <1>5, <1>24, <2>1, <2>2, OneContext
         DEF OpenFails, world, Dereferenced
<1>25. ASSUME NEW a \in Addr, GetDevice2(c, a) PROVE SInv'
  <2> DEFINE v == Connect(Now, c, a, None)
             d == Head(v.ctx[c].list)
             y == [v.ctx[c] EXCEPT !.at = "device2", !.handle = d]
  <2>1. World(Now) /\ Now.ctx = ctx /\ Now.dev = dev /\ Hears(ctx[c]) /\ ctx[c].at = "ready"
    BY <1>6, <1>25, NowWorld DEF Now, Hears, GetDevice2, At, LifeOf, Up, Starting
  <2>2. \E e \in Devs : dev[e] = Free
    <3>1. IsFiniteSet({e \in Devs : dev[e] = Free}) /\ Cardinality({e \in Devs : dev[e] = Free}) > 1
      BY <1>25, FS_Subset DEF GetDevice2, Room
    <3> QED
      BY <3>1, FS_EmptySet
  <2>3. World(v) /\ Alike(Now, v, c)
    BY <2>1, <2>2, ConnectAlike
  <2>4. PICK e \in Devs : v.ctx[c].list = <<e>> \o ctx[c].list
    <3>1. PICK e \in Devs : v = [dev  |-> [(IF None = None THEN Now.dev ELSE Ref(Now.dev, None))
                                            EXCEPT ![e] = New(c, a, None)],
                                ctx  |-> [Now.ctx EXCEPT ![c] = Joined(Now.ctx[c], e)],
                                lost |-> Now.lost]
      BY <2>1, <2>2, ConnectIs
    <3> HIDE DEF v
    <3>2. v.ctx[c] = Joined(ctx[c], e)
      BY <2>1, <3>1 DEF SInv
    <3>3. Joined(x, e).list = <<e>> \o x.list
      BY SMTT(30), <1>1, <2>1, JoinedOK
    <3> QED
      BY <3>2, <3>3
  <2>5. Becomes([v EXCEPT !.ctx = [@ EXCEPT ![c].at = "device2", ![c].handle = d]])
    BY <1>25 DEF GetDevice2
  <2> HIDE DEF v
  <2>6. d = e
    BY <1>6, <2>4 DEF Contexts
  <2>7. dev' = v.dev /\ ctx' = [ctx EXCEPT ![c] = y]
    BY <2>1, <2>3, <2>5 DEF Becomes, World, Alike
  <2>8. ContextOK(v.ctx[c]) /\ v.ctx[c].at = "ready" /\ v.ctx[c].active = x.active /\ IsMemory(dev')
    BY <2>1, <2>3, <2>7 DEF World, Alike
  <2>9. ContextOK(y) /\ y.active = x.active
    <3> DEFINE u == v.ctx[c]
    <3>1. ContextOK(u) /\ u.at = "ready" /\ u.active = x.active
      BY <2>8
    <3> HIDE DEF u, d
    <3>2. ContextOK([u EXCEPT !.at = "device2", !.handle = d])
          /\ [u EXCEPT !.at = "device2", !.handle = d].active = x.active
      BY <2>6, <3>1 DEF ContextOK, LifeOf, SignalOf, Pending, Contexts, Starting, Up, Places
    <3> QED
      BY <3>2 DEF u
  <2> HIDE DEF y
  <2> QED
    BY <1>0, <1>4, <1>5, <1>25, <2>7, <2>8, <2>9, OneContext DEF GetDevice2, world
<1>26. CASE NoDevice2(c)
  <2> DEFINE y == [x EXCEPT !.at = "exit"]
  <2>1. ctx' = [ctx EXCEPT ![c] = y]
    BY <1>26 DEF NoDevice2, Go, At, SInv
  <2>2. ContextOK(y) /\ (y.active = x.active \/ ~Walking)
    BY <1>1, <1>6, <1>26 DEF NoDevice2, At, ContextOK, LifeOf, SignalOf, Pending, Contexts,
         Starting, Up, Places
  <2> HIDE DEF y
  <2> QED
    BY <1>0, <1>2, <1>3, <1>4, <1>5, <1>26, <2>1, <2>2, OneContext
         DEF NoDevice2, world, Dereferenced
<1>27. CASE Open2(c)
  <2> DEFINE z == [x EXCEPT !.at = "open"]
  <2>1. ctx' = [ctx EXCEPT ![c] = FdNotification(z)]
    BY <1>27 DEF Open2, At, SInv
  <2>2. ContextOK(z) /\ z.piped /\ z.active = x.active
    BY <1>6, <1>27 DEF Open2, At, ContextOK, LifeOf, SignalOf, Pending, Contexts, Starting, Up,
         Places
  <2> HIDE DEF z
  <2>3. ContextOK(FdNotification(z)) /\ FdNotification(z).active = x.active
    BY <2>2, FdKeeps
  <2> QED
    BY <1>0, <1>2, <1>3, <1>4, <1>5, <1>27, <2>1, <2>3, OneContext DEF Open2, world
<1>28. CASE Open2Fails(c)
  <2> DEFINE y == [x EXCEPT !.at = "exit", !.handle = None]
  <2>1. ctx' = [ctx EXCEPT ![c] = y]
    BY <1>28 DEF Open2Fails, At, SInv
  <2>2. ContextOK(y) /\ (y.active = x.active \/ ~Walking)
    BY <1>1, <1>6, <1>28 DEF Open2Fails, At, ContextOK, LifeOf, SignalOf, Pending, Contexts,
         Starting, Up, Places
  <2> HIDE DEF y
  <2> QED
    BY <1>0, <1>2, <1>3, <1>4, <1>5, <1>28, <2>1, <2>2, OneContext
         DEF Open2Fails, world, Dereferenced
<1>29. CASE TakePollfds(c)
  <2> DEFINE y == [x EXCEPT !.modified = FALSE, !.bytes = IF x.msgs = <<>> THEN 0 ELSE 1]
  <2>1. ctx' = [ctx EXCEPT ![c] = y]
    <3> DEFINE z == [x EXCEPT !.modified = FALSE]
    <3>1. ctx' = [ctx EXCEPT ![c] = ClearIfLast(z)] /\ x.bytes = 1
      BY <1>6, <1>29 DEF TakePollfds, Handling, SInv, LifeOf, SignalOf, Pending, Up
    <3>2. z.bytes = 1 /\ z.modified = FALSE /\ z.msgs = x.msgs /\ z \in Contexts
      BY <1>6, <3>1 DEF Contexts
    <3>3. y = [z EXCEPT !.bytes = IF x.msgs = <<>> THEN 0 ELSE 1]
      BY <1>6 DEF Contexts
    <3> HIDE DEF z, y
    <3>4. ClearIfLast(z) = y
      BY <3>2, <3>3 DEF ClearIfLast, Pending, Contexts
    <3> QED
      BY <3>1, <3>4
  <2>2. ContextOK(y) /\ (y.active = x.active \/ ~Walking)
    BY <1>1, <1>6, <1>29 DEF TakePollfds, Handling, ContextOK, LifeOf, SignalOf, Pending,
         Contexts, Starting, Up, Places
  <2> HIDE DEF y
  <2> QED
    BY <1>0, <1>2, <1>3, <1>4, <1>5, <1>29, <2>1, <2>2, OneContext
         DEF TakePollfds, world, Dereferenced
<1>30. CASE TakeMessage(c)
  <2> DEFINE y == [x EXCEPT !.msgs = Tail(x.msgs), !.bytes = IF Tail(x.msgs) = <<>> THEN 0 ELSE 1]
  <2>1. ctx' = [ctx EXCEPT ![c] = y]
    <3> DEFINE z == [x EXCEPT !.msgs = Tail(x.msgs)]
    <3>1. ctx' = [ctx EXCEPT ![c] = ClearIfLast(z)] /\ x.bytes = 1 /\ x.modified = FALSE
      BY <1>6, <1>30 DEF TakeMessage, Handling, SInv, LifeOf, SignalOf, Pending, Up, Contexts
    <3>2. z.bytes = 1 /\ z.modified = FALSE /\ z.msgs = Tail(x.msgs) /\ z \in Contexts
      <4>1. Tail(x.msgs) \in Seq(Messages)
        BY <1>6, <1>30 DEF TakeMessage, Contexts
      <4> QED
        BY <1>6, <3>1, <4>1 DEF Contexts
    <3>3. y = [z EXCEPT !.bytes = IF Tail(x.msgs) = <<>> THEN 0 ELSE 1]
      BY <1>6 DEF Contexts
    <3> DEFINE s == Tail(x.msgs)
    <3> HIDE DEF z, y, s
    <3>4. ClearIfLast(z) = y
      <4>1. CASE s = <<>>
        BY <3>2, <3>3, <4>1 DEF ClearIfLast, Pending, s
      <4>2. CASE s # <<>>
        <5>1. y = z
          BY <3>2, <3>3, <4>2 DEF Contexts, s
        <5> QED
          BY <3>2, <4>2, <5>1 DEF ClearIfLast, Pending, s
      <4> QED
        BY <4>1, <4>2
    <3> QED
      BY <3>1, <3>4
  <2>2. ContextOK(y) /\ (y.active = x.active \/ ~Walking)
    <3> DEFINE s == Tail(x.msgs)
    <3>1. s \in Seq(Messages) /\ x.at \in {"open", "drain"} /\ ~x.modified
      BY <1>6, <1>30 DEF TakeMessage, Handling, Contexts
    <3> HIDE DEF s
    <3>2. ContextOK([x EXCEPT !.msgs = s, !.bytes = IF s = <<>> THEN 0 ELSE 1])
          /\ [x EXCEPT !.msgs = s, !.bytes = IF s = <<>> THEN 0 ELSE 1].active = x.active
      BY <1>6, <3>1 DEF ContextOK, LifeOf, SignalOf, Pending, Contexts, Starting, Up, Places
    <3> QED
      BY <3>2 DEF s
  <2> HIDE DEF y
  <2> QED
    BY <1>0, <1>2, <1>3, <1>4, <1>5, <1>30, <2>1, <2>2, OneContext
         DEF TakeMessage, world, Dereferenced
<1>31. CASE Close(c)
  <2> DEFINE z == [x EXCEPT !.at = "exit", !.handle = None]
  <2>1. ctx' = [ctx EXCEPT ![c] = FdNotification(z)]
    BY <1>31 DEF Close, At, SInv
  <2>2. ContextOK(z) /\ z.piped /\ z.active = x.active
    BY <1>6, <1>31 DEF Close, At, ContextOK, LifeOf, SignalOf, Pending, Contexts, Starting, Up,
         Places
  <2> HIDE DEF z
  <2>3. ContextOK(FdNotification(z)) /\ FdNotification(z).active = x.active
    BY <2>2, FdKeeps
  <2> QED
    BY <1>0, <1>2, <1>3, <1>4, <1>5, <1>31, <2>1, <2>3, OneContext DEF Close, world
<1>32. CASE ExitActive(c)
  <2> DEFINE y == [x EXCEPT !.at = "drain", !.active = FALSE]
  <2>1. ctx' = [ctx EXCEPT ![c] = y]
    BY <1>32 DEF ExitActive, At, SInv
  <2>2. ContextOK(y) /\ (y.active = x.active \/ ~Walking)
    BY <1>1, <1>6, <1>32 DEF ExitActive, At, ContextOK, LifeOf, SignalOf, Pending, Contexts,
         Starting, Up, Places
  <2> HIDE DEF y
  <2> QED
    BY <1>0, <1>2, <1>3, <1>4, <1>5, <1>32, <2>1, <2>2, OneContext
         DEF ExitActive, world, Dereferenced
<1>33. CASE ExitContext(c)
  <2> DEFINE y == [NewContext EXCEPT !.at = "op_exit"]
  <2>1. ctx' = [ctx EXCEPT ![c] = y]
    BY <1>33 DEF ExitContext, At, SInv
  <2>2. ContextOK(y) /\ (y.active = x.active \/ ~Walking)
    <3>1. ~x.active
      BY <1>6, <1>33 DEF ExitContext, At, LifeOf
    <3>2. ContextOK(y) /\ ~y.active
      BY NewContextOK
    <3> QED
      BY <1>6, <3>1, <3>2 DEF Contexts, ContextOK
  <2> HIDE DEF y
  <2> QED
    BY <1>0, <1>2, <1>3, <1>4, <1>5, <1>33, <2>1, <2>2, OneContext
         DEF ExitContext, world, Dereferenced
<1>34. CASE OpExit(c)
  <2>1. PICK q \in {"join", "over"} :
          ctx' = [ctx EXCEPT ![c] = [x EXCEPT !.at = q]] /\ x.at = "op_exit"
    BY <1>34 DEF OpExit, Go, At, SInv
  <2>2. ContextOK([x EXCEPT !.at = q]) /\ [x EXCEPT !.at = q].active = x.active
    BY <1>6, <2>1 DEF ContextOK, LifeOf, SignalOf, Pending, Contexts, Starting, Up, Places
  <2> QED
    BY <1>0, <1>2, <1>3, <1>4, <1>5, <1>34, <2>1, <2>2, OneContext DEF OpExit, world
<1>35. CASE Join(c)
  <2> DEFINE y == [x EXCEPT !.at = "over"]
  <2>1. ctx' = [ctx EXCEPT ![c] = y]
    BY <1>35 DEF Join, Go, At, SInv
  <2>2. ContextOK(y) /\ (y.active = x.active \/ ~Walking)
    BY <1>1, <1>6, <1>35 DEF Join, At, ContextOK, LifeOf, SignalOf, Pending, Contexts, Starting,
         Up, Places
  <2> HIDE DEF y
  <2> QED
    BY <1>0, <1>2, <1>3, <1>4, <1>5, <1>35, <2>1, <2>2, OneContext DEF Join, world, Dereferenced
<1> QED
  BY <1>7, <1>8, <1>9, <1>10, <1>11, <1>12, <1>13, <1>14, <1>15, <1>16, <1>17, <1>18, <1>19,
       <1>20, <1>21, <1>22, <1>23, <1>24, <1>25, <1>26, <1>27, <1>28, <1>29, <1>30, <1>31, <1>32,
       <1>33, <1>34, <1>35 DEF Session

-----------------------------------------------------------------------------
(* The books of the structures.                                              *)

\* The devices behind a hub.
LEMMA BehindFinite ==
  ASSUME NEW ds, NEW d PROVE IsFiniteSet(Behind(ds, d)) /\ Cardinality(Behind(ds, d)) \in Nat
<1>1. Behind(ds, d) \in SUBSET Devs
  BY DEF Behind
<1> QED
  BY <1>1, FS_Subset, FS_CardinalityType

\* A structure that is not free has references.
LEMMA InUse ==
  ASSUME NEW ds, NEW h, Books(ds, h), NEW d \in Devs, ds[d] # Free
  PROVE  /\ ds[d] \in Structures /\ ds[d].refs \in Nat \ {0}
         /\ ds[d].parent = None \/ ds[d].parent \in Devs
BY DEF Books, Structures

LEMMA StructureNotFree == ASSUME NEW u \in Structures PROVE u # Free
BY DEF Structures, Free

\* What the structures have in common before and after a step that frees none.
LEMMA SameBehind ==
  ASSUME NEW ds, NEW es, NEW d,
         \A e \in Devs : (es[e] = Free <=> ds[e] = Free) /\ es[e].parent = ds[e].parent
  PROVE  Behind(es, d) = Behind(ds, d)
BY DEF Behind

\* What no step changes of a structure that is in use.
Kept(ds, es, d) ==
  /\ es[d] # Free /\ es[d].ctx = ds[d].ctx /\ es[d].addr = ds[d].addr
  /\ es[d].parent = ds[d].parent

\* discovered_devs_append and libusb_ref_device.
LEMMA TakenBooks ==
  ASSUME NEW ds, NEW h, Books(ds, h), NEW S \in SUBSET Devs, \A d \in S : ds[d] # Free,
         NEW g, \A d \in Devs : g[d] = h[d] + Times(d \in S)
  PROVE  /\ Books(Taken(ds, S), g)
         /\ \A d \in Devs : Taken(ds, S)[d] = Free <=> ds[d] = Free
         /\ \A d \in Devs : ds[d] # Free => Kept(ds, Taken(ds, S), d)
<1> DEFINE es == Taken(ds, S)
<1>1. \A d \in Devs : es[d] = IF d \in S THEN [ds[d] EXCEPT !.refs = @ + 1] ELSE ds[d]
  BY DEF Taken
<1>2. es = [d \in Devs |-> es[d]]
  BY DEF Taken
<1> HIDE DEF es
<1>3. ASSUME NEW d \in Devs
      PROVE  /\ es[d] \in {Free} \union Structures /\ (es[d] = Free <=> ds[d] = Free)
             /\ ds[d] # Free => Kept(ds, es, d) /\ es[d].refs = ds[d].refs + Times(d \in S)
             /\ es[d].parent = ds[d].parent
  <2>1. CASE d \in S
    <3>1. ds[d] \in Structures
      BY <2>1, InUse
    <3>2. es[d] = [ds[d] EXCEPT !.refs = @ + 1]
      BY <1>1, <2>1
    <3>3. es[d] \in Structures /\ es[d].refs = ds[d].refs + 1
      BY <3>1, <3>2 DEF Structures
    <3>4. es[d] # Free /\ ds[d] # Free
      BY <3>1, <3>3, StructureNotFree
    <3> QED
      BY <2>1, <3>1, <3>2, <3>3, <3>4 DEF Structures, Kept, Times
  <2>2. CASE d \notin S
    <3>1. es[d] = ds[d]
      BY <1>1, <2>2
    <3>2. ds[d] # Free => ds[d].refs \in Nat
      BY InUse
    <3> QED
      BY <2>2, <3>1, <3>2 DEF Books, Kept, Times
  <2> QED
    BY <2>1, <2>2
<1>4. \A d \in Devs : Behind(es, d) = Behind(ds, d)
  BY <1>3, SameBehind
<1>5. es \in [Devs -> {Free} \union Structures]
  BY <1>2, <1>3
<1>6. ASSUME NEW d \in Devs
      PROVE  /\ g[d] \in Nat
             /\ es[d] = Free => g[d] = 0
             /\ es[d] # Free =>
                  /\ es[d].refs = g[d] + Cardinality(Behind(es, d))
                  /\ es[d].addr \in Fixed => es[d].parent = None
                  /\ es[d].parent # None =>
                       es[es[d].parent] # Free /\ es[es[d].parent].parent = None
  <2>1. h[d] \in Nat /\ Times(d \in S) \in Nat /\ Cardinality(Behind(ds, d)) \in Nat
    BY BehindFinite DEF Books, Times
  <2>2. es[d] = Free => g[d] = 0
    BY <1>3, <2>1 DEF Books, Times
  <2>3. es[d] # Free => es[d].refs = g[d] + Cardinality(Behind(es, d))
    BY <1>3, <1>4, <2>1 DEF Books
  <2>4. ASSUME es[d] # Free, es[d].parent # None
        PROVE  es[es[d].parent] # Free /\ es[es[d].parent].parent = None
    <3>1. ds[d].parent \in Devs /\ es[d].parent = ds[d].parent
      BY <1>3, <2>4, InUse
    <3> QED
      BY <1>3, <2>4, <3>1 DEF Books
  <2>5. es[d] # Free /\ es[d].addr \in Fixed => es[d].parent = None
    BY <1>3 DEF Books, Kept
  <2> QED
    BY <2>1, <2>2, <2>3, <2>4, <2>5
<1> QED
  BY <1>3, <1>5, <1>6 DEF Books, es

\* libusb_unref_device, for each of a set of devices that are held: what is held by others or
\* has devices behind it stays.
LEMMA DropBooks ==
  ASSUME NEW ds, NEW h, Books(ds, h), NEW S \in SUBSET Devs, \A d \in S : h[d] # 0,
         NEW g, \A d \in Devs : g[d] = h[d] - Times(d \in S)
  PROVE  /\ Books(UnrefAll(ds, S), g)
         /\ \A d \in Devs : UnrefAll(ds, S)[d] # Free =>
              ds[d] # Free /\ Kept(ds, UnrefAll(ds, S), d)
         /\ \A d \in Devs : g[d] # 0 => UnrefAll(ds, S)[d] # Free
<1> DEFINE last == {d \in S : ds[d].refs = 1}
           kids(d) == {e \in last : ds[e].parent = d}
           drops(d) == Cardinality({d} \cap S) + Cardinality(kids(d))
           es == UnrefAll(ds, S)
<1>1. \A d \in S : d \in Devs /\ ds[d] # Free /\ h[d] \in Nat /\ h[d] >= 1
  BY DEF Books
<1>2. /\ \A d \in Devs : es[d] = IF ds[d].refs > drops(d) THEN [ds[d] EXCEPT !.refs = @ - drops(d)]
                                 ELSE Free
      /\ es = [d \in Devs |-> es[d]]
  BY DEF UnrefAll
<1> HIDE DEF es
<1>3. \A d : Cardinality({d} \cap S) = Times(d \in S)
  <2> TAKE d
  <2>1. CASE d \in S
    <3>1. {d} \cap S = {d}
      BY <2>1
    <3> QED
      BY <2>1, <3>1, FS_Singleton DEF Times
  <2>2. CASE d \notin S
    <3>1. {d} \cap S = {}
      BY <2>2
    <3> QED
      BY <2>2, <3>1, FS_EmptySet DEF Times
  <2> QED
    BY <2>1, <2>2
<1>4. ASSUME NEW d \in Devs
      PROVE  /\ kids(d) \subseteq Behind(ds, d)
             /\ IsFiniteSet(kids(d)) /\ Cardinality(kids(d)) \in Nat
             /\ drops(d) = Times(d \in S) + Cardinality(kids(d)) /\ drops(d) \in Nat
  <2>1. kids(d) \subseteq Behind(ds, d)
    BY <1>1 DEF Behind
  <2>2. IsFiniteSet(kids(d)) /\ Cardinality(kids(d)) \in Nat
    BY <2>1, BehindFinite, FS_Subset, FS_CardinalityType
  <2> QED
    BY <1>3, <2>1, <2>2 DEF Times
<1>5. ASSUME NEW d \in Devs
      PROVE  /\ IsFiniteSet(Behind(ds, d) \ kids(d))
             /\ Cardinality(Behind(ds, d) \ kids(d)) \in Nat
             /\ Cardinality(Behind(ds, d) \ kids(d)) =
                  Cardinality(Behind(ds, d)) - Cardinality(kids(d))
  <2>1. IsFiniteSet(Behind(ds, d)) /\ kids(d) = Behind(ds, d) \cap kids(d)
    BY <1>4, BehindFinite
  <2> HIDE DEF kids
  <2> QED
    BY ZenonT(40), <2>1, FS_Difference, FS_CardinalityType
<1> HIDE DEF drops, kids
<1>6. ASSUME NEW d \in Devs, ds[d] # Free
      PROVE  ds[d].refs - drops(d) = g[d] + Cardinality(Behind(ds, d) \ kids(d))
  <2>1. h[d] \in Nat /\ ds[d].refs = h[d] + Cardinality(Behind(ds, d)) /\ Times(d \in S) \in Nat
    BY <1>6 DEF Books, Times
  <2>2. Cardinality(Behind(ds, d)) \in Nat
    BY BehindFinite
  <2> QED
    BY <1>4, <1>5, <2>1, <2>2
<1>7. \A d \in Devs : g[d] \in Nat /\ (ds[d] = Free => g[d] = 0)
  <2> TAKE d \in Devs
  <2>1. h[d] \in Nat /\ (ds[d] = Free => h[d] = 0)
    BY DEF Books
  <2> QED
    BY <1>1, <2>1 DEF Times
<1>8. \A d \in Devs : ds[d] = Free => es[d] = Free
  <2> TAKE d \in Devs
  <2>1. Free.refs = 0
    BY DEF Free
  <2> QED
    BY <1>2, <1>4, <2>1
<1>9. ASSUME NEW d \in Devs, es[d] # Free
      PROVE  /\ ds[d] # Free /\ Kept(ds, es, d) /\ es[d] \in Structures
             /\ es[d].refs = ds[d].refs - drops(d)
  <2>1. ds[d] # Free /\ ds[d] \in Structures /\ ds[d].refs \in Nat
    BY <1>8, <1>9, InUse
  <2>2. ds[d].refs > drops(d) /\ es[d] = [ds[d] EXCEPT !.refs = @ - drops(d)] /\ drops(d) \in Nat
    BY <1>2, <1>4, <1>9
  <2> QED
    BY <1>9, <2>1, <2>2 DEF Structures, Kept
<1>10. ASSUME NEW d \in Devs, ds[d] # Free, es[d] = Free
       PROVE  g[d] = 0 /\ Cardinality(Behind(ds, d) \ kids(d)) = 0
  <2>1. ds[d].refs \in Nat \ {0} /\ ds[d] \in Structures
    BY <1>10, InUse
  <2>2. ~(ds[d].refs > drops(d))
    <3>1. ASSUME ds[d].refs > drops(d) PROVE FALSE
      <4>1. es[d] = [ds[d] EXCEPT !.refs = @ - drops(d)]
        BY <1>2, <3>1
      <4>2. es[d] \in Structures
        BY <1>4, <2>1, <3>1, <4>1 DEF Structures
      <4> QED
        BY <1>10, <4>2, StructureNotFree
    <3> QED
      BY <3>1
  <2>3. g[d] + Cardinality(Behind(ds, d) \ kids(d)) <= 0
    BY <1>4, <1>6, <1>10, <2>1, <2>2
  <2> QED
    BY <1>5, <1>7, <2>3
<1>11. ASSUME NEW d \in Devs, NEW e \in Behind(ds, d) PROVE es[e] = Free <=> e \in kids(d)
  <2>1. e \in Devs /\ ds[e] # Free /\ ds[e].parent = d /\ d # None
    BY <1>11 DEF Behind
  <2>2. Behind(ds, e) = {}
    <3>1. ASSUME NEW f \in Behind(ds, e) PROVE FALSE
      <4>1. f \in Devs /\ ds[f] # Free /\ ds[f].parent = e /\ e # None
        BY <2>1, <3>1 DEF Behind
      <4>2. ds[e].parent = None
        BY <4>1 DEF Books
      <4> QED
        BY <2>1, <4>2
    <3> QED
      BY <3>1
  <2>3. kids(e) = {} /\ Cardinality(kids(e)) = 0
    BY <1>4, <2>1, <2>2, FS_EmptySet
  <2>4. drops(e) = Times(e \in S) /\ ds[e].refs \in Nat \ {0} /\ ds[e] \in Structures
    <3>1. drops(e) = Times(e \in S) + 0 /\ Times(e \in S) \in Nat
      BY <1>4, <2>1, <2>3 DEF Times
    <3>2. ds[e].refs \in Nat \ {0} /\ ds[e] \in Structures
      BY <2>1, InUse
    <3> QED
      BY <3>1, <3>2
  <2>5. es[e] = Free <=> ~(ds[e].refs > drops(e))
    <3>1. ASSUME ds[e].refs > drops(e) PROVE es[e] # Free
      <4>1. es[e] = [ds[e] EXCEPT !.refs = @ - drops(e)]
        BY <1>2, <2>1, <3>1
      <4>2. es[e] \in Structures
        BY <2>4, <3>1, <4>1 DEF Structures, Times
      <4> QED
        BY <4>2, StructureNotFree
    <3> QED
      BY <1>2, <2>1, <3>1
  <2>6. e \in kids(d) <=> e \in S /\ ds[e].refs = 1
    BY <2>1 DEF kids
  <2> QED
    BY <2>4, <2>5, <2>6 DEF Times
<1>12. ASSUME NEW d \in Devs PROVE Behind(es, d) = Behind(ds, d) \ kids(d)
  <2>1. ASSUME NEW e \in Behind(es, d) PROVE e \in Behind(ds, d) \ kids(d)
    <3>1. e \in Devs /\ es[e] # Free /\ es[e].parent = d
      BY <2>1 DEF Behind
    <3>2. e \in Behind(ds, d)
      BY <1>9, <3>1 DEF Behind, Kept
    <3> QED
      BY <1>11, <3>1, <3>2
  <2>2. ASSUME NEW e \in Behind(ds, d) \ kids(d) PROVE e \in Behind(es, d)
    <3>1. es[e] # Free /\ e \in Devs /\ ds[e].parent = d
      BY <1>11, <2>2 DEF Behind
    <3> QED
      BY <1>9, <3>1 DEF Behind, Kept
  <2> QED
    BY <2>1, <2>2
<1>13. es \in [Devs -> {Free} \union Structures]
  BY <1>2, <1>9
<1>14. ASSUME NEW d \in Devs, es[d] # Free
       PROVE  /\ es[d].refs = g[d] + Cardinality(Behind(es, d))
              /\ es[d].addr \in Fixed => es[d].parent = None
              /\ es[d].parent # None =>
                   es[es[d].parent] # Free /\ es[es[d].parent].parent = None
  <2>1. ds[d] # Free /\ Kept(ds, es, d) /\ es[d].refs = ds[d].refs - drops(d)
    BY <1>9, <1>14
  <2>2. es[d].refs = g[d] + Cardinality(Behind(es, d))
    BY <1>6, <1>12, <2>1
  <2>3. es[d].addr \in Fixed => es[d].parent = None
    BY <2>1 DEF Books, Kept
  <2>4. ASSUME es[d].parent # None
        PROVE  es[es[d].parent] # Free /\ es[es[d].parent].parent = None
    <3> DEFINE p == ds[d].parent
    <3>1. p \in Devs /\ p = es[d].parent /\ ds[p] # Free /\ ds[p].parent = None
      BY <2>1, <2>4, InUse DEF Books, Kept
    <3>2. d \in Behind(es, p)
      BY <1>14, <3>1 DEF Behind
    <3>3. d \in Behind(ds, p) \ kids(p)
      BY <1>12, <3>1, <3>2
    <3>4. es[p] # Free
      <4>1. Cardinality(Behind(ds, p) \ kids(p)) # 0
        BY <1>5, <3>1, <3>3, FS_EmptySet
      <4> QED
        BY <1>10, <3>1, <4>1
    <3> QED
      BY <1>9, <3>1, <3>4 DEF Kept
  <2> QED
    BY <2>2, <2>3, <2>4
<1>15. \A d \in Devs : es[d] = Free => g[d] = 0
  BY <1>7, <1>10
<1>16. Books(es, g)
  BY <1>7, <1>13, <1>14, <1>15 DEF Books
<1> QED
  BY <1>9, <1>15, <1>16 DEF es

\* usbi_alloc_device and linux_get_parent_info.
Connected(ds, d, c, a, p) ==
  [(IF p = None THEN ds ELSE Ref(ds, p)) EXCEPT ![d] = New(c, a, p)]

\* The parent, if there is one, is in use and has none.
Hub(ds, a, p) ==
  /\ p = None \/ (p \in Devs /\ ds[p] # Free /\ ds[p].parent = None)
  /\ a \in Fixed => p = None

LEMMA ConnectBooks ==
  ASSUME NEW ds, NEW h, Books(ds, h), NEW d0 \in Devs, ds[d0] = Free, NEW c \in Ctx, NEW a \in Addr,
         NEW p, Hub(ds, a, p), NEW g, \A d \in Devs : g[d] = h[d] + Times(d = d0),
         NEW es, es = Connected(ds, d0, c, a, p)
  PROVE  /\ Books(es, g) /\ es[d0] = New(c, a, p) /\ es[d0] # Free
         /\ \A d \in Devs : ds[d] # Free => Kept(ds, es, d)
         /\ \A d \in Devs : es[d] # Free => d = d0 \/ ds[d] # Free
<1> USE DEF Connected, Hub
<1>1. /\ ds \in [Devs -> {Free} \union Structures]
      /\ \A d \in Devs : h[d] \in Nat /\ (ds[d] = Free => h[d] = 0)
  BY DEF Books
<1>2. New(c, a, p) \in Structures /\ New(c, a, p) # Free
  <2>1. New(c, a, p) \in Structures
    BY DEF New, Structures
  <2> QED
    BY <2>1, StructureNotFree
<1>3. es[d0] = New(c, a, p)
  BY <1>1 DEF Ref
<1>4. ASSUME NEW d \in Devs, d # d0, d # p PROVE es[d] = ds[d]
  BY <1>1, <1>4 DEF Ref
<1>5. ASSUME p # None
      PROVE  /\ p # d0 /\ es[p] = [ds[p] EXCEPT !.refs = @ + 1] /\ es[p] \in Structures
             /\ es[p].refs = ds[p].refs + 1 /\ Kept(ds, es, p)
  <2>1. p # d0 /\ p \in Devs /\ ds[p] \in Structures
    BY <1>1, <1>5
  <2>2. es[p] = [ds[p] EXCEPT !.refs = @ + 1]
    BY <1>1, <1>5, <2>1 DEF Ref
  <2>3. es[p] \in Structures /\ es[p].refs = ds[p].refs + 1
    BY <2>1, <2>2 DEF Structures
  <2> QED
    BY <2>1, <2>2, <2>3, StructureNotFree DEF Kept, Structures
<1>6. es \in [Devs -> {Free} \union Structures]
  <2>1. es = [d \in Devs |-> es[d]]
    BY <1>1 DEF Ref
  <2>2. \A d \in Devs : es[d] \in {Free} \union Structures
    BY <1>1, <1>2, <1>3, <1>4, <1>5
  <2> QED
    BY <2>1, <2>2
<1>7. \A d \in Devs : ds[d] # Free => Kept(ds, es, d) /\ d # d0
  BY <1>4, <1>5 DEF Kept
<1>8. \A d \in Devs : es[d] # Free => d = d0 \/ ds[d] # Free
  BY <1>4, <1>5
<1>9. ASSUME NEW d \in Devs
      PROVE  /\ d = p => Behind(es, d) = Behind(ds, d) \union {d0}
             /\ d # p => Behind(es, d) = Behind(ds, d)
  <2>1. \A e \in Devs : e # d0 => (e \in Behind(es, d) <=> e \in Behind(ds, d))
    BY <1>7, <1>8 DEF Behind, Kept
  <2>2. d0 \in Behind(es, d) <=> d = p
    BY <1>2, <1>3 DEF Behind, New
  <2>3. d0 \notin Behind(ds, d)
    BY DEF Behind
  <2>4. \A e : e \in Behind(ds, d) \/ e \in Behind(es, d) => e \in Devs
    BY DEF Behind
  <2>5. ASSUME d = p PROVE Behind(es, d) = Behind(ds, d) \union {d0}
    BY <2>1, <2>2, <2>4, <2>5
  <2>6. ASSUME d # p PROVE Behind(es, d) = Behind(ds, d)
    <3>1. \A e : e \in Behind(es, d) <=> e \in Behind(ds, d)
      BY <2>1, <2>2, <2>3, <2>4, <2>6
    <3> DEFINE A == Behind(es, d)
               B == Behind(ds, d)
    <3>2. \A e : e \in A <=> e \in B
      BY <3>1
    <3> HIDE DEF A, B
    <3>3. A = B
      BY <3>2
    <3> QED
      BY <3>3 DEF A, B
  <2> QED
    BY <2>5, <2>6
<1>10. \A d \in Devs : g[d] \in Nat /\ (es[d] = Free => g[d] = 0)
  <2> TAKE d \in Devs
  <2>1. es[d] = Free => d # d0 /\ ds[d] = Free
    BY <1>2, <1>3, <1>7 DEF Kept
  <2> QED
    BY <1>1, <2>1 DEF Times
<1>11. ASSUME NEW d \in Devs, es[d] # Free PROVE es[d].refs = g[d] + Cardinality(Behind(es, d))
  <2>0. h[d] \in Nat /\ Cardinality(Behind(ds, d)) \in Nat /\ IsFiniteSet(Behind(ds, d))
    BY <1>1, BehindFinite
  <2>1. CASE d = d0
    <3>1. Behind(ds, d) = {}
      <4>1. ASSUME NEW e \in Behind(ds, d) PROVE FALSE
        <5>1. e \in Devs /\ ds[e] # Free /\ ds[e].parent = d /\ d # None
          BY <4>1 DEF Behind
        <5> QED
          BY <2>1, <5>1 DEF Books
      <4> QED
        BY <4>1
    <3>2. Behind(es, d) = {}
      BY <1>5, <1>9, <2>1, <3>1
    <3>4. Cardinality(Behind(es, d)) = 0
      BY <3>2, FS_EmptySet
    <3>3. h[d] = 0 /\ g[d] = 1 /\ es[d].refs = 1
      BY <1>1, <1>3, <2>1 DEF New, Times
    <3> QED
      BY <3>3, <3>4
  <2>2. CASE d # d0 /\ d # p
    <3>1. es[d] = ds[d] /\ Behind(es, d) = Behind(ds, d) /\ g[d] = h[d]
      BY <1>4, <1>9, <2>0, <2>2 DEF Times
    <3> QED
      BY <1>11, <3>1 DEF Books
  <2>3. CASE d # d0 /\ d = p
    <3>1. d0 \notin Behind(ds, d) /\ g[d] = h[d] /\ p # None /\ ds[p] # Free
      BY <2>0, <2>3 DEF Times, Behind
    <3>2. Cardinality(Behind(es, d)) = Cardinality(Behind(ds, d)) + 1
      <4>1. Behind(es, d) = Behind(ds, d) \union {d0}
        BY <1>9, <2>3
      <4>2. /\ Cardinality(Behind(ds, d) \union {d0}) =
                 IF d0 \in Behind(ds, d) THEN Cardinality(Behind(ds, d))
                 ELSE Cardinality(Behind(ds, d)) + 1
        BY <2>0, FS_AddElement
      <4> QED
        BY <3>1, <4>1, <4>2
    <3>3. es[d].refs = ds[d].refs + 1
      BY <1>5, <2>3, <3>1
    <3>4. ds[d].refs = h[d] + Cardinality(Behind(ds, d))
      BY <2>3, <3>1 DEF Books
    <3> QED
      BY <2>0, <3>1, <3>2, <3>3, <3>4
  <2> QED
    BY <2>1, <2>2, <2>3
<1>12. ASSUME NEW d \in Devs, es[d] # Free
       PROVE  /\ es[d].addr \in Fixed => es[d].parent = None
              /\ es[d].parent # None =>
                   es[es[d].parent] # Free /\ es[es[d].parent].parent = None
  <2>1. CASE d = d0
    BY <1>3, <1>5, <2>1 DEF New, Kept
  <2>2. CASE d # d0
    <3>1. ds[d] # Free /\ Kept(ds, es, d)
      BY <1>7, <1>8, <1>12, <2>2
    <3>2. ds[d].parent # None =>
            /\ ds[d].parent \in Devs
            /\ ds[ds[d].parent] # Free /\ ds[ds[d].parent].parent = None
      BY SMTT(30), <3>1, InUse DEF Books
    <3>3. ds[d].addr \in Fixed => ds[d].parent = None
      BY SMTT(30), <3>1 DEF Books
    <3> QED
      BY <1>7, <3>1, <3>2, <3>3 DEF Kept
  <2> QED
    BY <2>1, <2>2
<1>13. Books(es, g)
  BY <1>6, <1>10, <1>11, <1>12 DEF Books
<1> QED
  BY <1>2, <1>3, <1>7, <1>8, <1>13

\* usbi_disconnect_device marks the structure.
LEMMA DetachBooks ==
  ASSUME NEW ds, NEW h, Books(ds, h), NEW d \in Devs, ds[d] # Free,
         NEW es, es = [ds EXCEPT ![d].attached = FALSE]
  PROVE  /\ Books(es, h)
         /\ \A e \in Devs : ds[e] # Free => Kept(ds, es, e)
         /\ \A e \in Devs : es[e] # Free => ds[e] # Free
<1>1. ds \in [Devs -> {Free} \union Structures] /\ ds[d] \in Structures
  BY InUse DEF Books
<1>2. es[d] = [ds[d] EXCEPT !.attached = FALSE] /\ \A e \in Devs : e # d => es[e] = ds[e]
  BY <1>1
<1>3. es[d] \in Structures /\ es[d].refs = ds[d].refs /\ Kept(ds, es, d)
  <2>1. es[d] \in Structures
    BY <1>1, <1>2 DEF Structures
  <2> QED
    BY <1>1, <1>2, <2>1, StructureNotFree DEF Structures, Kept
<1>4. \A e \in Devs : (es[e] = Free <=> ds[e] = Free) /\ (ds[e] # Free => Kept(ds, es, e))
  BY <1>2, <1>3 DEF Kept
<1>5. \A e \in Devs : es[e].parent = ds[e].parent /\ es[e].refs = ds[e].refs
  BY <1>2, <1>3 DEF Kept
<1>6. \A e \in Devs : Behind(es, e) = Behind(ds, e)
  <2>1. \A e \in Devs : (es[e] = Free <=> ds[e] = Free) /\ es[e].parent = ds[e].parent
    BY <1>4, <1>5
  <2> QED
    BY <2>1 DEF Behind
<1>7. es \in [Devs -> {Free} \union Structures]
  <2>1. es = [e \in Devs |-> es[e]]
    BY <1>1
  <2> QED
    BY <1>1, <1>2, <1>3, <2>1
<1>8. ASSUME NEW e \in Devs, es[e] # Free
      PROVE  /\ es[e].addr \in Fixed => es[e].parent = None
             /\ es[e].parent # None =>
                   es[es[e].parent] # Free /\ es[es[e].parent].parent = None
  <2>1. ds[e] # Free /\ Kept(ds, es, e)
    BY <1>4, <1>8
  <2>2. ds[e].parent # None =>
          /\ ds[e].parent \in Devs
          /\ ds[ds[e].parent] # Free /\ ds[ds[e].parent].parent = None
    BY <2>1, InUse DEF Books
  <2>3. ds[e].addr \in Fixed => ds[e].parent = None
    BY <2>1 DEF Books
  <2> QED
    BY <1>4, <2>1, <2>2, <2>3 DEF Kept
<1>9. Books(es, h)
  <2>1. \A e \in Devs : es[e] # Free => es[e].refs = h[e] + Cardinality(Behind(es, e))
    BY <1>4, <1>5, <1>6 DEF Books
  <2>2. \A e \in Devs : h[e] \in Nat /\ (es[e] = Free => h[e] = 0)
    BY <1>4 DEF Books
  <2> QED
    BY <1>7, <1>8, <2>1, <2>2 DEF Books
<1> QED
  BY <1>4, <1>9

-----------------------------------------------------------------------------
(* Who holds what, after a step of one context.                              *)

\* References are natural numbers.
LEMMA LocalNat ==
  ASSUME NEW x, NEW d
  PROVE  /\ Local(x, d) \in Nat
         /\ InList(x, d) \/ d \in x.array \/ HasOpen(x, d) \/ HasLeft(x, d) => Local(x, d) # 0
BY DEF Local, Times

\* What a context points to, it or its list or a message of its has a reference of.
LEMMA PointedHeld ==
  ASSUME NEW ds, NEW ls, NEW c, NEW x \in Contexts, PointsOK(ds, ls, c, x),
         NEW d \in Devs, PointsTo(x, d)
  PROVE  Local(x, d) # 0
<1>1. x.msgs \in Seq(Messages)
  BY DEF Contexts
<1>2. ASSUME NEW i \in DOMAIN x.msgs, x.msgs[i].dev = d PROVE Local(x, d) # 0
  <2>1. x.msgs[i] \in Messages
    BY <1>1
  <2>2. CASE x.msgs[i].event = "left"
    <3>1. x.msgs[i] = Message("left", d)
      BY <1>2, <2>1, <2>2 DEF Messages, Message
    <3> QED
      BY <3>1, LocalNat DEF HasLeft
  <2>3. CASE x.msgs[i].event = "arrived"
    <3>1. InList(x, d) \/ HasLeft(x, d)
      BY <1>2, <2>3 DEF PointsOK, HasLeft
    <3> QED
      BY <3>1, LocalNat
  <2> QED
    BY <2>1, <2>2, <2>3 DEF Messages
<1>3. ASSUME x.handle = d PROVE Local(x, d) # 0
  BY <1>3, LocalNat DEF PointsOK, HasOpen
<1> QED
  BY <1>2, <1>3, LocalNat DEF PointsTo

\* Contexts point as before where the devices they point to have stayed.
LEMMA PointsStay ==
  ASSUME NEW ds, NEW ls, NEW c, NEW x, PointsOK(ds, ls, c, x), NEW es, NEW ks,
         \A d \in Devs : PointsTo(x, d) => es[d] # Free /\ es[d].ctx = c /\ (d \in ks <=> d \in ls)
  PROVE  PointsOK(es, ks, c, x)
<1>1. \A d : (InList(x, d) => PointsTo(x, d)) /\ (HasLeft(x, d) => PointsTo(x, d))
  BY DEF PointsTo, HasLeft, Message
<1> HIDE DEF PointsTo
<1> QED
  BY <1>1 DEF PointsOK

\* The contexts are of the right shape.
Shaped(w) ==
  /\ w.ctx = [c \in Ctx |-> w.ctx[c]] /\ \A c \in Ctx : w.ctx[c] \in Contexts
  /\ w.dev = [d \in Devs |-> w.dev[d]]

LEMMA DirectNat == ASSUME NEW w, NEW d PROVE Direct(w, d) \in Nat
<1>1. Times(d \in w.lost) \in Nat
  BY DEF Times
<1> QED
  BY <1>1, LocalNat DEF Direct

\* One context steps from w to v; g says who holds what then.
Steps(w, v, c, y, g) ==
  /\ v.ctx = [w.ctx EXCEPT ![c] = y]
  /\ Books(v.dev, g)
  /\ \A d \in Devs : v.dev[d] # Free => v.dev[d].ctx = IF w.dev[d] = Free THEN c ELSE w.dev[d].ctx
  /\ \A d \in Devs : w.dev[d] # Free /\ g[d] # 0 => v.dev[d] # Free
  /\ \A d \in Devs : v.dev[d] # Free /\ v.dev[d].ctx = c =>
       g[d] = Local(y, d) + Times(d \in v.lost)
  /\ \A d \in Devs : w.dev[d] # Free /\ w.dev[d].ctx # c =>
       g[d] = Direct(w, d) /\ (d \in v.lost <=> d \in w.lost)
  /\ \A d \in v.lost : d \in Devs /\ v.dev[d] # Free
  /\ PointsOK(v.dev, v.lost, c, y)

LEMMA HeldAfter ==
  ASSUME NEW w, NEW v, Shaped(w), Held(w), NEW c \in Ctx, NEW y, NEW g, Steps(w, v, c, y, g)
  PROVE  Held(v)
<1> USE DEF Steps
<1>1. v.ctx[c] = y /\ \A b \in Ctx : b # c => v.ctx[b] = w.ctx[b]
  BY DEF Shaped
<1>2. ASSUME NEW d \in Devs PROVE Direct(v, d) = g[d]
  <2>1. CASE v.dev[d] = Free
    BY <2>1 DEF Books, Direct
  <2>2. CASE v.dev[d] # Free /\ v.dev[d].ctx = c
    BY SMTT(30), <1>1, <2>2 DEF Direct
  <2>3. CASE v.dev[d] # Free /\ v.dev[d].ctx # c
    <3>1. w.dev[d] # Free /\ w.dev[d].ctx = v.dev[d].ctx
      BY <2>3
    <3>2. g[d] = Direct(w, d) /\ (d \in v.lost <=> d \in w.lost)
      BY <2>3, <3>1
    <3>3. v.dev[d].ctx \in Ctx
      BY <2>3 DEF Books, Structures
    <3>4. v.ctx[v.dev[d].ctx] = w.ctx[v.dev[d].ctx]
      BY <1>1, <2>3, <3>3
    <3>5. Direct(v, d) = Local(w.ctx[v.dev[d].ctx], d) + Times(d \in v.lost)
      BY <2>3, <3>4 DEF Direct
    <3>6. Direct(w, d) = Local(w.ctx[v.dev[d].ctx], d) + Times(d \in w.lost)
      BY <3>1 DEF Direct
    <3> QED
      BY <3>2, <3>5, <3>6 DEF Times
  <2> QED
    BY <2>1, <2>2, <2>3
<1>3. Books(v.dev, [d \in Devs |-> Direct(v, d)])
  <2> DEFINE f == [d \in Devs |-> Direct(v, d)]
  <2>1. \A d \in Devs : f[d] = g[d]
    BY <1>2
  <2> HIDE DEF f
  <2>2. Books(v.dev, f)
    BY <2>1 DEF Books
  <2> QED
    BY <2>2 DEF f
<1>4. ASSUME NEW b \in Ctx PROVE PointsOK(v.dev, v.lost, b, v.ctx[b])
  <2>1. CASE b = c
    BY <1>1, <2>1
  <2>2. CASE b # c
    <3> DEFINE x == w.ctx[b]
    <3>1. x \in Contexts /\ PointsOK(w.dev, w.lost, b, x) /\ v.ctx[b] = x
      BY <1>1, <2>2 DEF Shaped, Held
    <3> HIDE DEF x
    <3>2. ASSUME NEW d \in Devs, PointsTo(x, d)
          PROVE  v.dev[d] # Free /\ v.dev[d].ctx = b /\ (d \in v.lost <=> d \in w.lost)
      <4>1. w.dev[d] # Free /\ w.dev[d].ctx = b
        BY <3>1, <3>2 DEF PointsOK
      <4>2. Local(x, d) # 0 /\ Local(x, d) \in Nat /\ Times(d \in w.lost) \in Nat
        BY <3>1, <3>2, PointedHeld, LocalNat DEF Times
      <4>3. Direct(w, d) = Local(x, d) + Times(d \in w.lost)
        BY <4>1 DEF Direct, x
      <4>4. g[d] # 0
        BY <2>2, <4>1, <4>2, <4>3
      <4> QED
        BY <2>2, <4>1, <4>4
    <3> QED
      BY <3>1, <3>2, PointsStay
  <2> QED
    BY <2>1, <2>2
<1> QED
  BY <1>3, <1>4 DEF Held

\* A context lets go of the devices of S.
LEMMA HeldDrop ==
  ASSUME NEW w, NEW v, Shaped(w), Held(w), NEW c \in Ctx, NEW y \in Contexts,
         NEW S \in SUBSET Devs, \A d \in S : w.dev[d] # Free /\ w.dev[d].ctx = c,
         \A d \in Devs : Local(w.ctx[c], d) = Local(y, d) + Times(d \in S),
         PointsOK(w.dev, w.lost, c, y),
         v.dev = UnrefAll(w.dev, S), v.ctx = [w.ctx EXCEPT ![c] = y], v.lost = w.lost
  PROVE  Held(v)
<1> DEFINE h == [d \in Devs |-> Direct(w, d)]
           g == [d \in Devs |-> Direct(w, d) - Times(d \in S)]
           es == UnrefAll(w.dev, S)
<1>1. Books(w.dev, h)
  BY DEF Held
<1>2. ASSUME NEW d \in Devs, w.dev[d] # Free, w.dev[d].ctx = c
      PROVE  h[d] = Local(y, d) + Times(d \in S) + Times(d \in w.lost)
  BY <1>2 DEF Direct
<1>3. ASSUME NEW d \in Devs, w.dev[d] # Free, w.dev[d].ctx = c
      PROVE  g[d] = Local(y, d) + Times(d \in w.lost) /\ g[d] \in Nat
  <2>1. Local(y, d) \in Nat /\ Times(d \in S) \in Nat /\ Times(d \in w.lost) \in Nat
    BY LocalNat DEF Times
  <2> QED
    BY <1>2, <1>3, <2>1
<1>4. \A d \in S : h[d] # 0
  <2> TAKE d \in S
  <2>1. Local(y, d) \in Nat /\ Times(d \in S) = 1 /\ Times(d \in w.lost) \in Nat
    BY LocalNat DEF Times
  <2> QED
    BY <1>2, <2>1
<1>5. \A d \in Devs : g[d] = h[d] - Times(d \in S)
  OBVIOUS
<1> HIDE DEF h, g
<1>6. /\ Books(es, g)
      /\ \A d \in Devs : es[d] # Free => w.dev[d] # Free /\ Kept(w.dev, es, d)
      /\ \A d \in Devs : g[d] # 0 => es[d] # Free
  BY <1>1, <1>4, <1>5, DropBooks
<1>7. \A d \in Devs : es[d] # Free =>
        es[d].ctx = IF w.dev[d] = Free THEN c ELSE w.dev[d].ctx
  BY <1>6 DEF Kept
<1>8. \A d \in Devs : es[d] # Free /\ es[d].ctx = c => g[d] = Local(y, d) + Times(d \in w.lost)
  BY <1>3, <1>6 DEF Kept
<1>9. \A d \in Devs : w.dev[d] # Free /\ w.dev[d].ctx # c => g[d] = Direct(w, d)
  BY DirectNat DEF g, Times
<1>10. ASSUME NEW d \in w.lost PROVE d \in Devs /\ es[d] # Free
  <2>1. d \in Devs /\ w.dev[d] # Free /\ Times(d \in w.lost) = 1
    BY <1>10 DEF Held, Times
  <2>2. g[d] # 0
    <3>1. CASE w.dev[d].ctx = c
      BY <1>3, <2>1, <3>1, LocalNat
    <3>2. CASE w.dev[d].ctx # c
      BY <1>9, <2>1, <3>2, LocalNat DEF Direct
    <3> QED
      BY <3>1, <3>2
  <2> QED
    BY <1>6, <2>1, <2>2
<1>11. PointsOK(es, w.lost, c, y)
  <2>1. ASSUME NEW d \in Devs, PointsTo(y, d) PROVE es[d] # Free /\ es[d].ctx = c
    <3>1. w.dev[d] # Free /\ w.dev[d].ctx = c
      BY <2>1 DEF PointsOK
    <3>2. Local(y, d) # 0 /\ Local(y, d) \in Nat /\ Times(d \in w.lost) \in Nat
      BY <2>1, PointedHeld, LocalNat DEF Times
    <3>3. es[d] # Free
      BY <1>3, <1>6, <3>1, <3>2
    <3> QED
      BY <1>7, <3>1, <3>3
  <2> QED
    BY <2>1, PointsStay
<1>12. Steps(w, v, c, y, g)
  <2> HIDE DEF es
  <2>1. v.dev = es
    BY DEF es
  <2> QED
    BY <1>6, <1>7, <1>8, <1>9, <1>10, <1>11, <2>1 DEF Steps
<1> QED
  BY <1>12, HeldAfter

\* A context takes references of the devices of S.
LEMMA HeldTake ==
  ASSUME NEW w, NEW v, Shaped(w), Held(w), NEW c \in Ctx, NEW y \in Contexts,
         NEW S \in SUBSET Devs, \A d \in S : w.dev[d] # Free /\ w.dev[d].ctx = c,
         \A d \in Devs : Local(y, d) = Local(w.ctx[c], d) + Times(d \in S),
         PointsOK(w.dev, w.lost, c, y),
         v.dev = Taken(w.dev, S), v.ctx = [w.ctx EXCEPT ![c] = y], v.lost = w.lost
  PROVE  Held(v)
<1> DEFINE h == [d \in Devs |-> Direct(w, d)]
           g == [d \in Devs |-> Direct(w, d) + Times(d \in S)]
           es == Taken(w.dev, S)
<1>1. Books(w.dev, h)
  BY DEF Held
<1>2. ASSUME NEW d \in Devs, w.dev[d] # Free, w.dev[d].ctx = c
      PROVE  g[d] = Local(y, d) + Times(d \in w.lost)
  <2>1. Local(w.ctx[c], d) \in Nat /\ Times(d \in S) \in Nat /\ Times(d \in w.lost) \in Nat
    BY LocalNat DEF Times
  <2> QED
    BY <1>2, <2>1 DEF Direct
<1>3. \A d \in Devs : g[d] = h[d] + Times(d \in S)
  OBVIOUS
<1>4. \A d \in Devs : w.dev[d] # Free /\ w.dev[d].ctx # c => g[d] = Direct(w, d)
  BY DirectNat DEF Times
<1> HIDE DEF h, g
<1>5. /\ Books(es, g)
      /\ \A d \in Devs : es[d] = Free <=> w.dev[d] = Free
      /\ \A d \in Devs : w.dev[d] # Free => Kept(w.dev, es, d)
  BY <1>1, <1>3, TakenBooks
<1>6. \A d \in Devs : es[d] # Free =>
        es[d].ctx = IF w.dev[d] = Free THEN c ELSE w.dev[d].ctx
  BY <1>5 DEF Kept
<1>7. \A d \in Devs : es[d] # Free /\ es[d].ctx = c => g[d] = Local(y, d) + Times(d \in w.lost)
  BY <1>2, <1>5 DEF Kept
<1>8. \A d \in w.lost : d \in Devs /\ es[d] # Free
  BY <1>5 DEF Held
<1>9. PointsOK(es, w.lost, c, y)
  <2>1. \A d \in Devs : PointsTo(y, d) => es[d] # Free /\ es[d].ctx = c
    BY <1>5 DEF PointsOK, Kept
  <2> QED
    BY <2>1, PointsStay
<1>10. Steps(w, v, c, y, g)
  <2> HIDE DEF es
  <2>1. v.dev = es
    BY DEF es
  <2> QED
    BY <1>4, <1>5, <1>6, <1>7, <1>8, <1>9, <2>1 DEF Steps, Kept
<1> QED
  BY <1>10, HeldAfter

\* A context moves on with what it has.
LEMMA HeldSame ==
  ASSUME NEW w, NEW v, Shaped(w), Held(w), NEW c \in Ctx, NEW y \in Contexts,
         \A d \in Devs : Local(y, d) = Local(w.ctx[c], d),
         PointsOK(w.dev, w.lost, c, y),
         v.dev = w.dev, v.ctx = [w.ctx EXCEPT ![c] = y], v.lost = w.lost
  PROVE  Held(v)
<1> DEFINE S == {}
<1>1. v.dev = Taken(w.dev, S)
  BY DEF Taken, Shaped
<1>2. \A d \in Devs : Local(y, d) = Local(w.ctx[c], d) + Times(d \in S)
  BY LocalNat DEF Times
<1>3. S \in SUBSET Devs /\ \A d \in S : w.dev[d] # Free /\ w.dev[d].ctx = c
  OBVIOUS
<1> HIDE DEF S
<1>4. ASSUME NEW u, u.dev = Taken(w.dev, S), u.ctx = [w.ctx EXCEPT ![c] = y], u.lost = w.lost
      PROVE  Held(u)
  BY <1>2, <1>3, <1>4, HeldTake
<1> QED
  BY <1>1, <1>4

\* It points to less, or to what it pointed to already in another way.
LEMMA SamePoints ==
  ASSUME NEW ds, NEW ls, NEW c, NEW x, PointsOK(ds, ls, c, x), NEW y,
         y.list = x.list, y.msgs = x.msgs, \A d \in y.array : PointsTo(x, d),
         y.handle = None \/ PointsTo(x, y.handle),
         y.at = "device2" => y.handle # None /\ (InList(x, y.handle) \/ HasLeft(x, y.handle))
  PROVE  PointsOK(ds, ls, c, y)
<1>1. \A d : (InList(y, d) <=> InList(x, d)) /\ (HasLeft(y, d) <=> HasLeft(x, d))
  BY DEF InList, HasLeft
<1>2. \A d \in Devs : PointsTo(y, d) => PointsTo(x, d)
  BY <1>1 DEF PointsTo
<1> HIDE DEF PointsTo
<1> QED
  BY <1>1, <1>2 DEF PointsOK

LEMMA NoPoints ==
  ASSUME NEW ds, NEW ls, NEW c, NEW y, y.list = <<>>, y.msgs = <<>>, y.array = {}, y.handle = None,
         y.at # "device2"
  PROVE  PointsOK(ds, ls, c, y) /\ \A d \in Devs : Local(y, d) = 0
<1>1. \A d \in Devs : ~PointsTo(y, d) /\ ~InList(y, d) /\ ~HasLeft(y, d) /\ ~HasOpen(y, d)
  BY DEF PointsTo, InList, HasLeft, HasOpen
<1> HIDE DEF PointsTo
<1> QED
  BY <1>1 DEF PointsOK, Local, Times

-----------------------------------------------------------------------------
(* Sequences with one element more or less.                                  *)

\* What an element in front, at the end, or one less makes of a sequence.
LEMMA FrontIs ==
  ASSUME NEW D, NEW l \in Seq(D), NEW d \in D, NEW k, k = <<d>> \o l
  PROVE  /\ k \in Seq(D) /\ Len(k) = Len(l) + 1 /\ 1 \in DOMAIN k /\ k[1] = d
         /\ \A i \in DOMAIN l : i + 1 \in DOMAIN k /\ k[i + 1] = l[i]
         /\ \A i \in DOMAIN k : i = 1 \/ (i - 1 \in DOMAIN l /\ k[i] = l[i - 1])
OBVIOUS

LEMMA AppendIs ==
  ASSUME NEW M, NEW m \in Seq(M), NEW e \in M, NEW k, k = Append(m, e)
  PROVE  /\ k \in Seq(M) /\ Len(k) = Len(m) + 1 /\ DOMAIN k \subseteq Nat
         /\ \A i \in DOMAIN m : i \in DOMAIN k /\ k[i] = m[i] /\ i < Len(k) /\ i # Len(k)
         /\ Len(k) \in DOMAIN k /\ k[Len(k)] = e
         /\ \A i \in DOMAIN k : i = Len(k) \/ i \in DOMAIN m
OBVIOUS

LEMMA TailIs ==
  ASSUME NEW M, NEW m \in Seq(M), m # <<>>, NEW k, k = Tail(m)
  PROVE  /\ k \in Seq(M) /\ 1 \in DOMAIN m /\ m[1] = Head(m) /\ DOMAIN k \subseteq Nat
         /\ \A i \in DOMAIN k : i + 1 \in DOMAIN m /\ k[i] = m[i + 1] /\ i + 1 # 1
         /\ \A i \in DOMAIN m : i = 1 \/ (i - 1 \in DOMAIN k /\ m[i] = k[i - 1])
OBVIOUS

LEMMA RemoveAtIs ==
  ASSUME NEW D, NEW l \in Seq(D), NEW n \in DOMAIN l, NEW k, k = RemoveAt(l, n)
  PROVE  /\ k \in Seq(D) /\ Len(k) = Len(l) - 1
         /\ \A i \in DOMAIN k : \/ i < n /\ i \in DOMAIN l /\ k[i] = l[i]
                                \/ i >= n /\ i + 1 \in DOMAIN l /\ k[i] = l[i + 1]
         /\ \A i \in DOMAIN l : \/ i < n /\ i \in DOMAIN k /\ k[i] = l[i]
                                \/ i = n
                                \/ i > n /\ i - 1 \in DOMAIN k /\ k[i - 1] = l[i]
<1> DEFINE a == SubSeq(l, 1, n - 1)
           b == SubSeq(l, n + 1, Len(l))
<1>1. Len(l) \in Nat /\ n \in 1 .. Len(l)
  OBVIOUS
<1>2. a \in Seq(D) /\ Len(a) = n - 1 /\ \A i \in 1 .. n - 1 : a[i] = l[i]
  BY <1>1
<1>3. b \in Seq(D) /\ Len(b) = Len(l) - n /\ \A i \in 1 .. Len(l) - n : b[i] = l[n + i]
  BY <1>1
<1>4. k = a \o b
  BY DEF RemoveAt
<1> HIDE DEF a, b
<1>5. /\ k \in Seq(D) /\ Len(k) = Len(a) + Len(b)
      /\ \A i \in 1 .. Len(a) + Len(b) : k[i] = IF i <= Len(a) THEN a[i] ELSE b[i - Len(a)]
  <2>1. a \in Seq(D) /\ b \in Seq(D)
    BY <1>2, <1>3
  <2>2. /\ a \o b \in Seq(D) /\ Len(a \o b) = Len(a) + Len(b)
        /\ \A i \in 1 .. Len(a) + Len(b) :
             (a \o b)[i] = IF i <= Len(a) THEN a[i] ELSE b[i - Len(a)]
    BY <2>1, ConcatProperties
  <2> QED
    BY <1>4, <2>2
<1>6. /\ k \in Seq(D) /\ Len(k) = Len(l) - 1
      /\ \A i \in 1 .. Len(l) - 1 : k[i] = IF i < n THEN l[i] ELSE l[i + 1]
  <2>1. Len(a) + Len(b) = Len(l) - 1
    BY <1>1, <1>2, <1>3
  <2>2. ASSUME NEW i \in 1 .. Len(l) - 1 PROVE k[i] = IF i < n THEN l[i] ELSE l[i + 1]
    <3> DEFINE j == i - (n - 1)
    <3>1. k[i] = IF i < n THEN a[i] ELSE b[j]
      BY SMTT(30), <1>1, <1>2, <1>5, <2>1
    <3>2. CASE i < n
      BY <1>1, <1>2, <3>1, <3>2
    <3>3. CASE ~(i < n)
      <4>1. j \in 1 .. Len(l) - n /\ n + j = i + 1
        BY <1>1, <3>3
      <4> HIDE DEF j
      <4>2. b[j] = l[n + j]
        BY <1>3, <4>1
      <4> QED
        BY <3>1, <3>3, <4>1, <4>2
    <3> QED
      BY <3>2, <3>3
  <2> QED
    BY <1>5, <2>1, <2>2
<1>7. DOMAIN k = 1 .. Len(l) - 1 /\ DOMAIN l = 1 .. Len(l)
  BY <1>1, <1>6
<1>8. ASSUME NEW i \in 1 .. Len(l) - 1
      PROVE  \/ i < n /\ i \in 1 .. Len(l) /\ k[i] = l[i]
             \/ i >= n /\ i + 1 \in 1 .. Len(l) /\ k[i] = l[i + 1]
  BY <1>1, <1>6
<1>9. ASSUME NEW i \in 1 .. Len(l)
      PROVE  \/ i < n /\ i \in 1 .. Len(l) - 1 /\ k[i] = l[i]
             \/ i = n
             \/ i > n /\ i - 1 \in 1 .. Len(l) - 1 /\ k[i - 1] = l[i]
  <2>1. CASE i < n
    BY <1>1, <1>6, <2>1
  <2>2. CASE i > n
    <3>1. i - 1 \in 1 .. Len(l) - 1 /\ ~(i - 1 < n) /\ (i - 1) + 1 = i
      BY <1>1, <2>2
    <3>2. k[i - 1] = l[(i - 1) + 1]
      BY <1>6, <3>1
    <3> QED
      BY <2>2, <3>1, <3>2
  <2> QED
    BY <1>1, <2>1, <2>2
<1> QED
  BY <1>6, <1>7, <1>8, <1>9

\* Each device of a list is in one place of it.
Once(l) == \A i, j \in DOMAIN l : l[i] = l[j] => i = j
In(l, d) == \E i \in DOMAIN l : l[i] = d

LEMMA OnceFront ==
  ASSUME NEW l \in Seq(Devs), NEW d \in Devs, Once(l), ~In(l, d),
         NEW k, k = <<d>> \o l
  PROVE  Once(k) /\ \A e : In(k, e) <=> e = d \/ In(l, e)
<1>1. /\ 1 \in DOMAIN k /\ k[1] = d
      /\ \A i \in DOMAIN l : i + 1 \in DOMAIN k /\ k[i + 1] = l[i]
      /\ \A i \in DOMAIN k : i = 1 \/ (i - 1 \in DOMAIN l /\ k[i] = l[i - 1])
  BY FrontIs
<1>2. k \in Seq(Devs) /\ DOMAIN k \subseteq Nat
  OBVIOUS
<1>3. ASSUME NEW i \in DOMAIN k, NEW j \in DOMAIN k, k[i] = k[j] PROVE i = j
  <2>1. \A m \in DOMAIN l : l[m] # d
    BY DEF In
  <2> QED
    BY <1>1, <1>2, <1>3, <2>1 DEF Once
<1>4. ASSUME NEW e
      PROVE  (\E i \in DOMAIN k : k[i] = e) <=> e = d \/ \E i \in DOMAIN l : l[i] = e
  <2>1. ASSUME NEW i \in DOMAIN k, k[i] = e PROVE e = d \/ \E j \in DOMAIN l : l[j] = e
    BY <1>1, <2>1
  <2>2. ASSUME NEW j \in DOMAIN l, l[j] = e PROVE \E i \in DOMAIN k : k[i] = e
    BY <1>1, <2>2
  <2> QED
    BY <1>1, <2>1, <2>2
<1> QED
  BY <1>3, <1>4 DEF Once, In

LEMMA OnceRemove ==
  ASSUME NEW l \in Seq(Devs), NEW n \in DOMAIN l, Once(l), NEW k, k = RemoveAt(l, n)
  PROVE  Once(k) /\ \A e : In(k, e) <=> e # l[n] /\ In(l, e)
<1>1. /\ k \in Seq(Devs)
      /\ \A i \in DOMAIN k : \/ i < n /\ i \in DOMAIN l /\ k[i] = l[i]
                             \/ i >= n /\ i + 1 \in DOMAIN l /\ k[i] = l[i + 1]
      /\ \A i \in DOMAIN l : \/ i < n /\ i \in DOMAIN k /\ k[i] = l[i]
                             \/ i = n
                             \/ i > n /\ i - 1 \in DOMAIN k /\ k[i - 1] = l[i]
  BY SMTT(30), RemoveAtIs
<1>2. DOMAIN k \subseteq Nat /\ DOMAIN l \subseteq Nat
  BY <1>1
<1>3. ASSUME NEW i \in DOMAIN k, NEW j \in DOMAIN k, k[i] = k[j] PROVE i = j
  <2> DEFINE f(m) == IF m < n THEN m ELSE m + 1
  <2>1. \A m \in DOMAIN k : f(m) \in DOMAIN l /\ k[m] = l[f(m)]
    BY <1>1, <1>2
  <2>2. f(i) = f(j)
    BY <1>3, <2>1 DEF Once
  <2> QED
    BY <1>2, <2>2
<1>4. ASSUME NEW i \in DOMAIN k PROVE k[i] # l[n] /\ \E j \in DOMAIN l : l[j] = k[i]
  BY <1>1, <1>2 DEF Once
<1>5. ASSUME NEW j \in DOMAIN l, l[j] # l[n] PROVE \E i \in DOMAIN k : k[i] = l[j]
  BY <1>1, <1>2, <1>5
<1> QED
  BY <1>3, <1>4, <1>5 DEF Once, In

\* Messages, one more of them.
LEMMA MessageIs ==
  ASSUME NEW e \in {"arrived", "left"}, NEW d
  PROVE  /\ Message(e, d).event = e /\ Message(e, d).dev = d
         /\ d \in Devs => Message(e, d) \in Messages
         /\ \A f, b : Message(e, d) = Message(f, b) => e = f /\ d = b
<1>1. \A f, b : Message(f, b).event = f /\ Message(f, b).dev = b
  BY DEF Message
<1>2. d \in Devs => Message(e, d) \in Messages
  BY DEF Message, Messages
<1> QED
  BY <1>1, <1>2

\* usbi_connect_device, for the context.
LEMMA JoinedPoints ==
  ASSUME NEW ds, NEW es, NEW ls, NEW c, NEW x, ContextOK(x), Hears(x), PointsOK(ds, ls, c, x),
         NEW d0 \in Devs, ds[d0] = Free, d0 \notin ls, es[d0] # Free, es[d0].ctx = c,
         \A d \in Devs : ds[d] # Free => Kept(ds, es, d)
  PROVE  /\ PointsOK(es, ls, c, Joined(x, d0))
         /\ \A d \in Devs : Local(Joined(x, d0), d) = Local(x, d) + Times(d = d0)
<1> DEFINE y == Joined(x, d0)
<1>1. /\ x \in Contexts /\ x.list \in Seq(Devs) /\ x.msgs \in Seq(Messages)
      /\ \A d \in Devs : PointsTo(x, d) => ds[d] # Free
      /\ ~PointsTo(x, d0)
  BY DEF ContextOK, Contexts, PointsOK
<1>2. /\ y.at = x.at /\ y.array = x.array /\ y.handle = x.handle
      /\ y.list = <<d0>> \o x.list
      /\ y.msgs = x.msgs \/ y.msgs = Append(x.msgs, Message("arrived", d0))
      /\ y \in Contexts
  <2>1. y.msgs = IF x.ready THEN Append(x.msgs, Message("arrived", d0)) ELSE x.msgs
    BY JoinedOK
  <2>2. /\ y.at = x.at /\ y.array = x.array /\ y.handle = x.handle
        /\ y.list = <<d0>> \o x.list /\ ContextOK(y)
    BY JoinedOK
  <2> HIDE DEF y
  <2> QED
    BY <2>1, <2>2 DEF ContextOK
<1> HIDE DEF y
<1>3. /\ Once(y.list)
      /\ \A d : InList(y, d) <=> d = d0 \/ InList(x, d)
  <2>1. Once(x.list) /\ \A i \in DOMAIN x.list : x.list[i] # d0
    BY <1>1 DEF PointsOK, Once, PointsTo, InList
  <2> DEFINE l == x.list
  <2>2. l \in Seq(Devs) /\ Once(l) /\ ~In(l, d0)
    BY <1>1, <2>1 DEF In
  <2> HIDE DEF l
  <2>3. PICK k : k = <<d0>> \o l
    OBVIOUS
  <2>4. y.list = k /\ l = x.list
    BY <1>2, <2>3 DEF l
  <2>5. Once(k) /\ \A e : In(k, e) <=> e = d0 \/ In(l, e)
    BY <2>2, <2>3, OnceFront
  <2> QED
    BY <2>4, <2>5 DEF InList, In
<1>4. /\ \A i \in DOMAIN x.msgs : i \in DOMAIN y.msgs /\ y.msgs[i] = x.msgs[i]
      /\ \A i \in DOMAIN y.msgs : \/ i \in DOMAIN x.msgs
                                  \/ y.msgs[i] = Message("arrived", d0)
  <2> DEFINE m == Message("arrived", d0)
  <2>1. m \in Messages
    BY MessageIs
  <2> HIDE DEF m
  <2>2. ASSUME y.msgs = Append(x.msgs, m)
        PROVE  /\ \A i \in DOMAIN x.msgs : i \in DOMAIN y.msgs /\ y.msgs[i] = x.msgs[i]
               /\ \A i \in DOMAIN y.msgs : i \in DOMAIN x.msgs \/ y.msgs[i] = m
    BY <1>1, <2>1, <2>2, AppendIs
  <2> QED
    BY <1>2, <2>2 DEF m
<1>5. \A d : HasLeft(y, d) <=> HasLeft(x, d)
  BY <1>4, MessageIs DEF HasLeft
<1>6. \A d : HasOpen(y, d) <=> HasOpen(x, d)
  BY <1>2 DEF HasOpen
<1>7. ASSUME NEW d \in Devs PROVE Local(y, d) = Local(x, d) + Times(d = d0)
  <2>1. InList(x, d0) => PointsTo(x, d0)
    BY DEF PointsTo
  <2>2. Times(InList(y, d)) = Times(InList(x, d)) + Times(d = d0)
    BY <1>1, <1>3, <2>1 DEF Times
  <2>3. /\ Times(InList(x, d)) \in Nat /\ Times(d \in x.array) \in Nat
        /\ Times(HasOpen(x, d)) \in Nat /\ Times(HasLeft(x, d)) \in Nat /\ Times(d = d0) \in Nat
    BY DEF Times
  <2>4. Times(HasOpen(y, d)) = Times(HasOpen(x, d)) /\ Times(HasLeft(y, d)) = Times(HasLeft(x, d))
    BY <1>5, <1>6 DEF Times
  <2> QED
    BY <1>2, <2>2, <2>3, <2>4 DEF Local
<1>8. ASSUME NEW d \in Devs, PointsTo(y, d) PROVE es[d] # Free /\ es[d].ctx = c
  <2>1. d = d0 \/ PointsTo(x, d)
    <3>1. ASSUME NEW i \in DOMAIN y.msgs, y.msgs[i].dev = d PROVE d = d0 \/ PointsTo(x, d)
      BY <1>4, <3>1, MessageIs DEF PointsTo
    <3>2. InList(x, d) => PointsTo(x, d)
      BY DEF PointsTo
    <3>3. d \in y.array \/ y.handle = d => PointsTo(x, d)
      BY <1>2 DEF PointsTo
    <3> QED
      BY <1>3, <1>8, <3>1, <3>2, <3>3 DEF PointsTo
  <2>2. CASE PointsTo(x, d)
    BY <2>2 DEF PointsOK, Kept
  <2> QED
    BY <2>1, <2>2
<1>9. ASSUME NEW i \in DOMAIN y.msgs, NEW j \in DOMAIN y.msgs, y.msgs[i] = y.msgs[j],
             y.msgs[i].event = "left"
      PROVE  i = j
  <2>1. i \in DOMAIN x.msgs /\ j \in DOMAIN x.msgs
    BY <1>4, <1>9, MessageIs
  <2> QED
    BY <1>4, <1>9, <2>1 DEF PointsOK
<1>10. ASSUME NEW d \in Devs
       PROVE  /\ InList(y, d) => ~HasLeft(y, d) /\ d \notin ls
              /\ HasLeft(y, d) => d \notin ls
  <2>1. HasLeft(x, d0) => PointsTo(x, d0)
    BY MessageIs DEF HasLeft, PointsTo
  <2> QED
    BY <1>1, <1>3, <1>5, <2>1 DEF PointsOK
<1>11. ASSUME NEW i \in DOMAIN y.msgs, y.msgs[i].event = "arrived"
       PROVE  \/ InList(y, y.msgs[i].dev)
              \/ \E j \in DOMAIN y.msgs : i < j /\ y.msgs[j] = Message("left", y.msgs[i].dev)
  <2>1. CASE i \in DOMAIN x.msgs
    <3>1. \/ InList(x, x.msgs[i].dev)
          \/ \E j \in DOMAIN x.msgs : i < j /\ x.msgs[j] = Message("left", x.msgs[i].dev)
      BY <1>4, <1>11, <2>1 DEF PointsOK
    <3> QED
      BY <1>3, <1>4, <2>1, <3>1
  <2>2. CASE y.msgs[i] = Message("arrived", d0)
    BY <1>3, <2>2, MessageIs
  <2> QED
    BY <1>4, <2>1, <2>2
<1>12. y.at = "device2" => InList(y, y.handle) \/ HasLeft(y, y.handle)
  BY <1>2, <1>3, <1>5 DEF PointsOK
<1>13. PointsOK(es, ls, c, y)
  BY <1>3, <1>8, <1>9, <1>10, <1>11, <1>12 DEF PointsOK, Once
<1> QED
  BY <1>7, <1>13 DEF y

\* usbi_disconnect_device, for the context: the list's reference is the message's or lost.
Losing(ls, x, n) == IF x.ready THEN ls ELSE ls \union {x.list[n]}

LEMMA LeftPoints ==
  ASSUME NEW ds, NEW es, NEW ls, NEW c, NEW x, ContextOK(x), Hears(x), PointsOK(ds, ls, c, x),
         NEW n \in DOMAIN x.list, NEW ks, ks = Losing(ls, x, n),
         \A d \in Devs : ds[d] # Free => Kept(ds, es, d)
  PROVE  /\ PointsOK(es, ks, c, Left(x, n))
         /\ \A d \in Devs : Local(Left(x, n), d) + Times(d \in ks) = Local(x, d) + Times(d \in ls)
<1> DEFINE y == Left(x, n)
           d0 == x.list[n]
<1> USE DEF Losing
<1>1. /\ x \in Contexts /\ x.list \in Seq(Devs) /\ x.msgs \in Seq(Messages) /\ d0 \in Devs
      /\ InList(x, d0) /\ ~HasLeft(x, d0) /\ d0 \notin ls
      /\ ~x.ready => x.msgs = <<>>
      /\ x.at = "device2" => x.ready
  <2>1. x \in Contexts /\ x.list \in Seq(Devs) /\ x.msgs \in Seq(Messages) /\ d0 \in Devs
    BY DEF ContextOK, Contexts
  <2>2. InList(x, d0)
    BY DEF InList
  <2>3. ~x.ready => x.msgs = <<>>
    BY DEF ContextOK, LifeOf
  <2>4. x.at = "device2" => x.ready
    BY DEF ContextOK, LifeOf, Up
  <2> QED
    BY <2>1, <2>2, <2>3, <2>4 DEF PointsOK
<1>2. /\ y.at = x.at /\ y.array = x.array /\ y.handle = x.handle
      /\ y.list = RemoveAt(x.list, n)
      /\ y.msgs = IF x.ready THEN Append(x.msgs, Message("left", d0)) ELSE x.msgs
  BY LeftOK
<1> HIDE DEF y
<1>3. Once(y.list) /\ \A d : InList(y, d) <=> d # d0 /\ InList(x, d)
  <2>1. Once(x.list)
    BY DEF PointsOK, Once
  <2> DEFINE l == x.list
  <2>2. l \in Seq(Devs) /\ Once(l) /\ n \in DOMAIN l
    BY <1>1, <2>1
  <2> HIDE DEF l, d0
  <2>3. PICK k : k = RemoveAt(l, n)
    OBVIOUS
  <2>4. y.list = k /\ l = x.list /\ d0 = l[n]
    BY <1>2, <2>3 DEF l, d0
  <2>5. Once(k) /\ \A e : In(k, e) <=> e # l[n] /\ In(l, e)
    BY <2>2, <2>3, OnceRemove
  <2> QED
    BY <2>4, <2>5 DEF InList, In
<1>4. /\ \A i \in DOMAIN x.msgs : i \in DOMAIN y.msgs /\ y.msgs[i] = x.msgs[i]
      /\ \A i \in DOMAIN y.msgs : \/ i \in DOMAIN x.msgs
                                  \/ y.msgs[i] = Message("left", d0) /\ i \notin DOMAIN x.msgs
      /\ x.ready => \E j \in DOMAIN y.msgs : /\ y.msgs[j] = Message("left", d0)
                                             /\ \A i \in DOMAIN x.msgs : i < j
                                             /\ \A i \in DOMAIN y.msgs :
                                                  i = j \/ i \in DOMAIN x.msgs
      /\ ~x.ready => y.msgs = <<>> /\ x.msgs = <<>>
  <2>1. CASE x.ready
    <3>1. Message("left", d0) \in Messages
      BY <1>1, MessageIs
    <3> DEFINE m == Message("left", d0)
    <3>2. y.msgs = Append(x.msgs, m) /\ m \in Messages
      BY <1>2, <2>1, <3>1
    <3> HIDE DEF m
    <3>3. /\ Len(y.msgs) \in DOMAIN y.msgs /\ y.msgs[Len(y.msgs)] = m
          /\ \A i \in DOMAIN x.msgs : /\ i \in DOMAIN y.msgs /\ y.msgs[i] = x.msgs[i]
                                      /\ i < Len(y.msgs) /\ i # Len(y.msgs)
          /\ \A i \in DOMAIN y.msgs : i = Len(y.msgs) \/ i \in DOMAIN x.msgs
      BY <1>1, <3>2, AppendIs
    <3>4. Len(y.msgs) \notin DOMAIN x.msgs
      BY <3>3
    <3> QED
      BY <2>1, <3>3, <3>4 DEF m
  <2>2. CASE ~x.ready
    <3>1. x.msgs = <<>> /\ y.msgs = <<>>
      BY <1>1, <1>2, <2>2
    <3>2. DOMAIN y.msgs = {} /\ DOMAIN x.msgs = {}
      BY <3>1
    <3> QED
      BY <2>2, <3>1, <3>2
  <2> QED
    BY <2>1, <2>2
<1>5. \A d : HasLeft(y, d) <=> HasLeft(x, d) \/ (x.ready /\ d = d0)
  <2>1. CASE x.ready
    BY <1>4, <2>1, MessageIs DEF HasLeft
  <2>2. CASE ~x.ready
    BY <1>4, <2>2 DEF HasLeft
  <2> QED
    BY <2>1, <2>2
<1>6. \A d : HasOpen(y, d) <=> HasOpen(x, d)
  BY <1>2 DEF HasOpen
<1>7. ASSUME NEW d \in Devs
      PROVE  Local(y, d) + Times(d \in ks) = Local(x, d) + Times(d \in ls)
  <2>1. /\ Times(InList(x, d)) \in Nat /\ Times(d \in x.array) \in Nat
        /\ Times(HasOpen(x, d)) \in Nat /\ Times(HasLeft(x, d)) \in Nat
        /\ Times(InList(y, d)) \in Nat /\ Times(HasLeft(y, d)) \in Nat
        /\ Times(d \in ks) \in Nat /\ Times(d \in ls) \in Nat
    BY DEF Times
  <2>2. Times(InList(y, d)) + Times(HasLeft(y, d)) + Times(d \in ks) =
          Times(InList(x, d)) + Times(HasLeft(x, d)) + Times(d \in ls)
    <3>1. CASE d = d0
      <4>1. ~InList(y, d) /\ InList(x, d) /\ ~HasLeft(x, d) /\ d \notin ls
        BY <1>1, <1>3, <3>1
      <4>2. CASE x.ready
        BY <1>5, <3>1, <4>1, <4>2 DEF Times
      <4>3. CASE ~x.ready
        BY <1>5, <3>1, <4>1, <4>3 DEF Times
      <4> QED
        BY <4>2, <4>3
    <3>2. CASE d # d0
      <4>1. (InList(y, d) <=> InList(x, d)) /\ (HasLeft(y, d) <=> HasLeft(x, d))
        BY <1>3, <1>5, <3>2
      <4>2. d \in ks <=> d \in ls
        BY <3>2
      <4> QED
        BY <4>1, <4>2 DEF Times
    <3> QED
      BY <3>1, <3>2
  <2>3. Times(HasOpen(y, d)) = Times(HasOpen(x, d))
    BY <1>6 DEF Times
  <2> HIDE DEF d0
  <2> QED
    BY <1>2, <2>1, <2>2, <2>3 DEF Local
<1>8. ASSUME NEW d \in Devs, PointsTo(y, d) PROVE es[d] # Free /\ es[d].ctx = c
  <2>1. PointsTo(x, d)
    <3>1. ASSUME NEW i \in DOMAIN y.msgs, y.msgs[i].dev = d PROVE PointsTo(x, d)
      BY <1>1, <1>4, <3>1, MessageIs DEF PointsTo
    <3>2. InList(x, d) => PointsTo(x, d)
      BY DEF PointsTo
    <3>3. d \in y.array \/ y.handle = d => PointsTo(x, d)
      BY <1>2 DEF PointsTo
    <3> QED
      BY <1>3, <1>8, <3>1, <3>2, <3>3 DEF PointsTo
  <2> QED
    BY <2>1 DEF PointsOK, Kept
<1>9. ASSUME NEW i \in DOMAIN y.msgs, NEW j \in DOMAIN y.msgs, y.msgs[i] = y.msgs[j],
             y.msgs[i].event = "left"
      PROVE  i = j
  <2>1. CASE i \in DOMAIN x.msgs /\ j \in DOMAIN x.msgs
    BY <1>4, <1>9, <2>1 DEF PointsOK
  <2>2. CASE i \notin DOMAIN x.msgs \/ j \notin DOMAIN x.msgs
    <3>1. y.msgs[i] = Message("left", d0)
      BY <1>4, <1>9, <2>2
    <3>2. \A m \in DOMAIN x.msgs : y.msgs[m] # Message("left", d0)
      BY <1>1, <1>4 DEF HasLeft
    <3>3. i \notin DOMAIN x.msgs /\ j \notin DOMAIN x.msgs
      BY <1>9, <3>1, <3>2
    <3>4. x.ready
      BY <1>4, <3>3
    <3> QED
      BY <1>4, <3>3, <3>4
  <2> QED
    BY <2>1, <2>2
<1>10. ASSUME NEW d \in Devs
       PROVE  /\ InList(y, d) => ~HasLeft(y, d) /\ d \notin ks
              /\ HasLeft(y, d) => d \notin ks
  <2>1. InList(y, d) => ~HasLeft(y, d) /\ d \notin ks
    BY <1>3, <1>5 DEF PointsOK
  <2>2. ASSUME HasLeft(y, d) PROVE d \notin ks
    <3>1. x.ready
      BY <1>4, <2>2 DEF HasLeft
    <3>2. HasLeft(x, d) \/ d = d0
      BY <1>5, <2>2
    <3> QED
      BY <1>1, <3>1, <3>2 DEF PointsOK
  <2> QED
    BY <2>1, <2>2
<1>11. ASSUME NEW i \in DOMAIN y.msgs, y.msgs[i].event = "arrived"
       PROVE  \/ InList(y, y.msgs[i].dev)
              \/ \E j \in DOMAIN y.msgs : i < j /\ y.msgs[j] = Message("left", y.msgs[i].dev)
  <2>1. i \in DOMAIN x.msgs /\ x.ready
    BY <1>4, <1>11, MessageIs
  <2>2. \/ InList(x, x.msgs[i].dev)
        \/ \E j \in DOMAIN x.msgs : i < j /\ x.msgs[j] = Message("left", x.msgs[i].dev)
    BY <1>4, <1>11, <2>1 DEF PointsOK
  <2>3. CASE x.msgs[i].dev = d0
    BY <1>4, <2>1, <2>3
  <2> QED
    BY <1>3, <1>4, <2>1, <2>2, <2>3
<1>12. y.at = "device2" => InList(y, y.handle) \/ HasLeft(y, y.handle)
  BY <1>1, <1>2, <1>3, <1>5 DEF PointsOK
<1>13. PointsOK(es, ks, c, y)
  BY <1>3, <1>8, <1>9, <1>10, <1>11, <1>12 DEF PointsOK, Once
<1> QED
  BY <1>7, <1>13 DEF y

LEMMA WorldShaped == ASSUME NEW w, World(w) PROVE Shaped(w)
BY DEF World, Shaped, ContextOK, IsMemory

\* usbi_connect_device keeps the books.
LEMMA HeldConnect ==
  ASSUME NEW w, World(w), Held(w), NEW c \in Ctx, Hears(w.ctx[c]), NEW a \in Addr,
         NEW p, Hub(w.dev, a, p), \E d \in Devs : w.dev[d] = Free
  PROVE  /\ Held(Connect(w, c, a, p))
         /\ \E d \in Devs :
              /\ w.dev[d] = Free
              /\ Connect(w, c, a, p).ctx = [w.ctx EXCEPT ![c] = Joined(w.ctx[c], d)]
              /\ Connect(w, c, a, p).lost = w.lost
              /\ Connect(w, c, a, p).dev[d] = New(c, a, p)
              /\ \A e \in Devs : w.dev[e] # Free => Kept(w.dev, Connect(w, c, a, p).dev, e)
              /\ \A e \in Devs : Connect(w, c, a, p).dev[e] # Free => e = d \/ w.dev[e] # Free
<1> DEFINE v == Connect(w, c, a, p)
           ds == IF p = None THEN w.dev ELSE Ref(w.dev, p)
           x == w.ctx[c]
<1>1. PICK d \in Devs :
        /\ w.dev[d] = Free
        /\ v = [dev  |-> [ds EXCEPT ![d] = New(c, a, p)],
                ctx  |-> [w.ctx EXCEPT ![c] = Joined(w.ctx[c], d)],
                lost |-> w.lost]
  BY ConnectIs
<1> DEFINE y == Joined(x, d)
<1> HIDE DEF v
<1>2. /\ v.dev = Connected(w.dev, d, c, a, p)
      /\ v.ctx = [w.ctx EXCEPT ![c] = y] /\ v.lost = w.lost
  BY <1>1 DEF Connected
<1>3. ContextOK(x) /\ Hears(x) /\ PointsOK(w.dev, w.lost, c, x) /\ d \notin w.lost
  BY <1>1 DEF World, Held
<1> HIDE DEF x
<1> DEFINE h == [e \in Devs |-> Direct(w, e)]
           g == [e \in Devs |-> Direct(w, e) + Times(e = d)]
<1>4. Books(w.dev, h) /\ \A e \in Devs : g[e] = h[e] + Times(e = d)
  BY DEF Held
<1> HIDE DEF h, g
<1>5. /\ Books(v.dev, g) /\ v.dev[d] = New(c, a, p) /\ v.dev[d] # Free
      /\ \A e \in Devs : w.dev[e] # Free => Kept(w.dev, v.dev, e)
      /\ \A e \in Devs : v.dev[e] # Free => e = d \/ w.dev[e] # Free
  <2> DEFINE ds0 == w.dev
             es0 == v.dev
  <2>1. /\ Books(ds0, h) /\ ds0[d] = Free /\ Hub(ds0, a, p) /\ es0 = Connected(ds0, d, c, a, p)
        /\ \A e \in Devs : g[e] = h[e] + Times(e = d)
    BY <1>1, <1>2, <1>4
  <2> HIDE DEF ds0, es0
  <2>2. /\ Books(es0, g) /\ es0[d] = New(c, a, p) /\ es0[d] # Free
        /\ \A e \in Devs : ds0[e] # Free => Kept(ds0, es0, e)
        /\ \A e \in Devs : es0[e] # Free => e = d \/ ds0[e] # Free
    BY <2>1, ConnectBooks
  <2> QED
    BY <2>2 DEF ds0, es0
<1>6. v.dev[d].ctx = c
  BY <1>5 DEF New
<1>7. /\ PointsOK(v.dev, w.lost, c, y)
      /\ \A e \in Devs : Local(y, e) = Local(x, e) + Times(e = d)
  <2> DEFINE ds0 == w.dev
             es0 == v.dev
             ls0 == w.lost
  <2>1. /\ ContextOK(x) /\ Hears(x) /\ PointsOK(ds0, ls0, c, x) /\ ds0[d] = Free /\ d \notin ls0
        /\ es0[d] # Free /\ es0[d].ctx = c
        /\ \A e \in Devs : ds0[e] # Free => Kept(ds0, es0, e)
    BY <1>1, <1>3, <1>5, <1>6
  <2>2. y = Joined(x, d)
    BY DEF x
  <2> HIDE DEF ds0, es0, ls0, y
  <2>3. /\ PointsOK(es0, ls0, c, Joined(x, d))
        /\ \A e \in Devs : Local(Joined(x, d), e) = Local(x, e) + Times(e = d)
    BY <2>1, JoinedPoints
  <2> QED
    BY <2>2, <2>3 DEF es0, ls0
<1> HIDE DEF y
<1>8. \A e \in Devs : v.dev[e] # Free =>
        v.dev[e].ctx = IF w.dev[e] = Free THEN c ELSE w.dev[e].ctx
  BY <1>5, <1>6 DEF Kept
<1>9. ASSUME NEW e \in Devs, v.dev[e] # Free, v.dev[e].ctx = c
      PROVE  g[e] = Local(y, e) + Times(e \in w.lost)
  <2>1. /\ Local(x, e) \in Nat /\ Times(e = d) \in Nat /\ Times(e \in w.lost) \in Nat
        /\ Local(y, e) = Local(x, e) + Times(e = d)
    BY <1>7, LocalNat DEF Times
  <2>2. CASE e = d
    <3>1. Direct(w, e) = 0 /\ Times(e \in w.lost) = 0 /\ ~PointsTo(x, e)
      BY <1>1, <1>3, <2>2 DEF Direct, Times, PointsOK
    <3>2. Local(x, e) = 0
      <4>1. ~InList(x, e) /\ e \notin x.array /\ ~HasOpen(x, e) /\ ~HasLeft(x, e)
        BY <3>1, MessageIs DEF PointsTo, HasOpen, HasLeft
      <4> QED
        BY <4>1 DEF Local, Times
    <3> QED
      BY <2>1, <3>1, <3>2 DEF g
  <2>3. CASE e # d
    <3>1. w.dev[e] # Free /\ w.dev[e].ctx = c
      BY <1>5, <1>9, <2>3 DEF Kept
    <3>2. Direct(w, e) = Local(x, e) + Times(e \in w.lost)
      BY <3>1 DEF Direct, x
    <3>3. Times(e = d) = 0
      BY <2>3 DEF Times
    <3> QED
      BY <2>1, <3>2, <3>3 DEF g
  <2> QED
    BY <2>2, <2>3
<1>10. \A e \in Devs : w.dev[e] # Free /\ w.dev[e].ctx # c => g[e] = Direct(w, e)
  <2> TAKE e \in Devs
  <2>1. Direct(w, e) \in Nat
    BY DirectNat
  <2> QED
    BY <1>1, <2>1 DEF g, Times
<1>11. \A e \in w.lost : e \in Devs /\ v.dev[e] # Free
  BY <1>5 DEF Held, Kept
<1>12. Shaped(w)
  BY WorldShaped
<1>13. \A e \in Devs : w.dev[e] # Free /\ g[e] # 0 => v.dev[e] # Free
  BY <1>5 DEF Kept
<1>14. Held(v)
  <2>1. \A e \in Devs : v.dev[e] # Free /\ v.dev[e].ctx = c =>
          g[e] = Local(y, e) + Times(e \in v.lost)
    BY <1>2, <1>9
  <2>2. /\ \A e \in v.lost : e \in Devs /\ v.dev[e] # Free
        /\ PointsOK(v.dev, v.lost, c, y)
    BY <1>2, <1>7, <1>11
  <2>3. \A e \in Devs : w.dev[e] # Free /\ w.dev[e].ctx # c =>
          g[e] = Direct(w, e) /\ (e \in v.lost <=> e \in w.lost)
    BY <1>2, <1>10
  <2>4. v.ctx = [w.ctx EXCEPT ![c] = y]
    BY <1>2
  <2>5. Books(v.dev, g)
    BY <1>5
  <2>6. Steps(w, v, c, y, g)
    BY <1>8, <1>13, <2>1, <2>2, <2>3, <2>4, <2>5 DEF Steps
  <2> QED
    BY <1>12, <2>6, HeldAfter
<1> QED
  BY <1>1, <1>2, <1>5, <1>14 DEF v, x, y

\* usbi_disconnect_device keeps them.
LEMMA HeldDisconnect ==
  ASSUME NEW w, World(w), Held(w), NEW c \in Ctx, Hears(w.ctx[c]), NEW d \in Devs,
         InList(w.ctx[c], d)
  PROVE  Held(Disconnect(w, c, d))
<1> DEFINE v == Disconnect(w, c, d)
           x == w.ctx[c]
<1>1. PICK n \in DOMAIN x.list :
        /\ x.list[n] = d
        /\ v = [dev  |-> [w.dev EXCEPT ![d].attached = FALSE],
                ctx  |-> [w.ctx EXCEPT ![c] = Left(w.ctx[c], n)],
                lost |-> IF w.ctx[c].ready THEN w.lost ELSE w.lost \union {d}]
  BY DisconnectIs
<1> DEFINE y == Left(x, n)
<1> HIDE DEF v
<1>2. /\ v.dev = [w.dev EXCEPT ![d].attached = FALSE]
      /\ v.ctx = [w.ctx EXCEPT ![c] = y]
      /\ v.lost = IF x.ready THEN w.lost ELSE w.lost \union {x.list[n]}
  BY <1>1
<1>3. ContextOK(x) /\ Hears(x) /\ PointsOK(w.dev, w.lost, c, x) /\ InList(x, d)
  BY DEF World, Held
<1> HIDE DEF x
<1> DEFINE h == [e \in Devs |-> Direct(w, e)]
<1>4. Books(w.dev, h)
  BY DEF Held
<1>5. w.dev[d] # Free /\ w.dev[d].ctx = c
  BY <1>3 DEF PointsOK, PointsTo
<1> HIDE DEF h
<1>6. /\ Books(v.dev, h)
      /\ \A e \in Devs : w.dev[e] # Free => Kept(w.dev, v.dev, e)
      /\ \A e \in Devs : v.dev[e] # Free => w.dev[e] # Free
  BY <1>2, <1>4, <1>5, DetachBooks
<1>7. /\ PointsOK(v.dev, v.lost, c, y)
      /\ \A e \in Devs : Local(y, e) + Times(e \in v.lost) = Local(x, e) + Times(e \in w.lost)
  <2> DEFINE ds0 == w.dev
             es0 == v.dev
             ls0 == w.lost
             ks0 == v.lost
  <2>1. /\ ContextOK(x) /\ Hears(x) /\ PointsOK(ds0, ls0, c, x) /\ n \in DOMAIN x.list
        /\ ks0 = Losing(ls0, x, n)
        /\ \A e \in Devs : ds0[e] # Free => Kept(ds0, es0, e)
    BY <1>1, <1>2, <1>3, <1>6 DEF x, Losing
  <2>2. y = Left(x, n)
    BY DEF x
  <2> HIDE DEF ds0, es0, ls0, ks0, y
  <2>3. /\ PointsOK(es0, ks0, c, Left(x, n))
        /\ \A e \in Devs : Local(Left(x, n), e) + Times(e \in ks0) = Local(x, e) + Times(e \in ls0)
    BY <2>1, LeftPoints
  <2> QED
    BY <2>2, <2>3 DEF es0, ls0, ks0
<1> HIDE DEF y
<1>8. \A e \in Devs : v.dev[e] # Free =>
        v.dev[e].ctx = IF w.dev[e] = Free THEN c ELSE w.dev[e].ctx
  BY <1>6 DEF Kept
<1>9. ASSUME NEW e \in Devs, v.dev[e] # Free, v.dev[e].ctx = c
      PROVE  h[e] = Local(y, e) + Times(e \in v.lost)
  <2>1. w.dev[e] # Free /\ w.dev[e].ctx = c
    BY <1>6, <1>9 DEF Kept
  <2>2. Direct(w, e) = Local(x, e) + Times(e \in w.lost)
    BY <2>1 DEF Direct, x
  <2> QED
    BY <1>7, <2>2 DEF h
<1>10. \A e \in Devs : w.dev[e] # Free /\ w.dev[e].ctx # c =>
         h[e] = Direct(w, e) /\ (e \in v.lost <=> e \in w.lost)
  BY <1>1, <1>2, <1>5 DEF h
<1>11. \A e \in v.lost : e \in Devs /\ v.dev[e] # Free
  <2>1. \A e \in v.lost : e \in w.lost \/ e = d
    BY <1>1, <1>2
  <2> QED
    BY <1>5, <1>6, <2>1 DEF Held, Kept
<1>12. Shaped(w)
  BY WorldShaped
<1>13. \A e \in Devs : w.dev[e] # Free /\ h[e] # 0 => v.dev[e] # Free
  BY <1>6 DEF Kept
<1>14. Held(v)
  <2>1. v.ctx = [w.ctx EXCEPT ![c] = y]
    BY <1>2
  <2>2. Steps(w, v, c, y, h)
    BY <1>6, <1>7, <1>8, <1>9, <1>10, <1>11, <1>13, <2>1 DEF Steps
  <2> QED
    BY <1>12, <2>2, HeldAfter
<1> QED
  BY <1>14 DEF v

\* linux_enumerate_device keeps the books.
LEMMA HeldOne ==
  ASSUME NEW w, World(w), Held(w), NEW c \in Ctx, Hears(w.ctx[c]), NEW a \in Addr,
         \E d \in Devs : w.dev[d] = Free
  PROVE  Held(EnumerateOne(w, c, a))
<1> DEFINE p == IF Parent[a] = None THEN None ELSE BySession(w, c, Parent[a])
<1>1. CASE BySession(w, c, a) # None \/ ~Readable(a)
  BY <1>1 DEF EnumerateOne
<1>2. CASE ~(BySession(w, c, a) # None \/ ~Readable(a))
  <2>1. EnumerateOne(w, c, a) = Connect(w, c, a, p)
    BY <1>2 DEF EnumerateOne
  <2>2. Hub(w.dev, a, p)
    <3>1. ASSUME p # None
          PROVE  p \in Devs /\ w.dev[p] # Free /\ w.dev[p].parent = None
      <4>1. Parent[a] \in Fixed /\ p = BySession(w, c, Parent[a])
        BY SMTT(30), <3>1
      <4> HIDE DEF p
      <4>2. p \in Devs /\ InList(w.ctx[c], p) /\ w.dev[p].addr = Parent[a]
        BY <3>1, <4>1, BySessionIs
      <4>4. PointsTo(w.ctx[c], p)
        BY <4>2 DEF PointsTo
      <4>5. w.dev[p] # Free
        BY SMTT(30), <4>2, <4>4 DEF Held, PointsOK
      <4>6. w.dev[p].parent = None
        BY <4>1, <4>2, <4>5 DEF Held, Books
      <4> QED
        BY <4>2, <4>5, <4>6
    <3>2. a \in Fixed => p = None
      OBVIOUS
    <3> HIDE DEF p
    <3> QED
      BY <3>1, <3>2 DEF Hub
  <2> HIDE DEF p
  <2> QED
    BY <2>1, <2>2, HeldConnect
<1> QED
  BY <1>1, <1>2

LEMMA HeldEnumerate ==
  ASSUME NEW w, World(w), Held(w), NEW c \in Ctx, Hears(w.ctx[c]), NEW a \in Addr,
         plugged \subseteq Addr, Cardinality({d \in Devs : w.dev[d] = Free}) > 1
  PROVE  Held(Enumerate(w, c, a))
<1>1. \E d \in Devs : w.dev[d] = Free
  <2>1. IsFiniteSet({d \in Devs : w.dev[d] = Free})
    BY FS_Subset
  <2> QED
    BY <2>1, FS_EmptySet
<1>2. CASE BySession(w, c, a) = None /\ Readable(a) /\ Parent[a] # None
  <2> DEFINE v == EnumerateOne(w, c, Parent[a])
  <2>1. Enumerate(w, c, a) = EnumerateOne(v, c, a)
    BY <1>2 DEF Enumerate
  <2>2. World(v) /\ Hears(v.ctx[c])
    BY <1>1, OneAlike
  <2>3. Parent[a] \in Fixed /\ Parent[a] \in Addr
    BY <1>2
  <2>4. Held(v)
    BY <1>1, <2>3, HeldOne
  <2>5. \E d \in Devs : v.dev[d] = Free
    BY <2>3, HubLeavesRoom
  <2> HIDE DEF v
  <2>6. Held(EnumerateOne(v, c, a))
    BY <2>2, <2>4, <2>5, HeldOne
  <2> QED
    BY <2>1, <2>6
<1>3. CASE ~(BySession(w, c, a) = None /\ Readable(a) /\ Parent[a] # None)
  <2>1. Enumerate(w, c, a) = EnumerateOne(w, c, a)
    BY <1>3 DEF Enumerate
  <2> QED
    BY <1>1, <2>1, HeldOne
<1> QED
  BY <1>2, <1>3

-----------------------------------------------------------------------------
(* The steps.                                                                *)

After == [dev |-> dev', ctx |-> ctx', lost |-> lost']

\* The state, and the one after the step.
LEMMA NowShaped == ASSUME SInv PROVE Shaped(Now) /\ \A c \in Ctx : ctx[c] \in Contexts
BY NowWorld, WorldShaped DEF SInv, ContextOK

\* A context goes on with the same list, messages, array and handle.
LEMMA SameStep ==
  ASSUME SInv, Held(Now), NEW c \in Ctx, NEW y \in Contexts, ctx' = [ctx EXCEPT ![c] = y],
         dev' = dev, lost' = lost, y.list = ctx[c].list, y.msgs = ctx[c].msgs,
         y.array = ctx[c].array, y.handle = ctx[c].handle,
         ctx[c].at # "device2", y.at # "device2"
  PROVE  Held(After)
<1> DEFINE x == ctx[c]
<1>1. PointsOK(dev, lost, c, x)
  BY DEF Held, Now
<1>2. PointsOK(dev, lost, c, y)
  <2>1. \A d \in y.array : PointsTo(x, d)
    BY DEF PointsTo
  <2>2. PointsTo(x, y.handle)
    BY DEF PointsTo
  <2> QED
    BY <1>1, <2>1, <2>2, SamePoints
<1>3. \A d : Local(y, d) = Local(x, d)
  BY DEF Local, InList, HasOpen, HasLeft
<1>4. /\ Now.dev = dev /\ Now.ctx = ctx /\ Now.lost = lost
      /\ After.dev = Now.dev /\ After.ctx = [Now.ctx EXCEPT ![c] = y] /\ After.lost = Now.lost
  BY DEF Now, After
<1>5. Shaped(Now)
  BY NowShaped
<1> DEFINE w == Now
           v == After
<1>6. /\ Shaped(w) /\ Held(w) /\ \A d \in Devs : Local(y, d) = Local(w.ctx[c], d)
      /\ PointsOK(w.dev, w.lost, c, y)
      /\ v.dev = w.dev /\ v.ctx = [w.ctx EXCEPT ![c] = y] /\ v.lost = w.lost
  BY <1>2, <1>3, <1>4, <1>5
<1> HIDE DEF w, v
<1>7. Held(v)
  BY <1>6, HeldSame
<1> QED
  BY <1>7 DEF v

LEMMA DropStep ==
  ASSUME SInv, Held(Now), NEW c \in Ctx, NEW y \in Contexts, NEW S \in SUBSET Devs,
         ctx' = [ctx EXCEPT ![c] = y], dev' = UnrefAll(dev, S), lost' = lost,
         \A d \in S : PointsTo(ctx[c], d),
         \A d \in Devs : Local(ctx[c], d) = Local(y, d) + Times(d \in S),
         PointsOK(dev, lost, c, y)
  PROVE  Held(After)
<1>1. /\ Now.dev = dev /\ Now.ctx = ctx /\ Now.lost = lost
      /\ After.dev = UnrefAll(Now.dev, S) /\ After.ctx = [Now.ctx EXCEPT ![c] = y]
      /\ After.lost = Now.lost
  BY DEF Now, After
<1>2. Shaped(Now)
  BY NowShaped
<1>3. \A d \in S : Now.dev[d] # Free /\ Now.dev[d].ctx = c
  BY <1>1 DEF Held, PointsOK
<1> DEFINE w == Now
           v == After
<1>4. /\ Shaped(w) /\ Held(w) /\ \A d \in S : w.dev[d] # Free /\ w.dev[d].ctx = c
      /\ \A d \in Devs : Local(w.ctx[c], d) = Local(y, d) + Times(d \in S)
      /\ PointsOK(w.dev, w.lost, c, y)
      /\ v.dev = UnrefAll(w.dev, S) /\ v.ctx = [w.ctx EXCEPT ![c] = y] /\ v.lost = w.lost
  BY <1>1, <1>2, <1>3
<1> HIDE DEF w, v
<1>5. Held(v)
  BY <1>4, HeldDrop
<1> QED
  BY <1>5 DEF v

LEMMA TakeStep ==
  ASSUME SInv, Held(Now), NEW c \in Ctx, NEW y \in Contexts, NEW S \in SUBSET Devs,
         ctx' = [ctx EXCEPT ![c] = y], dev' = Taken(dev, S), lost' = lost,
         \A d \in S : PointsTo(ctx[c], d),
         \A d \in Devs : Local(y, d) = Local(ctx[c], d) + Times(d \in S),
         PointsOK(dev, lost, c, y)
  PROVE  Held(After)
<1>1. /\ Now.dev = dev /\ Now.ctx = ctx /\ Now.lost = lost
      /\ After.dev = Taken(Now.dev, S) /\ After.ctx = [Now.ctx EXCEPT ![c] = y]
      /\ After.lost = Now.lost
  BY DEF Now, After
<1>2. Shaped(Now)
  BY NowShaped
<1>3. \A d \in S : Now.dev[d] # Free /\ Now.dev[d].ctx = c
  BY <1>1 DEF Held, PointsOK
<1> DEFINE w == Now
           v == After
<1>4. /\ Shaped(w) /\ Held(w) /\ \A d \in S : w.dev[d] # Free /\ w.dev[d].ctx = c
      /\ \A d \in Devs : Local(y, d) = Local(w.ctx[c], d) + Times(d \in S)
      /\ PointsOK(w.dev, w.lost, c, y)
      /\ v.dev = Taken(w.dev, S) /\ v.ctx = [w.ctx EXCEPT ![c] = y] /\ v.lost = w.lost
  BY <1>1, <1>2, <1>3
<1> HIDE DEF w, v
<1>5. Held(v)
  BY <1>4, HeldTake
<1> QED
  BY <1>5 DEF v

LEMMA RefIsTaken == ASSUME NEW ds, IsMemory(ds), NEW d \in Devs PROVE Ref(ds, d) = Taken(ds, {d})
BY DEF IsMemory, Ref, Taken

\* usbi_fd_notification and what clears the signal change nothing else.
LEMMA FdFields ==
  ASSUME NEW x \in Contexts
  PROVE  /\ FdNotification(x).at = x.at /\ FdNotification(x).list = x.list
         /\ FdNotification(x).msgs = x.msgs /\ FdNotification(x).array = x.array
         /\ FdNotification(x).handle = x.handle
BY DEF FdNotification, SignalIfFirst, Signal, Contexts

LEMMA ClearFields ==
  ASSUME NEW x \in Contexts
  PROVE  /\ ClearIfLast(x).at = x.at /\ ClearIfLast(x).list = x.list
         /\ ClearIfLast(x).msgs = x.msgs /\ ClearIfLast(x).array = x.array
         /\ ClearIfLast(x).handle = x.handle
BY DEF ClearIfLast, Contexts

\* What a context has that refers to devices.
SameFields(x, y) ==
  y.list = x.list /\ y.msgs = x.msgs /\ y.array = x.array /\ y.handle = x.handle

\* The steps of a thread that neither take nor drop a reference.
Quietly(c) ==
  \/ NewActive(c) \/ OpInit(c) \/ ScanStart(c) \/ ScanDone(c) \/ OpInitDone(c) \/ MessageList(c)
  \/ EventPipe(c) \/ PollStart(c) \/ PollOn(c) \/ PollDone(c) \/ OpenGone(c) \/ NoDevice2(c)
  \/ TakePollfds(c) \/ ExitActive(c) \/ OpExit(c) \/ Join(c)

LEMMA QuietFields ==
  ASSUME SInv, NEW c \in Ctx, Quietly(c)
  PROVE  /\ dev' = dev /\ lost' = lost
         /\ ctx[c].at # "device2"
         /\ \E y : /\ ctx' = [ctx EXCEPT ![c] = y] /\ SameFields(ctx[c], y) /\ y.at # "device2"
<1> DEFINE x == ctx[c]
<1>1. x \in Contexts /\ ctx = [e \in Ctx |-> ctx[e]] /\ ctx = [ctx EXCEPT ![c] = x]
  BY DEF SInv, ContextOK
<1>2. ASSUME NEW q \in Places, q # "device2", x.at # "device2",
             ctx' = [ctx EXCEPT ![c] = [x EXCEPT !.at = q]]
      PROVE  \E y : /\ ctx' = [ctx EXCEPT ![c] = y] /\ SameFields(x, y) /\ y.at # "device2"
  <2> DEFINE y == [x EXCEPT !.at = q]
  <2>1. SameFields(x, y) /\ y.at # "device2"
    BY <1>1, <1>2 DEF SameFields, Contexts
  <2>2. ctx' = [ctx EXCEPT ![c] = y]
    BY <1>2
  <2> HIDE DEF y
  <2> QED
    BY <2>1, <2>2
<1>3. \A q : Go(c, q) => ctx' = [ctx EXCEPT ![c] = [x EXCEPT !.at = q]]
  BY DEF Go
<1>4. CASE NewActive(c)
  <2> DEFINE y == [x EXCEPT !.at = "op_init", !.active = TRUE]
  <2>1. ctx' = [ctx EXCEPT ![c] = y] /\ x.at # "device2"
    BY <1>1, <1>4 DEF NewActive, At
  <2>2. SameFields(x, y) /\ y.at # "device2"
    BY <1>1 DEF SameFields, Contexts
  <2> HIDE DEF y
  <2> QED
    BY <1>4, <2>1, <2>2 DEF NewActive
<1>5. CASE ScanStart(c)
  BY <1>2, <1>3, <1>5 DEF ScanStart, At, Places, Up, Starting
<1>6. CASE ScanDone(c)
  BY <1>2, <1>3, <1>6 DEF ScanDone, At, Places, Up, Starting
<1>7. CASE OpInitDone(c)
  BY <1>2, <1>3, <1>7 DEF OpInitDone, At, Places, Up, Starting
<1>8. CASE MessageList(c)
  <2> DEFINE y == [x EXCEPT !.ready = TRUE]
  <2>1. ctx' = [ctx EXCEPT ![c] = y] /\ x.at = "io_init"
    BY <1>1, <1>8 DEF MessageList, At
  <2>2. SameFields(x, y) /\ y.at # "device2"
    BY <1>1, <2>1 DEF SameFields, Contexts
  <2> HIDE DEF y
  <2> QED
    BY <1>8, <2>1, <2>2 DEF MessageList
<1>9. CASE PollStart(c)
  BY <1>2, <1>3, <1>9 DEF PollStart, At, Places, Up, Starting
<1>10. CASE PollDone(c)
  BY <1>2, <1>3, <1>10 DEF PollDone, At, Places, Up, Starting
<1>11. CASE OpenGone(c)
  BY <1>2, <1>3, <1>11 DEF OpenGone, At, Places, Up, Starting
<1>12. CASE NoDevice2(c)
  BY <1>2, <1>3, <1>12 DEF NoDevice2, At, Places, Up, Starting
<1>13. CASE ExitActive(c)
  <2> DEFINE y == [x EXCEPT !.at = "drain", !.active = FALSE]
  <2>1. ctx' = [ctx EXCEPT ![c] = y] /\ x.at # "device2"
    BY <1>1, <1>13 DEF ExitActive, At
  <2>2. SameFields(x, y) /\ y.at # "device2"
    BY <1>1 DEF SameFields, Contexts
  <2> HIDE DEF y
  <2> QED
    BY <1>13, <2>1, <2>2 DEF ExitActive
<1>14. CASE Join(c)
  BY <1>2, <1>3, <1>14 DEF Join, At, Places, Up, Starting
<1>15. CASE OpInit(c)
  BY <1>2, <1>3, <1>15 DEF OpInit, At, Places, Up, Starting
<1>16. CASE PollOn(c)
  <2>1. CASE Go(c, "listing")
    BY <1>2, <1>3, <1>16, <2>1 DEF PollOn, At, Places, Up, Starting
  <2>2. CASE ctx' = ctx
    BY <1>1, <1>16, <2>2 DEF PollOn, At, SameFields
  <2> QED
    BY <1>16, <2>1, <2>2 DEF PollOn
<1>17. CASE OpExit(c)
  BY <1>2, <1>3, <1>17 DEF OpExit, At, Places, Up, Starting
<1>18. CASE EventPipe(c)
  <2> DEFINE z == [x EXCEPT !.at = "ready", !.piped = TRUE]
  <2>1. ctx' = [ctx EXCEPT ![c] = FdNotification(z)] /\ x.at = "io_init"
    BY <1>1, <1>18 DEF EventPipe, At
  <2>2. z \in Contexts /\ SameFields(x, z) /\ z.at = "ready"
    BY <1>1 DEF SameFields, Contexts, Places, Up
  <2> HIDE DEF z
  <2>3. SameFields(x, FdNotification(z)) /\ FdNotification(z).at = "ready"
    BY <2>2, FdFields DEF SameFields
  <2> QED
    BY <1>18, <2>1, <2>3 DEF EventPipe
<1>19. CASE TakePollfds(c)
  <2> DEFINE z == [x EXCEPT !.modified = FALSE]
  <2>1. ctx' = [ctx EXCEPT ![c] = ClearIfLast(z)] /\ x.at \in {"open", "drain"}
    BY <1>1, <1>19 DEF TakePollfds, Handling
  <2>2. z \in Contexts /\ SameFields(x, z) /\ z.at = x.at
    BY <1>1 DEF SameFields, Contexts
  <2> HIDE DEF z
  <2>3. SameFields(x, ClearIfLast(z)) /\ ClearIfLast(z).at = x.at
    BY <2>2, ClearFields DEF SameFields
  <2> QED
    BY <1>19, <2>1, <2>3 DEF TakePollfds
<1> QED
  BY <1>4, <1>5, <1>6, <1>7, <1>8, <1>9, <1>10, <1>11, <1>12, <1>13, <1>14, <1>15, <1>16, <1>17,
       <1>18, <1>19 DEF Quietly

\* The set of what a list holds.
LEMMA ListSet ==
  ASSUME NEW x \in Contexts
  PROVE  /\ ToSet(x.list) \in SUBSET Devs /\ x.array \in SUBSET Devs
         /\ \A d : d \in ToSet(x.list) <=> InList(x, d)
BY DEF ToSet, Contexts, InList

\* Giving a context up drops its list, and it has nothing else.
LEMMA GivenUp ==
  ASSUME NEW x \in Contexts, NEW y, x.msgs = <<>>, x.array = {}, x.handle = None, 
         NEW ds, NEW ls, NEW c,
         y.list = <<>>, y.msgs = <<>>, y.array = {}, y.handle = None, y.at # "device2"
  PROVE  /\ PointsOK(ds, ls, c, y)
         /\ \A d \in ToSet(x.list) : PointsTo(x, d)
         /\ \A d \in Devs : Local(x, d) = Local(y, d) + Times(d \in ToSet(x.list))
<1>1. PointsOK(ds, ls, c, y) /\ \A d \in Devs : Local(y, d) = 0
  BY NoPoints
<1>2. \A d \in ToSet(x.list) : PointsTo(x, d)
  BY ListSet DEF PointsTo
<1>3. ASSUME NEW d \in Devs PROVE Local(x, d) = Local(y, d) + Times(d \in ToSet(x.list))
  <2>1. ~HasLeft(x, d) /\ ~HasOpen(x, d) /\ d \notin x.array
    BY DEF HasLeft, HasOpen
  <2>2. InList(x, d) <=> d \in ToSet(x.list)
    BY ListSet
  <2> QED
    BY <1>1, <2>1, <2>2 DEF Local, Times
<1> QED
  BY <1>1, <1>2, <1>3

\* How the references of a context change with its array and its handle.
LEMMA LocalIs ==
  ASSUME NEW x, NEW y, NEW d, y.list = x.list, y.msgs = x.msgs
  PROVE  /\ Local(x, d) + Times(d \in y.array) + Times(HasOpen(y, d)) =
              Local(y, d) + Times(d \in x.array) + Times(HasOpen(x, d))
         /\ Local(x, d) \in Nat /\ Local(y, d) \in Nat
         /\ \A b : Times(b) \in Nat
<1>1. /\ InList(y, d) <=> InList(x, d)
      /\ HasLeft(y, d) <=> HasLeft(x, d)
  BY DEF InList, HasLeft
<1>2. /\ Times(InList(y, d)) = Times(InList(x, d)) /\ Times(HasLeft(y, d)) = Times(HasLeft(x, d))
      /\ \A b : Times(b) \in Nat
  BY <1>1 DEF Times
<1>3. Local(x, d) \in Nat /\ Local(y, d) \in Nat
  BY LocalNat
<1>4. /\ Times(InList(x, d)) \in Nat /\ Times(HasLeft(x, d)) \in Nat
      /\ Times(d \in x.array) \in Nat /\ Times(d \in y.array) \in Nat
      /\ Times(HasOpen(x, d)) \in Nat /\ Times(HasOpen(y, d)) \in Nat
  BY DEF Times
<1> QED
  BY <1>2, <1>3, <1>4 DEF Local

\* The message handled has no reference, or the only one of its kind on its device.
LEMMA TakenMessage ==
  ASSUME NEW ds, NEW ls, NEW c, NEW x \in Contexts, PointsOK(ds, ls, c, x), x.msgs # <<>>,
         NEW y, y.list = x.list, y.msgs = Tail(x.msgs), y.array = x.array, y.handle = x.handle,
         x.at # "device2", y.at # "device2",
         NEW S, S = {d \in Devs : Head(x.msgs) = Message("left", d)}
  PROVE  /\ PointsOK(ds, ls, c, y)
         /\ \A d \in S : PointsTo(x, d)
         /\ \A d \in Devs : Local(x, d) = Local(y, d) + Times(d \in S)
<1> DEFINE m == x.msgs
           k == y.msgs
<1>1. /\ m \in Seq(Messages) /\ k \in Seq(Messages) /\ 1 \in DOMAIN m /\ m[1] = Head(m)
      /\ DOMAIN k \subseteq Nat /\ DOMAIN m \subseteq Nat
      /\ \A i \in DOMAIN k : i + 1 \in DOMAIN m /\ k[i] = m[i + 1] /\ i + 1 # 1
      /\ \A i \in DOMAIN m : i = 1 \/ (i - 1 \in DOMAIN k /\ m[i] = k[i - 1])
  <2>1. m \in Seq(Messages) /\ DOMAIN m \subseteq Nat
    BY DEF Contexts
  <2>2. k = Tail(m) /\ m # <<>>
    OBVIOUS
  <2> HIDE DEF m, k
  <2> QED
    BY SMTT(30), <2>1, <2>2, TailIs
<1> HIDE DEF m, k
<1>2. ASSUME NEW d PROVE HasLeft(x, d) <=> HasLeft(y, d) \/ m[1] = Message("left", d)
  <2>1. HasLeft(x, d) <=> \E i \in DOMAIN m : m[i] = Message("left", d)
    BY DEF HasLeft, m
  <2>2. HasLeft(y, d) <=> \E i \in DOMAIN k : k[i] = Message("left", d)
    BY DEF HasLeft, k
  <2> QED
    BY <1>1, <2>1, <2>2
<1>3. ASSUME NEW d, m[1] = Message("left", d) PROVE ~HasLeft(y, d)
  <2>1. ASSUME NEW i \in DOMAIN k, k[i] = Message("left", d) PROVE FALSE
    <3>1. i + 1 \in DOMAIN m /\ m[i + 1] = m[1] /\ m[1].event = "left" /\ i + 1 # 1
      BY ZenonT(40), <1>1, <1>3, <2>1, MessageIs
    <3> QED
      BY <1>1, <3>1 DEF PointsOK, m
  <2> QED
    BY <2>1 DEF HasLeft, k
<1>4. \A d : (InList(y, d) <=> InList(x, d)) /\ (HasOpen(y, d) <=> HasOpen(x, d))
  BY DEF InList, HasOpen
<1>5. ASSUME NEW d \in Devs PROVE Local(x, d) = Local(y, d) + Times(d \in S)
  <2>1. d \in S <=> m[1] = Message("left", d)
    BY <1>1 DEF m
  <2>2. Times(HasLeft(x, d)) = Times(HasLeft(y, d)) + Times(d \in S)
    BY <1>2, <1>3, <2>1 DEF Times
  <2>3. /\ Times(InList(x, d)) = Times(InList(y, d)) /\ Times(HasOpen(x, d)) = Times(HasOpen(y, d))
        /\ Times(InList(y, d)) \in Nat /\ Times(HasOpen(y, d)) \in Nat
        /\ Times(d \in x.array) \in Nat
        /\ Times(HasLeft(y, d)) \in Nat /\ Times(d \in S) \in Nat
    BY <1>4 DEF Times
  <2> QED
    BY <2>2, <2>3 DEF Local
<1>6. \A d \in Devs : PointsTo(y, d) => PointsTo(x, d)
  <2> TAKE d \in Devs
  <2>1. ASSUME NEW i \in DOMAIN k, k[i].dev = d PROVE PointsTo(x, d)
    BY <1>1, <2>1 DEF PointsTo, m
  <2> QED
    BY <1>4, <2>1 DEF PointsTo, k
<1>7. ASSUME NEW d \in S PROVE PointsTo(x, d)
  <2>1. m[1] = Message("left", d) /\ m[1].dev = d
    BY <1>1, <1>7, MessageIs DEF m
  <2> QED
    BY <1>1, <2>1 DEF PointsTo, m
<1>8. ASSUME NEW i \in DOMAIN k, NEW j \in DOMAIN k, k[i] = k[j], k[i].event = "left" PROVE i = j
  <2>1. /\ i + 1 \in DOMAIN m /\ j + 1 \in DOMAIN m /\ m[i + 1] = m[j + 1]
        /\ m[i + 1].event = "left" /\ i \in Nat /\ j \in Nat
    BY <1>1, <1>8
  <2>2. i + 1 = j + 1
    BY <2>1 DEF PointsOK, m
  <2> QED
    BY <2>1, <2>2
<1>9. ASSUME NEW i \in DOMAIN k, k[i].event = "arrived"
      PROVE  \/ InList(y, k[i].dev)
             \/ \E j \in DOMAIN k : i < j /\ k[j] = Message("left", k[i].dev)
  <2>1. i + 1 \in DOMAIN m /\ m[i + 1] = k[i] /\ i \in Nat
    BY <1>1
  <2>2. \/ InList(x, k[i].dev)
        \/ \E j \in DOMAIN m : i + 1 < j /\ m[j] = Message("left", k[i].dev)
    BY <1>9, <2>1 DEF PointsOK, m
  <2>3. ASSUME NEW j \in DOMAIN m, i + 1 < j, m[j] = Message("left", k[i].dev)
        PROVE  \E n \in DOMAIN k : i < n /\ k[n] = Message("left", k[i].dev)
    <3>0. j \in Nat /\ j # 1
      BY <1>1, <2>1, <2>3
    <3>1. j - 1 \in DOMAIN k /\ k[j - 1] = m[j] /\ i < j - 1
      BY SMTT(30), <1>1, <2>1, <2>3, <3>0
    <3> QED
      BY <2>3, <3>1
  <2> QED
    BY <1>4, <2>2, <2>3
<1>10. PointsOK(ds, ls, c, y)
  <2>1. \A d \in Devs : PointsTo(y, d) => ds[d] # Free /\ ds[d].ctx = c
    BY <1>6 DEF PointsOK
  <2>2. \A i, j \in DOMAIN y.list : y.list[i] = y.list[j] => i = j
    BY DEF PointsOK
  <2>3. \A d \in Devs : /\ InList(y, d) => ~HasLeft(y, d) /\ d \notin ls
                        /\ HasLeft(y, d) => d \notin ls
    BY <1>2, <1>4 DEF PointsOK
  <2> QED
    BY <1>8, <1>9, <2>1, <2>2, <2>3 DEF PointsOK, k
<1> QED
  BY <1>5, <1>7, <1>10

\* The steps of a thread that take or drop references.
LEMMA SessionHeld ==
  ASSUME SInv, SInv', Held(Now), NEW c \in Ctx, Session(c)
  PROVE  Held(After)
<1> DEFINE x == ctx[c]
<1>1. /\ x \in Contexts /\ LifeOf(x) /\ SignalOf(x) /\ ctx = [e \in Ctx |-> ctx[e]]
      /\ PointsOK(dev, lost, c, x) /\ ctx'[c] \in Contexts /\ IsMemory(dev)
  BY DEF SInv, ContextOK, Held, Now
<1>2. ToSet(x.list) \in SUBSET Devs /\ x.array \in SUBSET Devs
      /\ \A d : d \in ToSet(x.list) <=> InList(x, d)
  BY <1>1, ListSet
<1>3. CASE Quietly(c)
  <2>1. PICK y : ctx' = [ctx EXCEPT ![c] = y] /\ SameFields(x, y) /\ y.at # "device2"
    BY <1>3, QuietFields
  <2>2. dev' = dev /\ lost' = lost /\ x.at # "device2"
    BY <1>3, QuietFields
  <2>3. y \in Contexts
    BY <1>1, <2>1
  <2> HIDE DEF x
  <2> QED
    BY <2>1, <2>2, <2>3, SameStep DEF SameFields, x
<1>4. CASE StartFails(c)
  <2> DEFINE y == [NewContext EXCEPT !.at = "over"]
             S == ToSet(x.list)
  <2>1. /\ ctx' = [ctx EXCEPT ![c] = y] /\ dev' = UnrefAll(dev, S) /\ lost' = lost
        /\ x.at = "op_init"
    BY <1>4 DEF StartFails, At
  <2>2. x.msgs = <<>> /\ x.array = {} /\ x.handle = None
    BY <1>1, <2>1 DEF LifeOf, Up
  <2>3. y.list = <<>> /\ y.msgs = <<>> /\ y.array = {} /\ y.handle = None /\ y.at # "device2"
    BY DEF NewContext
  <2>4. y \in Contexts
    BY NewContextOK DEF ContextOK
  <2> HIDE DEF x, y
  <2>5. /\ PointsOK(dev, lost, c, y) /\ \A d \in S : PointsTo(x, d)
        /\ \A d \in Devs : Local(x, d) = Local(y, d) + Times(d \in S)
    BY <1>1, <2>2, <2>3, GivenUp
  <2> HIDE DEF S
  <2>6. S \in SUBSET Devs
    BY <1>2 DEF S
  <2> QED
    BY <2>1, <2>4, <2>5, <2>6, DropStep DEF x
<1>5. CASE ExitContext(c)
  <2> DEFINE y == [NewContext EXCEPT !.at = "op_exit"]
             S == ToSet(x.list)
  <2>1. /\ ctx' = [ctx EXCEPT ![c] = y] /\ dev' = UnrefAll(dev, S) /\ lost' = lost
        /\ x.at = "drain" /\ ~x.modified /\ (x.bytes = 0 \/ x.msgs = <<>>)
    BY <1>5 DEF ExitContext, At
  <2>2. x.msgs = <<>> /\ x.array = {} /\ x.handle = None
    BY <1>1, <2>1 DEF LifeOf, SignalOf, Pending, Up
  <2>3. y.list = <<>> /\ y.msgs = <<>> /\ y.array = {} /\ y.handle = None /\ y.at # "device2"
    BY DEF NewContext
  <2>4. y \in Contexts
    BY NewContextOK DEF ContextOK
  <2> HIDE DEF x, y
  <2>5. /\ PointsOK(dev, lost, c, y) /\ \A d \in S : PointsTo(x, d)
        /\ \A d \in Devs : Local(x, d) = Local(y, d) + Times(d \in S)
    BY <1>1, <2>2, <2>3, GivenUp
  <2> HIDE DEF S
  <2>6. S \in SUBSET Devs
    BY <1>2 DEF S
  <2> QED
    BY <2>1, <2>4, <2>5, <2>6, DropStep DEF x
<1>6. CASE Scan(c)
  <2>1. PICK a \in todo : Becomes(Enumerate(Now, c, a))
    BY <1>6 DEF Scan
  <2>2. /\ World(Now) /\ Now.ctx = ctx /\ Now.dev = dev /\ a \in Addr /\ plugged \subseteq Addr
        /\ Hears(ctx[c])
    BY <1>1, <1>6, NowWorld DEF Now, SInv, Scan, At, Hears, LifeOf, Up, Starting
  <2>3. Cardinality({d \in Devs : Now.dev[d] = Free}) > 1
    BY <1>6, <2>2 DEF Scan, Room
  <2>4. Held(Enumerate(Now, c, a)) /\ World(Enumerate(Now, c, a))
    BY <2>2, <2>3, HeldEnumerate, EnumerateAlike
  <2>5. Enumerate(Now, c, a) = After
    BY <2>1, <2>4 DEF World, Becomes, After
  <2> QED
    BY <2>4, <2>5
<1>7. CASE GetDeviceList(c)
  <2> DEFINE S == ToSet(x.list)
             y == [x EXCEPT !.at = "listed", !.array = S]
  <2>1. ctx' = [ctx EXCEPT ![c] = y] /\ dev' = Taken(dev, S) /\ lost' = lost /\ x.at = "listing"
    BY <1>7 DEF GetDeviceList, At
  <2>2. /\ y.list = x.list /\ y.msgs = x.msgs /\ y.array = S /\ y.handle = x.handle
        /\ y.at = "listed" /\ x.array = {} /\ x.handle = None
    BY <1>1, <2>1 DEF Contexts, LifeOf
  <2>3. y \in Contexts
    BY <1>1, <2>1
  <2> HIDE DEF x, y, S
  <2>4. S \in SUBSET Devs /\ \A d \in S : PointsTo(x, d)
    BY <1>2 DEF S, PointsTo
  <2>5. PointsOK(dev, lost, c, y)
    BY <1>1, <2>2, <2>4, SamePoints
  <2>6. \A d \in Devs : Local(y, d) = Local(x, d) + Times(d \in S)
    <3> TAKE d \in Devs
    <3>1. Times(d \in x.array) = 0 /\ Times(HasOpen(x, d)) = 0 /\ Times(HasOpen(y, d)) = 0
      BY <2>2 DEF HasOpen, Times
    <3> QED
      BY <2>2, <3>1, LocalIs
  <2> QED
    BY <2>1, <2>3, <2>4, <2>5, <2>6, TakeStep DEF x
<1>8. CASE FreeDeviceList(c)
  <2> DEFINE S == x.array
             y == [x EXCEPT !.at = "exit", !.array = {}]
  <2>1. ctx' = [ctx EXCEPT ![c] = y] /\ dev' = UnrefAll(dev, S) /\ lost' = lost /\ x.at = "listed"
    BY <1>8 DEF FreeDeviceList, At
  <2>2. /\ y.list = x.list /\ y.msgs = x.msgs /\ y.array = {} /\ y.handle = x.handle
        /\ y.at = "exit" /\ x.handle = None
    BY <1>1, <2>1 DEF Contexts, LifeOf
  <2>3. y \in Contexts
    BY <1>1, <2>1
  <2> HIDE DEF x, y
  <2>4. S \in SUBSET Devs /\ \A d \in S : PointsTo(x, d)
    BY <1>2 DEF PointsTo
  <2>5. PointsOK(dev, lost, c, y)
    BY <1>1, <2>2, SamePoints
  <2>6. \A d \in Devs : Local(x, d) = Local(y, d) + Times(d \in S)
    <3> TAKE d \in Devs
    <3>1. Times(d \in y.array) = 0 /\ Times(HasOpen(x, d)) = 0 /\ Times(HasOpen(y, d)) = 0
      BY <2>2 DEF HasOpen, Times
    <3> QED
      BY <2>2, <3>1, LocalIs
  <2> HIDE DEF S
  <2> QED
    BY <2>1, <2>3, <2>4, <2>5, <2>6, DropStep DEF x
<1>9. ASSUME NEW d0 \in Devs, Open(c, d0) PROVE Held(After)
  <2> DEFINE S == {d0}
             y == [x EXCEPT !.at = "opening", !.handle = d0]
  <2>1. /\ ctx' = [ctx EXCEPT ![c] = y] /\ dev' = Ref(dev, d0) /\ lost' = lost
        /\ x.at = "listed" /\ d0 \in x.array
    BY <1>9 DEF Open, At
  <2>2. /\ y.list = x.list /\ y.msgs = x.msgs /\ y.array = x.array /\ y.handle = d0
        /\ y.at = "opening" /\ x.handle = None
    BY <1>1, <2>1 DEF Contexts, LifeOf
  <2>3. y \in Contexts /\ dev' = Taken(dev, S)
    BY <1>1, <2>1, RefIsTaken
  <2> HIDE DEF x, y
  <2>4. S \in SUBSET Devs /\ \A d \in S : PointsTo(x, d)
    BY <2>1 DEF PointsTo
  <2>5. PointsOK(dev, lost, c, y)
    <3>1. (\A d \in y.array : PointsTo(x, d)) /\ PointsTo(x, y.handle)
      BY <2>1, <2>2 DEF PointsTo
    <3> QED
      BY <1>1, <2>2, <3>1, SamePoints
  <2>6. \A d \in Devs : Local(y, d) = Local(x, d) + Times(d \in S)
    <3> TAKE d \in Devs
    <3>1. Times(HasOpen(x, d)) = 0 /\ Times(HasOpen(y, d)) = Times(d \in S)
      BY <2>2 DEF HasOpen, Times
    <3>2. Times(d \in x.array) = Times(d \in y.array)
      BY <2>2
    <3> QED
      BY <2>2, <3>1, <3>2, LocalIs
  <2> HIDE DEF S
  <2> QED
    BY <2>1, <2>3, <2>4, <2>5, <2>6, TakeStep DEF x
<1>10. CASE OpenNode(c)
  <2> DEFINE S == x.array
             z == [x EXCEPT !.at = "open", !.array = {}]
             y == FdNotification(z)
  <2>1. ctx' = [ctx EXCEPT ![c] = y] /\ dev' = UnrefAll(dev, S) /\ lost' = lost /\ x.at = "opening"
    BY <1>10 DEF OpenNode, At
  <2>2. /\ z.list = x.list /\ z.msgs = x.msgs /\ z.array = {} /\ z.handle = x.handle
        /\ z.at = "open" /\ z \in Contexts
    BY <1>1, <2>1 DEF Contexts, LifeOf, Places, Up
  <2> HIDE DEF x, z
  <2>3. /\ y.list = x.list /\ y.msgs = x.msgs /\ y.array = {} /\ y.handle = x.handle
        /\ y.at = "open"
    BY <2>2, FdFields
  <2>4. y \in Contexts
    BY <1>1, <2>1
  <2> HIDE DEF y
  <2>5. S \in SUBSET Devs /\ \A d \in S : PointsTo(x, d)
    BY <1>2 DEF PointsTo
  <2>6. PointsOK(dev, lost, c, y)
    <3>1. PointsTo(x, y.handle)
      BY <2>3 DEF PointsTo
    <3> QED
      BY <1>1, <2>3, <3>1, SamePoints
  <2>7. \A d \in Devs : Local(x, d) = Local(y, d) + Times(d \in S)
    <3> TAKE d \in Devs
    <3>1. Times(d \in y.array) = 0 /\ Times(HasOpen(x, d)) = Times(HasOpen(y, d))
      BY <2>1, <2>3 DEF HasOpen, Times
    <3> QED
      BY <2>3, <3>1, LocalIs
  <2> HIDE DEF S
  <2> QED
    BY <2>1, <2>4, <2>5, <2>6, <2>7, DropStep DEF x
<1>11. CASE OpenFails(c)
  <2> DEFINE S == x.array
             H == {x.handle}
             z == [x EXCEPT !.handle = None]
             y == [x EXCEPT !.at = "exit", !.array = {}, !.handle = None]
             u == [dev |-> UnrefAll(dev, H), ctx |-> [ctx EXCEPT ![c] = z], lost |-> lost]
  <2>1. /\ ctx' = [ctx EXCEPT ![c] = y] /\ dev' = UnrefAll(UnrefAll(dev, H), S) /\ lost' = lost
        /\ x.at = "gone"
    BY <1>11 DEF OpenFails, At, Unref
  <2>2. /\ y.list = x.list /\ y.msgs = x.msgs /\ y.array = {} /\ y.handle = None /\ y.at = "exit"
        /\ z.list = x.list /\ z.msgs = x.msgs /\ z.array = S /\ z.handle = None /\ z.at = "gone"
        /\ z \in Contexts /\ x.handle \in Devs
    BY <1>1, <2>1 DEF Contexts, LifeOf
  <2>3. y \in Contexts
    BY <1>1, <2>1
  <2>4. u.dev = UnrefAll(dev, H) /\ u.ctx[c] = z /\ u.lost = lost /\ u.ctx = [ctx EXCEPT ![c] = z]
    BY <1>1
  <2>5. Shaped(u)
    <3> HIDE DEF z
    <3>1. u.ctx = [e \in Ctx |-> u.ctx[e]] /\ \A e \in Ctx : u.ctx[e] \in Contexts
      BY <1>1, <2>2, <2>4 DEF SInv, ContextOK
    <3>2. u.dev = [d \in Devs |-> u.dev[d]]
      BY <2>4 DEF UnrefAll
    <3> HIDE DEF u
    <3> QED
      BY <3>1, <3>2 DEF Shaped
  <2>6. ctx'[c] = y /\ ctx' = [u.ctx EXCEPT ![c] = y]
    BY <1>1, <2>1
  <2> HIDE DEF x, y, z, u
  <2>7. Held(u)
    <3>1. H \in SUBSET Devs /\ \A d \in H : PointsTo(x, d)
      BY <2>2 DEF PointsTo
    <3>2. PointsOK(dev, lost, c, z)
      <4>1. \A d \in z.array : PointsTo(x, d)
        BY <2>2 DEF PointsTo
      <4> QED
        BY <1>1, <2>2, <4>1, SamePoints
    <3>3. \A d \in Devs : Local(x, d) = Local(z, d) + Times(d \in H)
      <4> TAKE d \in Devs
      <4>1. Times(d \in x.array) = Times(d \in z.array)
        BY <2>2
      <4>2. Times(HasOpen(z, d)) = 0 /\ Times(HasOpen(x, d)) = Times(d \in H)
        BY <2>1, <2>2 DEF HasOpen, Times
      <4> QED
        BY <2>2, <4>1, <4>2, LocalIs
    <3> HIDE DEF H
    <3> DEFINE w == Now
    <3>4. /\ Shaped(w) /\ Held(w) /\ \A d \in H : w.dev[d] # Free /\ w.dev[d].ctx = c
          /\ \A d \in Devs : Local(w.ctx[c], d) = Local(z, d) + Times(d \in H)
          /\ PointsOK(w.dev, w.lost, c, z)
          /\ u.dev = UnrefAll(w.dev, H) /\ u.ctx = [w.ctx EXCEPT ![c] = z] /\ u.lost = w.lost
      <4>1. Now.dev = dev /\ Now.ctx = ctx /\ Now.lost = lost
        BY DEF Now
      <4> QED
        BY <1>1, <2>4, <3>1, <3>2, <3>3, <4>1, NowShaped DEF x, PointsOK
    <3> HIDE DEF w
    <3> QED
      BY SMTT(30), <2>2, <3>1, <3>4, HeldDrop
  <2>8. PointsOK(u.dev, u.lost, c, z)
    BY <2>4, <2>7 DEF Held
  <2>9. PointsOK(u.dev, u.lost, c, y)
    BY <2>2, <2>8, SamePoints
  <2>10. \A d \in S : u.dev[d] # Free /\ u.dev[d].ctx = c
    BY <1>2, <2>2, <2>8 DEF PointsOK, PointsTo
  <2>11. \A d \in Devs : Local(z, d) = Local(y, d) + Times(d \in S)
    <3> TAKE d \in Devs
    <3>1. Times(d \in y.array) = 0 /\ Times(HasOpen(z, d)) = 0 /\ Times(HasOpen(y, d)) = 0
      BY <2>2 DEF HasOpen, Times
    <3>2. Times(d \in z.array) = Times(d \in S)
      BY <2>2
    <3>3. y.list = z.list /\ y.msgs = z.msgs
      BY <2>2
    <3> QED
      BY <3>1, <3>2, <3>3, LocalIs
  <2>12. S \in SUBSET Devs
    BY <1>2
  <2> HIDE DEF S
  <2> DEFINE v == After
  <2>13. /\ v.dev = UnrefAll(u.dev, S) /\ v.ctx = [u.ctx EXCEPT ![c] = y] /\ v.lost = u.lost
         /\ \A d \in Devs : Local(u.ctx[c], d) = Local(y, d) + Times(d \in S)
    BY <2>1, <2>4, <2>6, <2>11 DEF After
  <2> HIDE DEF v
  <2>14. Held(v)
    BY <2>3, <2>5, <2>7, <2>9, <2>10, <2>12, <2>13, HeldDrop
  <2> QED
    BY <2>14 DEF v
<1>12. ASSUME NEW a \in Addr, GetDevice2(c, a) PROVE Held(After)
  <2> DEFINE w == Connect(Now, c, a, None)
             y == [w.ctx[c] EXCEPT !.at = "device2", !.handle = Head(w.ctx[c].list)]
  <2>1. x.at = "ready" /\ Room /\ Becomes([w EXCEPT !.ctx = [@ EXCEPT ![c].at = "device2",
                                           ![c].handle = Head(w.ctx[c].list)]])
    BY SMTT(30), <1>12 DEF GetDevice2, At
  <2>2. World(Now) /\ Now.ctx = ctx /\ Now.dev = dev /\ Hears(ctx[c]) /\ x.handle = None
    BY <1>1, <2>1, NowWorld DEF Now, Hears, LifeOf, Up, Starting
  <2>3. \E d \in Devs : Now.dev[d] = Free
    <3>1. IsFiniteSet({d \in Devs : dev[d] = Free})
      BY FS_Subset
    <3> QED
      BY <2>1, <2>2, <3>1, FS_EmptySet DEF Room
  <2>4. Hub(Now.dev, a, None)
    BY DEF Hub
  <2>5. World(w) /\ Held(w) /\ Alike(Now, w, c)
    <3>1. World(w) /\ Alike(Now, w, c)
      BY <2>2, <2>3, ConnectAlike
    <3>2. Held(w)
      BY <2>2, <2>3, <2>4, HeldConnect
    <3> QED
      BY <3>1, <3>2
  <2>6. PICK d0 \in Devs : w.ctx = [ctx EXCEPT ![c] = Joined(x, d0)]
    <3>1. PICK d0 \in Devs : w.ctx = [Now.ctx EXCEPT ![c] = Joined(Now.ctx[c], d0)]
      BY <2>2, <2>3, <2>4, HeldConnect
    <3> QED
      BY <2>2, <3>1
  <2>7. w.ctx[c].list = <<d0>> \o x.list /\ w.ctx[c].handle = None /\ w.ctx[c].at = "ready"
    <3>1. w.ctx[c] = Joined(x, d0) /\ ContextOK(x) /\ Hears(x)
      BY <1>1, <2>2, <2>6 DEF SInv
    <3> HIDE DEF x, w
    <3> QED
      BY <2>1, <2>2, <3>1, JoinedOK
  <2>8. x.list \in Seq(Devs) /\ w.ctx[c].list = <<d0>> \o x.list
    BY <1>1, <2>7 DEF Contexts
  <2>9. InList(w.ctx[c], d0) /\ Head(w.ctx[c].list) = d0
    <3> DEFINE k == <<d0>> \o x.list
    <3>1. 1 \in DOMAIN k /\ k[1] = d0 /\ Head(k) = d0
      BY <2>8
    <3> HIDE DEF k
    <3> QED
      BY <2>8, <3>1 DEF k, InList
  <2>10. /\ After.dev = w.dev /\ After.lost = w.lost
         /\ After.ctx = [w.ctx EXCEPT ![c].at = "device2", ![c].handle = Head(w.ctx[c].list)]
    <3> HIDE DEF w
    <3>1. /\ dev' = w.dev /\ lost' = w.lost
          /\ ctx' = [w.ctx EXCEPT ![c].at = "device2", ![c].handle = Head(w.ctx[c].list)]
      BY <2>1, <2>5 DEF Becomes, World
    <3> QED
      BY <3>1 DEF After
  <2>11. /\ w.ctx = [e \in Ctx |-> w.ctx[e]] /\ w.ctx[c] \in Contexts
         /\ PointsOK(w.dev, w.lost, c, w.ctx[c])
         /\ Shaped(w)
    BY <2>5, WorldShaped DEF Shaped, Held
  <2> HIDE DEF x, w
  <2>12. After.ctx = [w.ctx EXCEPT ![c] = y]
    BY <2>10, <2>11
  <2>13. /\ y.list = w.ctx[c].list /\ y.msgs = w.ctx[c].msgs /\ y.array = w.ctx[c].array
         /\ y.handle = d0 /\ y.at = "device2"
    BY <2>9, <2>11 DEF Contexts
  <2>14. y \in Contexts
    BY <2>9, <2>11 DEF Contexts, Places, Up
  <2> HIDE DEF y
  <2>15. PointsOK(w.dev, w.lost, c, y)
    <3>1. /\ \A d \in y.array : PointsTo(w.ctx[c], d)
          /\ PointsTo(w.ctx[c], y.handle) /\ y.handle # None
      BY <2>9, <2>13 DEF PointsTo
    <3> DEFINE z == w.ctx[c]
    <3>2. /\ PointsOK(w.dev, w.lost, c, z) /\ y.list = z.list /\ y.msgs = z.msgs
          /\ \A d \in y.array : PointsTo(z, d)
          /\ PointsTo(z, y.handle) /\ InList(z, y.handle) /\ y.handle # None
      BY <2>9, <2>11, <2>13, <3>1
    <3> HIDE DEF z
    <3> QED
      BY <3>2, SamePoints
  <2>16. \A d \in Devs : Local(y, d) = Local(w.ctx[c], d)
    <3> TAKE d \in Devs
    <3> DEFINE z == w.ctx[c]
    <3>1. Times(HasOpen(z, d)) = 0 /\ Times(HasOpen(y, d)) = 0
      BY <2>7, <2>13 DEF HasOpen, Times
    <3>2. y.list = z.list /\ y.msgs = z.msgs /\ Times(d \in y.array) = Times(d \in z.array)
      BY <2>13
    <3> HIDE DEF z
    <3>3. Local(y, d) = Local(z, d)
      BY <3>1, <3>2, LocalIs
    <3> QED
      BY <3>3 DEF z
  <2> DEFINE v == After
  <2>17. v.dev = w.dev /\ v.ctx = [w.ctx EXCEPT ![c] = y] /\ v.lost = w.lost
    BY <2>10, <2>12
  <2> HIDE DEF v
  <2>18. Held(w) /\ Shaped(w)
    BY <2>5, <2>11
  <2>19. Held(v)
    BY <2>14, <2>15, <2>16, <2>17, <2>18, HeldSame
  <2> QED
    BY <2>19 DEF v
<1>13. CASE Open2(c)
  <2> DEFINE S == {x.handle}
             z == [x EXCEPT !.at = "open"]
             y == FdNotification(z)
  <2>1. /\ ctx' = [ctx EXCEPT ![c] = y] /\ dev' = Ref(dev, x.handle) /\ lost' = lost
        /\ x.at = "device2"
    BY <1>13 DEF Open2, At
  <2>2. /\ z.list = x.list /\ z.msgs = x.msgs /\ z.array = x.array /\ z.handle = x.handle
        /\ z.at = "open" /\ z \in Contexts /\ x.handle \in Devs
    BY <1>1, <2>1 DEF Contexts, LifeOf, Places, Up
  <2>3. dev' = Taken(dev, S)
    BY <1>1, <2>1, <2>2, RefIsTaken
  <2> HIDE DEF x, z
  <2>4. /\ y.list = x.list /\ y.msgs = x.msgs /\ y.array = x.array /\ y.handle = x.handle
        /\ y.at = "open"
    BY <2>2, FdFields
  <2>5. y \in Contexts
    BY <1>1, <2>1
  <2> HIDE DEF y
  <2>6. S \in SUBSET Devs /\ \A d \in S : PointsTo(x, d)
    BY <2>2 DEF PointsTo
  <2>7. PointsOK(dev, lost, c, y)
    <3>1. PointsTo(x, y.handle) /\ \A d \in y.array : PointsTo(x, d)
      BY <2>4 DEF PointsTo
    <3> QED
      BY <1>1, <2>4, <3>1, SamePoints
  <2>8. \A d \in Devs : Local(y, d) = Local(x, d) + Times(d \in S)
    <3> TAKE d \in Devs
    <3>1. Times(HasOpen(x, d)) = 0 /\ Times(HasOpen(y, d)) = Times(d \in S)
      BY <2>1, <2>4 DEF HasOpen, Times
    <3>2. Times(d \in x.array) = Times(d \in y.array)
      BY SMTT(30), <2>4
    <3> QED
      BY <2>4, <3>1, <3>2, LocalIs
  <2> HIDE DEF S
  <2> QED
    BY <2>1, <2>3, <2>5, <2>6, <2>7, <2>8, TakeStep DEF x
<1>14. CASE Open2Fails(c)
  <2> DEFINE S == {}
             y == [x EXCEPT !.at = "exit", !.handle = None]
  <2>1. ctx' = [ctx EXCEPT ![c] = y] /\ dev' = dev /\ lost' = lost /\ x.at = "device2"
    BY <1>14 DEF Open2Fails, At
  <2>2. /\ y.list = x.list /\ y.msgs = x.msgs /\ y.array = x.array /\ y.handle = None
        /\ y.at = "exit"
    BY <1>1, <2>1 DEF Contexts
  <2>3. y \in Contexts /\ dev' = Taken(dev, S)
    BY <1>1, <2>1 DEF Taken, IsMemory
  <2> HIDE DEF x, y
  <2>4. PointsOK(dev, lost, c, y)
    <3>1. \A d \in y.array : PointsTo(x, d)
      BY <2>2 DEF PointsTo
    <3> QED
      BY <1>1, <2>2, <3>1, SamePoints
  <2>5. \A d \in Devs : Local(y, d) = Local(x, d) + Times(d \in S)
    <3> TAKE d \in Devs
    <3>1. Times(HasOpen(x, d)) = 0 /\ Times(HasOpen(y, d)) = 0 /\ Times(d \in S) = 0
      BY <2>1, <2>2 DEF HasOpen, Times
    <3>2. Times(d \in x.array) = Times(d \in y.array)
      BY <2>2
    <3> QED
      BY <2>2, <3>1, <3>2, LocalIs
  <2>6. S \in SUBSET Devs /\ \A d \in S : PointsTo(x, d)
    OBVIOUS
  <2> HIDE DEF S
  <2> QED
    BY <2>1, <2>3, <2>4, <2>5, <2>6, TakeStep DEF x
<1>15. CASE TakeMessage(c)
  <2> DEFINE S == {d \in Devs : Head(x.msgs) = Message("left", d)}
             z == [x EXCEPT !.msgs = Tail(@)]
             y == ClearIfLast(z)
  <2>1. /\ ctx' = [ctx EXCEPT ![c] = y] /\ dev' = Dereferenced(dev, Head(x.msgs)) /\ lost' = lost
        /\ x.at \in {"open", "drain"} /\ x.msgs # <<>>
    BY <1>15 DEF TakeMessage, Handling
  <2>2. x.msgs \in Seq(Messages) /\ Tail(x.msgs) \in Seq(Messages) /\ Head(x.msgs) \in Messages
    BY <1>1, <2>1 DEF Contexts
  <2>3. /\ z.list = x.list /\ z.msgs = Tail(x.msgs) /\ z.array = x.array /\ z.handle = x.handle
        /\ z.at = x.at /\ z \in Contexts
    BY <1>1, <2>2 DEF Contexts
  <2> HIDE DEF x, z
  <2>4. /\ y.list = x.list /\ y.msgs = Tail(x.msgs) /\ y.array = x.array /\ y.handle = x.handle
        /\ y.at = x.at
    BY <2>3, ClearFields
  <2>5. y \in Contexts
    BY <1>1, <2>1
  <2> HIDE DEF y
  <2>6. /\ PointsOK(dev, lost, c, y)
        /\ \A d \in S : PointsTo(x, d)
        /\ \A d \in Devs : Local(x, d) = Local(y, d) + Times(d \in S)
    <3>1. x.at # "device2" /\ y.at # "device2"
      BY <2>1, <2>4
    <3> HIDE DEF S
    <3>2. S = {d \in Devs : Head(x.msgs) = Message("left", d)}
      BY DEF S
    <3> QED
      BY <1>1, <2>1, <2>4, <3>1, <3>2, TakenMessage
  <2>7. CASE Head(x.msgs).event = "left"
    <3>1. S = {Head(x.msgs).dev}
      BY <2>2, <2>7 DEF Messages, Message
    <3>2. dev' = UnrefAll(dev, S) /\ S \in SUBSET Devs
      BY <2>1, <2>2, <2>7, <3>1 DEF Dereferenced, Unref, Messages
    <3> HIDE DEF S
    <3> QED
      BY <2>1, <2>5, <2>6, <3>2, DropStep DEF x
  <2>8. CASE Head(x.msgs).event # "left"
    <3>1. S = {}
      BY <2>8, MessageIs
    <3>2. dev' = Taken(dev, S) /\ S \in SUBSET Devs
      BY <1>1, <2>1, <2>8, <3>1 DEF Dereferenced, Taken, IsMemory
    <3>3. \A d \in Devs : Local(y, d) = Local(x, d) + Times(d \in S)
      BY <2>6, <3>1, LocalNat DEF Times
    <3> HIDE DEF S
    <3> QED
      BY <2>1, <2>5, <2>6, <3>2, <3>3, TakeStep DEF x
  <2> QED
    BY <2>7, <2>8
<1>16. CASE Close(c)
  <2> DEFINE S == {x.handle}
             z == [x EXCEPT !.at = "exit", !.handle = None]
             y == FdNotification(z)
  <2>1. ctx' = [ctx EXCEPT ![c] = y] /\ dev' = UnrefAll(dev, S) /\ lost' = lost /\ x.at = "open"
    BY <1>16 DEF Close, At, Unref
  <2>2. /\ z.list = x.list /\ z.msgs = x.msgs /\ z.array = x.array /\ z.handle = None
        /\ z.at = "exit" /\ z \in Contexts /\ x.handle \in Devs
    BY <1>1, <2>1 DEF Contexts, LifeOf, Places, Up
  <2> HIDE DEF x, z
  <2>3. /\ y.list = x.list /\ y.msgs = x.msgs /\ y.array = x.array /\ y.handle = None
        /\ y.at = "exit"
    BY <2>2, FdFields
  <2>4. y \in Contexts
    BY <1>1, <2>1
  <2> HIDE DEF y
  <2>5. S \in SUBSET Devs /\ \A d \in S : PointsTo(x, d)
    BY <2>2 DEF PointsTo
  <2>6. PointsOK(dev, lost, c, y)
    <3>1. \A d \in y.array : PointsTo(x, d)
      BY <2>3 DEF PointsTo
    <3> QED
      BY <1>1, <2>3, <3>1, SamePoints
  <2>7. \A d \in Devs : Local(x, d) = Local(y, d) + Times(d \in S)
    <3> TAKE d \in Devs
    <3>1. Times(HasOpen(y, d)) = 0 /\ Times(HasOpen(x, d)) = Times(d \in S)
      BY <2>1, <2>3 DEF HasOpen, Times
    <3>2. Times(d \in x.array) = Times(d \in y.array)
      BY <2>3
    <3> QED
      BY <2>3, <3>1, <3>2, LocalIs
  <2> HIDE DEF S
  <2> QED
    BY <2>1, <2>4, <2>5, <2>6, <2>7, DropStep DEF x
<1> QED
  BY <1>3, <1>4, <1>5, <1>6, <1>7, <1>8, <1>9, <1>10, <1>11, <1>12, <1>13, <1>14, <1>15, <1>16
     DEF Session, Quietly

\* The uevent.
LEMMA NowAfter == Now' = After
BY DEF Now, After

\* Uevents and handles have addresses of the bus.
LEMMA WalkAddress ==
  ASSUME SInv, RInv, Next, Races = {} PROVE (Walking => walk.addr \in Addr)'
<1> SUFFICES ASSUME walk' # NoWalk PROVE walk'.addr \in Addr
  BY DEF Walking
<1>1. CASE walk' = walk
  BY <1>1 DEF RInv, Walking
<1>2. ASSUME uevents # <<>>, WalkFrom(Head(uevents)) PROVE walk'.addr \in Addr
  <2>1. Head(uevents) \in Uevents
    BY <1>2 DEF SInv
  <2> QED
    BY <1>2, <2>1 DEF WalkFrom, Uevents
<1>3. ASSUME NEW c \in Ctx, WalkOn(c) PROVE walk'.addr \in Addr
  <2>1. Walking
    BY <1>3 DEF WalkOn, Walking, NoWalk
  <2>2. /\ walk' = [walk EXCEPT !.todo = @ \ {c}]
        /\ walk = [add |-> walk.add, addr |-> walk.addr, todo |-> walk.todo]
    BY <1>3, <2>1 DEF WalkOn, SInv, WalkInv, Walking
  <2>3. walk'.addr = walk.addr
    BY <2>2
  <2> QED
    BY <2>1, <2>3 DEF RInv
<1>4. ASSUME NEW c \in Ctx, OpenGone(c) PROVE walk'.addr \in Addr
  <2>1. ctx[c].handle \in Devs
    BY <1>4 DEF OpenGone, At, SInv, ContextOK, LifeOf, Contexts
  <2>2. dev[ctx[c].handle] # Free
    BY <2>1 DEF RInv, Held, Now, PointsOK, PointsTo
  <2>3. dev[ctx[c].handle].addr \in Addr
    BY <2>1, <2>2 DEF RInv, Held, Now, Books, Structures
  <2> QED
    BY <1>4, <2>3 DEF OpenGone
<1>5. CASE \E a \in Addr : Plug(a) \/ Unplug(a)
  BY <1>1, <1>5 DEF Plug, Unplug
<1>6. CASE NetlinkReads \/ WalkNobody \/ NetlinkDone \/ NetlinkEnds
  BY SMTT(30), <1>1, <1>2, <1>6 DEF NetlinkReads, WalkNobody, NetlinkDone, NetlinkEnds
<1>7. ASSUME NEW c \in Ctx, Session(c) PROVE walk'.addr \in Addr
  BY <1>1, <1>2, <1>4, <1>7 DEF Session, NewActive, OpInit, StartFails, ScanStart, Scan, ScanDone,
     OpInitDone, MessageList, EventPipe, PollStart, PollOn, PollDone, GetDeviceList, FreeDeviceList,
     Open, OpenNode, OpenFails, GetDevice2, NoDevice2, Open2, Open2Fails, TakePollfds, TakeMessage,
     Close, ExitActive, ExitContext, OpExit, Join
<1>8. CASE Over
  BY <1>1, <1>8 DEF Over, vars
<1> QED
  BY <1>3, <1>5, <1>6, <1>7, <1>8 DEF Next, NetlinkStep

\* The netlink thread keeps the books.
LEMMA WalkHeld ==
  ASSUME SInv, RInv, Races = {}, NEW c \in Ctx, WalkOn(c) PROVE Held(After)
<1>1. World(Now) /\ Now.ctx = ctx /\ Now.dev = dev /\ Hears(ctx[c]) /\ Held(Now)
  BY NowWorld, WalkFacts DEF Now, RInv
<1>2. \A w : World(w) /\ Becomes(w) => After = w
  BY DEF World, Becomes, After
<1>3. CASE walk.add /\ Becomes(Enumerate(Now, c, walk.addr))
  <2>1. /\ Cardinality({d \in Devs : Now.dev[d] = Free}) > 1 /\ plugged \subseteq Addr
        /\ walk.addr \in Addr
    BY <1>1, <1>3, WalkFacts DEF Room, SInv, RInv, WalkOn, Walking, NoWalk
  <2>2. World(Enumerate(Now, c, walk.addr))
    BY <1>1, <2>1, EnumerateAlike
  <2>3. Held(Enumerate(Now, c, walk.addr))
    BY <1>1, <2>1, HeldEnumerate
  <2> QED
    BY <1>2, <1>3, <2>2, <2>3
<1>4. CASE /\ ~walk.add /\ BySession(Now, c, walk.addr) # None
           /\ Becomes(Disconnect(Now, c, BySession(Now, c, walk.addr)))
  <2> DEFINE d == BySession(Now, c, walk.addr)
  <2>1. d \in Devs /\ InList(Now.ctx[c], d)
    BY SMTT(30), <1>1, <1>4, BySessionIs
  <2> HIDE DEF d
  <2>2. World(Disconnect(Now, c, d)) /\ Held(Disconnect(Now, c, d))
    BY <1>1, <2>1, DisconnectIs, HeldDisconnect
  <2> QED
    BY SMTT(30), <1>2, <1>4, <2>2 DEF d
<1>5. CASE Becomes(Now)
  BY <1>1, <1>2, <1>5
<1> QED
  BY <1>3, <1>4, <1>5, WalkFacts

LEMMA StepReferences ==
  ASSUME SInv, SInv', RInv, Races = {}, Next PROVE RInv'
<1> SUFFICES Held(After)
  BY NowAfter, WalkAddress DEF RInv
<1>1. ASSUME dev' = dev, ctx' = ctx, lost' = lost PROVE Held(After)
  BY <1>1 DEF RInv, After, Now
<1>2. CASE \E a \in Addr : Plug(a) \/ Unplug(a)
  BY <1>1, <1>2 DEF Plug, Unplug
<1>3. CASE NetlinkReads \/ WalkNobody \/ NetlinkDone \/ NetlinkEnds
  BY <1>1, <1>3 DEF NetlinkReads, WalkNobody, NetlinkDone, NetlinkEnds
<1>4. CASE \E c \in Ctx : WalkOn(c)
  BY <1>4, WalkHeld
<1>5. CASE \E c \in Ctx : Session(c)
  BY <1>5, SessionHeld DEF RInv
<1>6. CASE Over
  BY <1>1, <1>6 DEF Over, vars
<1> QED
  BY <1>2, <1>3, <1>4, <1>5, <1>6 DEF Next, NetlinkStep

LEMMA InitReferences == Init => RInv
<1> SUFFICES ASSUME Init PROVE RInv
  OBVIOUS
<1>1. dev = [d \in Devs |-> Free] /\ ctx = [c \in Ctx |-> NewContext] /\ lost = {} /\ ~Walking
  BY DEF Init, Walking
<1>2. Now.dev = dev /\ Now.ctx = ctx /\ Now.lost = lost
  BY DEF Now
<1>3. Books(dev, [d \in Devs |-> Direct(Now, d)])
  BY <1>1, <1>2 DEF Books, Direct
<1>4. \A c \in Ctx : PointsOK(dev, lost, c, NewContext)
  BY NoPoints DEF NewContext
<1> QED
  BY <1>1, <1>2, <1>3, <1>4 DEF RInv, Held

-----------------------------------------------------------------------------
(* The holders of a structure are those its books count.                     *)

\* A set of one element, or of none.
LEMMA AtMostOne ==
  ASSUME NEW S, NEW x, NEW b \in BOOLEAN, b => S = {x}, ~b => S = {}
  PROVE  IsFiniteSet(S) /\ Cardinality(S) = Times(b)
<1>1. CASE b
  <2>1. S = {x} /\ Times(b) = 1
    BY <1>1 DEF Times
  <2>2. IsFiniteSet({x}) /\ Cardinality({x}) = 1
    BY FS_Singleton
  <2> QED
    BY <2>1, <2>2
<1>2. CASE ~b
  <2>1. S = {} /\ Times(b) = 0
    BY <1>2 DEF Times
  <2> QED
    BY <2>1, FS_EmptySet
<1> QED
  BY <1>1, <1>2

LEMMA ApartSum ==
  ASSUME NEW S, NEW T, IsFiniteSet(S), IsFiniteSet(T), S \cap T = {}
  PROVE  IsFiniteSet(S \union T) /\ Cardinality(S \union T) = Cardinality(S) + Cardinality(T)
<1>1. Cardinality(S \cap T) = 0 /\ Cardinality(S) \in Nat /\ Cardinality(T) \in Nat
  BY FS_EmptySet, FS_CardinalityType
<1>2. /\ IsFiniteSet(S \union T)
      /\ Cardinality(S \union T) = Cardinality(S) + Cardinality(T) - Cardinality(S \cap T)
  BY FS_Union
<1> QED
  BY <1>1, <1>2

LEMMA HoldersAre ==
  ASSUME SInv, RInv, NEW d \in Allocated
  PROVE  Holders(d) = Direct(Now, d) + Cardinality(Behind(dev, d))
<1> DEFINE c == dev[d].ctx
           x == ctx[c]
           L == {<<e, "list">> : e \in {e \in Ctx : d \in ToSet(ctx[e].list)}}
           A == {<<e, "array">> : e \in {e \in Ctx : d \in ctx[e].array}}
           H == {<<e, "handle">> : e \in {e \in Ctx : ctx[e].handle = d /\ ~At(e, "device2")}}
           M == UNION {{<<e, i>> : i \in {j \in DOMAIN ctx[e].msgs :
                                            ctx[e].msgs[j] = [event |-> "left", dev |-> d]}}
                         : e \in Ctx}
           B == {e \in Allocated : dev[e].parent = d}
<1>1. d \in Devs /\ dev[d] # Free
  BY SMTT(30) DEF Allocated
<1>2. /\ c \in Ctx /\ Now.dev = dev /\ Now.ctx = ctx /\ Now.lost = lost
      /\ \A e \in Ctx : ctx[e] \in Contexts
      /\ \A e \in Ctx : PointsTo(ctx[e], d) => e = c
      /\ PointsOK(dev, lost, c, x)
  <2>1. Now.dev = dev /\ Now.ctx = ctx /\ Now.lost = lost
    BY DEF Now
  <2>2. c \in Ctx
    BY <1>1, <2>1 DEF RInv, Held, Books, Structures
  <2>3. \A e \in Ctx : ctx[e] \in Contexts /\ PointsOK(dev, lost, e, ctx[e])
    BY <2>1 DEF SInv, ContextOK, RInv, Held
  <2> QED
    BY <1>1, <2>1, <2>2, <2>3 DEF PointsOK
<1> HIDE DEF c
<1>3. \A e \in Ctx : (d \in ToSet(ctx[e].list) <=> InList(ctx[e], d))
  BY <1>2, ListSet
<1>4. IsFiniteSet(L) /\ Cardinality(L) = Times(InList(x, d))
  <2>1. \A e \in Ctx : InList(ctx[e], d) => e = c
    BY <1>2 DEF PointsTo
  <2>2. InList(x, d) => L = {<<c, "list">>}
    BY <1>2, <1>3, <2>1
  <2>3. ~InList(x, d) => L = {}
    BY <1>2, <1>3, <2>1
  <2>4. InList(x, d) \in BOOLEAN
    BY DEF InList
  <2> HIDE DEF L, x
  <2> QED
    BY <2>2, <2>3, <2>4, AtMostOne
<1>5. IsFiniteSet(A) /\ Cardinality(A) = Times(d \in x.array)
  <2>1. \A e \in Ctx : d \in ctx[e].array => e = c
    BY <1>2 DEF PointsTo
  <2>2. d \in x.array => A = {<<c, "array">>}
    BY <1>2, <2>1
  <2>3. d \notin x.array => A = {}
    BY <1>2, <2>1
  <2>4. (d \in x.array) \in BOOLEAN
    OBVIOUS
  <2> HIDE DEF A, x
  <2> QED
    BY <2>2, <2>3, <2>4, AtMostOne
<1>6. IsFiniteSet(H) /\ Cardinality(H) = Times(HasOpen(x, d))
  <2>1. \A e \in Ctx : ctx[e].handle = d => e = c
    BY <1>2 DEF PointsTo
  <2>2. HasOpen(x, d) => H = {<<c, "handle">>}
    BY <1>2, <2>1 DEF HasOpen, At
  <2>3. ~HasOpen(x, d) => H = {}
    BY <1>2, <2>1 DEF HasOpen, At
  <2>4. HasOpen(x, d) \in BOOLEAN
    BY DEF HasOpen
  <2> HIDE DEF H, x
  <2> QED
    BY <2>2, <2>3, <2>4, AtMostOne
<1>7. IsFiniteSet(M) /\ Cardinality(M) = Times(HasLeft(x, d))
  <2>0. [event |-> "left", dev |-> d] = Message("left", d)
    BY DEF Message
  <2>1. \A e \in Ctx : \A j \in DOMAIN ctx[e].msgs :
          ctx[e].msgs[j] = Message("left", d) => e = c
    BY <1>2, MessageIs DEF PointsTo
  <2>2. \A p : p \in M <=> \E e \in Ctx : \E j \in DOMAIN ctx[e].msgs :
                             p = <<e, j>> /\ ctx[e].msgs[j] = Message("left", d)
    BY <2>0
  <2> HIDE DEF M
  <2>3. ASSUME NEW i \in DOMAIN x.msgs, x.msgs[i] = Message("left", d) PROVE M = {<<c, i>>}
    <3>1. ASSUME NEW p \in M PROVE p = <<c, i>>
      <4>1. PICK e \in Ctx : \E j \in DOMAIN ctx[e].msgs :
                              p = <<e, j>> /\ ctx[e].msgs[j] = Message("left", d)
        BY <2>2, <3>1
      <4>0. PICK j \in DOMAIN ctx[e].msgs : p = <<e, j>> /\ ctx[e].msgs[j] = Message("left", d)
        BY <4>1
      <4>2. e = c /\ j \in DOMAIN x.msgs /\ x.msgs[j] = x.msgs[i] /\ x.msgs[i].event = "left"
        BY <2>1, <2>3, <4>0, MessageIs
      <4>3. j = i
        BY <1>2, <4>2 DEF PointsOK
      <4> QED
        BY <4>0, <4>2, <4>3
    <3>2. <<c, i>> \in M
      BY <1>2, <2>2, <2>3
    <3> QED
      BY <3>1, <3>2
  <2>4. ~HasLeft(x, d) => M = {}
    BY <1>2, <2>1, <2>2 DEF HasLeft
  <2>5. HasLeft(x, d) => \E i : M = {<<c, i>>}
    BY <2>3 DEF HasLeft
  <2>6. HasLeft(x, d) \in BOOLEAN
    BY DEF HasLeft
  <2>7. PICK p : HasLeft(x, d) => M = {p}
    BY <2>5
  <2> HIDE DEF x
  <2> QED
    BY <2>4, <2>6, <2>7, AtMostOne
<1>8. Cardinality({d} \cap lost) = Times(d \in lost)
  <2>1. d \in lost => {d} \cap lost = {d}
    OBVIOUS
  <2>2. d \notin lost => {d} \cap lost = {}
    OBVIOUS
  <2>3. (d \in lost) \in BOOLEAN
    OBVIOUS
  <2> DEFINE Z == {d} \cap lost
  <2> HIDE DEF Z
  <2>4. (d \in lost => Z = {d}) /\ (d \notin lost => Z = {})
    BY <2>1, <2>2 DEF Z
  <2>5. Cardinality(Z) = Times(d \in lost)
    BY <2>3, <2>4, AtMostOne
  <2> QED
    BY <2>5 DEF Z
<1>9. B = Behind(dev, d)
  BY DEF Allocated, Behind
<1>10. L \cap A = {} /\ (L \union A) \cap H = {}
  <2>1. \A p \in L : p[2] = "list"
    OBVIOUS
  <2>2. \A p \in A : p[2] = "array"
    OBVIOUS
  <2>3. \A p \in H : p[2] = "handle"
    OBVIOUS
  <2> HIDE DEF L, A, H
  <2> QED
    BY <2>1, <2>2, <2>3
<1>11. Holders(d) = Cardinality((L \union A) \union H) + Cardinality(M) + Cardinality(B)
                      + Cardinality({d} \cap lost)
  BY DEF Holders
<1> HIDE DEF L, A, H, M, B, x
<1>12. Cardinality(L \union A) = Cardinality(L) + Cardinality(A) /\ IsFiniteSet(L \union A)
  BY <1>4, <1>5, <1>10, ApartSum
<1>13. Cardinality((L \union A) \union H) = Cardinality(L) + Cardinality(A) + Cardinality(H)
  BY <1>6, <1>10, <1>12, ApartSum
<1>14. Direct(Now, d) = Local(x, d) + Times(d \in lost)
  BY <1>1, <1>2 DEF Direct, c, x
<1>15. /\ Times(InList(x, d)) \in Nat /\ Times(d \in x.array) \in Nat
       /\ Times(HasOpen(x, d)) \in Nat
       /\ Times(HasLeft(x, d)) \in Nat /\ Times(d \in lost) \in Nat
       /\ Cardinality(Behind(dev, d)) \in Nat
  BY BehindFinite DEF Times
<1> QED
  BY <1>4, <1>5, <1>6, <1>7, <1>8, <1>9, <1>11, <1>13, <1>14, <1>15 DEF Local

\* RefsTrue and SignalTrue.
LEMMA ReferencesAreTrue == ASSUME SInv, RInv PROVE RefsTrue
<1>1. ASSUME NEW d \in Allocated PROVE dev[d].refs = Holders(d)
  <2>1. d \in Devs /\ dev[d] # Free /\ Now.dev = dev
    BY DEF Allocated, Now
  <2>2. dev[d].refs = Direct(Now, d) + Cardinality(Behind(dev, d))
    BY <2>1 DEF RInv, Held, Books
  <2> QED
    BY <2>2, HoldersAre
<1>2. ASSUME NEW c \in Ctx PROVE Pointers(c) \subseteq Allocated
  <2> DEFINE x == ctx[c]
  <2>1. x \in Contexts /\ \A d \in Devs : PointsTo(x, d) => dev[d] # Free
    BY DEF SInv, ContextOK, RInv, Held, Now, PointsOK
  <2>2. \A d \in ToSet(x.list) \union x.array : d \in Devs /\ PointsTo(x, d)
    BY <2>1, ListSet DEF PointsTo
  <2>3. \A d \in {x.handle} \ {None} : d \in Devs /\ PointsTo(x, d)
    BY <2>1 DEF PointsTo, Contexts
  <2>4. ASSUME NEW m \in ToSet(x.msgs) PROVE m.dev \in Devs /\ PointsTo(x, m.dev)
    <3>1. x.msgs \in Seq(Messages)
      BY <2>1 DEF Contexts
    <3>2. PICK i \in DOMAIN x.msgs : m = x.msgs[i]
      BY <2>4 DEF ToSet
    <3>3. i \in 1 .. Len(x.msgs)
      BY <3>1, <3>2
    <3>4. m \in Messages
      BY <3>1, <3>2, <3>3
    <3>5. m.dev \in Devs
      BY <3>4 DEF Messages
    <3>6. PointsTo(x, m.dev)
      BY <3>2 DEF PointsTo
    <3> QED
      BY <3>5, <3>6
  <2>5. \A d \in Pointers(c) : d \in Devs /\ PointsTo(x, d)
    BY <2>2, <2>3, <2>4 DEF Pointers
  <2> QED
    BY <2>1, <2>5 DEF Allocated
<1> QED
  BY <1>1, <1>2 DEF RefsTrue

LEMMA SignalsAreTrue == ASSUME SInv PROVE SignalTrue
BY DEF SInv, ContextOK, SignalOf, SignalTrue

\* Every step.
LEMMA StepSignals ==
  ASSUME SInv, Races = {}, [Next]_vars PROVE SInv'
<1>1. CASE UNCHANGED vars
  <2>1. UNCHANGED <<plugged, uevents, walk, dev, ctx, todo>>
    BY <1>1 DEF vars
  <2> QED
    BY <2>1 DEF SInv, ContextOK, LifeOf, SignalOf, Pending, WalkInv, Walking, IsMemory
<1>2. CASE (\E a \in Addr : Plug(a) \/ Unplug(a)) \/ NetlinkStep
  BY <1>2, NetlinkSignals
<1>3. CASE \E c \in Ctx : Session(c)
  BY <1>3, SessionSignals
<1>4. Over => UNCHANGED vars
  BY DEF Over
<1> QED
  BY <1>1, <1>2, <1>3, <1>4 DEF Next

\* However devices come and go while contexts start, list, open and exit, each context has at
\* each place of its life what belongs to it, and its event pipe tells what is pending. Short
\* of the races.
THEOREM HotplugSignals == ASSUME Races = {} PROVE Spec => []SInv
<1>1. SInv /\ [Next]_vars => SInv'
  BY StepSignals
<1> QED
  BY <1>1, InitSignals, PTL DEF Spec

\* A byte is in the event pipe exactly while something is pending, so that the event loop
\* neither sleeps on work nor reads for ever.
THEOREM BytePerEvent == ASSUME Races = {} PROVE Spec => []SignalTrue
<1>1. SInv => SignalTrue
  BY SignalsAreTrue
<1> QED
  BY <1>1, HotplugSignals, PTL

\* Every device structure counts its references, wherever the list's reference has gone, and
\* no context points to one that is freed. Short of the races.
THEOREM HotplugReferences == ASSUME Races = {} PROVE Spec => [](SInv /\ RInv)
<1>1. Init => SInv /\ RInv
  BY InitSignals, InitReferences
<1>2. (SInv /\ RInv) /\ [Next]_vars => (SInv /\ RInv)'
  <2> SUFFICES ASSUME SInv, RInv, [Next]_vars PROVE SInv' /\ RInv'
    OBVIOUS
  <2>1. SInv'
    BY StepSignals
  <2>2. CASE Next
    BY <2>1, <2>2, StepReferences
  <2>3. CASE UNCHANGED vars
    <3>1. Held(After) /\ walk' = walk
      BY <2>3 DEF vars, RInv, After, Now
    <3>2. Walking' => walk'.addr \in Addr
      BY <3>1 DEF RInv, Walking
    <3>3. Held(Now)'
      BY <3>1, NowAfter
    <3> QED
      BY <2>1, <3>2, <3>3 DEF RInv
  <2> QED
    BY <2>1, <2>2, <2>3
<1> QED
  BY <1>1, <1>2, PTL DEF Spec

\* A device that is unplugged, listed, handed out, open, in a message or the parent of another
\* is freed exactly when the last one lets go of it (libusb_unref_device).
THEOREM ReferencesCounted == ASSUME Races = {} PROVE Spec => []RefsTrue
<1>1. SInv /\ RInv => RefsTrue
  BY ReferencesAreTrue
<1> QED
  BY <1>1, HotplugReferences, PTL

-----------------------------------------------------------------------------
(* Lists, inside of a step.                                                  *)

\* usbi_get_device_by_session_id finds what the context lists.
LEMMA FoundIs ==
  ASSUME NEW w, World(w), NEW c \in Ctx, NEW a
  PROVE  /\ BySession(w, c, a) = None <=> ~Lists(w, c, a)
         /\ BySession(w, c, a) # None =>
              /\ BySession(w, c, a) \in Devs /\ InList(w.ctx[c], BySession(w, c, a))
              /\ w.dev[BySession(w, c, a)].addr = a
BY BySessionIs DEF Lists

\* What the other contexts list stays where it is.
Elsewhere(w, v, c) ==
  \A e \in Ctx \ {c} :
    (\A a : Lists(v, e, a) <=> Lists(w, e, a)) /\ (OneEach(w, e) => OneEach(v, e))

\* A context with the same devices at the same addresses.
LEMMA SameLists ==
  ASSUME NEW w, NEW v, NEW e,
         \A d \in Devs : InList(v.ctx[e], d) <=> InList(w.ctx[e], d),
         \A d \in Devs : InList(w.ctx[e], d) => v.dev[d].addr = w.dev[d].addr
  PROVE  (\A a : Lists(v, e, a) <=> Lists(w, e, a)) /\ (OneEach(w, e) => OneEach(v, e))
BY DEF Lists, OneEach

LEMMA ConnectLists ==
  ASSUME NEW w, World(w), Held(w), NEW c \in Ctx, Hears(w.ctx[c]), NEW a \in Addr,
         NEW p, Hub(w.dev, a, p), \E d \in Devs : w.dev[d] = Free, ~Lists(w, c, a)
  PROVE  /\ \A b : Lists(Connect(w, c, a, p), c, b) <=> b = a \/ Lists(w, c, b)
         /\ OneEach(w, c) => OneEach(Connect(w, c, a, p), c)
         /\ Elsewhere(w, Connect(w, c, a, p), c)
<1> DEFINE v == Connect(w, c, a, p)
<1>1. PICK d0 \in Devs :
        /\ w.dev[d0] = Free
        /\ v.ctx = [w.ctx EXCEPT ![c] = Joined(w.ctx[c], d0)]
        /\ v.dev[d0] = New(c, a, p)
        /\ \A e \in Devs : w.dev[e] # Free => Kept(w.dev, v.dev, e)
  BY SMTT(30), HeldConnect
<1> HIDE DEF v
<1>2. /\ ContextOK(w.ctx[c]) /\ Once(w.ctx[c].list) /\ w.ctx[c].list \in Seq(Devs)
      /\ DOMAIN w.ctx = Ctx
      /\ \A e \in Ctx, d \in Devs : InList(w.ctx[e], d) => w.dev[d] # Free
  BY DEF World, Held, ContextOK, Contexts, PointsOK, PointsTo, Once
<1>3. v.ctx[c].list = <<d0>> \o w.ctx[c].list
  <2>1. v.ctx[c] = Joined(w.ctx[c], d0)
    BY <1>1, <1>2
  <2>2. Joined(w.ctx[c], d0).list = <<d0>> \o w.ctx[c].list
    BY <1>2, JoinedOK
  <2> QED
    BY <2>1, <2>2
<1>4. \A d : InList(v.ctx[c], d) <=> d = d0 \/ InList(w.ctx[c], d)
  <2> DEFINE l == w.ctx[c].list
             k == v.ctx[c].list
  <2>1. ~In(l, d0)
    BY <1>1, <1>2 DEF In, InList
  <2>2. \A d : InList(v.ctx[c], d) <=> In(k, d)
    BY DEF InList, In
  <2>3. \A d : InList(w.ctx[c], d) <=> In(l, d)
    BY DEF InList, In
  <2>4. l \in Seq(Devs) /\ Once(l) /\ k = <<d0>> \o l
    BY <1>2, <1>3
  <2> HIDE DEF l, k
  <2>5. \A e : In(k, e) <=> e = d0 \/ In(l, e)
    BY <2>1, <2>4, OnceFront
  <2> QED
    BY <2>2, <2>3, <2>5
<1>5. /\ v.dev[d0].addr = a
      /\ \A e \in Ctx, d \in Devs : InList(w.ctx[e], d) => v.dev[d].addr = w.dev[d].addr
  BY <1>1, <1>2 DEF New, Kept
<1>6. \A b : Lists(v, c, b) <=> b = a \/ Lists(w, c, b)
  BY <1>4, <1>5 DEF Lists
<1>7. OneEach(w, c) => OneEach(v, c)
  BY <1>4, <1>5 DEF OneEach, Lists
<1>8. ASSUME NEW e \in Ctx \ {c}
      PROVE  (\A b : Lists(v, e, b) <=> Lists(w, e, b)) /\ (OneEach(w, e) => OneEach(v, e))
  <2>1. v.ctx[e] = w.ctx[e]
    BY <1>1, <1>2
  <2> QED
    BY <1>5, <2>1, SameLists
<1> QED
  BY <1>6, <1>7, <1>8 DEF Elsewhere, v

\* linux_enumerate_device, the parent known.
LEMMA OneLists ==
  ASSUME NEW w, World(w), Held(w), NEW c \in Ctx, Hears(w.ctx[c]), NEW a \in Addr,
         \E d \in Devs : w.dev[d] = Free
  PROVE  /\ \A b : Lists(EnumerateOne(w, c, a), c, b) <=> Lists(w, c, b) \/ (b = a /\ Readable(a))
         /\ OneEach(w, c) => OneEach(EnumerateOne(w, c, a), c)
         /\ Elsewhere(w, EnumerateOne(w, c, a), c)
<1> DEFINE p == IF Parent[a] = None THEN None ELSE BySession(w, c, Parent[a])
<1>1. CASE BySession(w, c, a) # None \/ ~Readable(a)
  <2>1. EnumerateOne(w, c, a) = w
    BY <1>1 DEF EnumerateOne
  <2>2. Lists(w, c, a) \/ ~Readable(a)
    BY <1>1, FoundIs
  <2> QED
    BY <2>1, <2>2 DEF Elsewhere
<1>2. CASE ~(BySession(w, c, a) # None \/ ~Readable(a))
  <2>1. EnumerateOne(w, c, a) = Connect(w, c, a, p)
    BY <1>2 DEF EnumerateOne
  <2>2. Hub(w.dev, a, p)
    <3>1. ASSUME p # None PROVE p \in Devs /\ w.dev[p] # Free /\ w.dev[p].parent = None
      <4>1. Parent[a] \in Fixed /\ p = BySession(w, c, Parent[a])
        BY <3>1
      <4> HIDE DEF p
      <4>2. p \in Devs /\ InList(w.ctx[c], p) /\ w.dev[p].addr = Parent[a]
        BY <3>1, <4>1, FoundIs
      <4>3. w.dev[p] # Free
        BY SMTT(30), <4>2 DEF Held, PointsOK, PointsTo
      <4> QED
        BY <4>1, <4>2, <4>3 DEF Held, Books
    <3>2. a \in Fixed => p = None
      OBVIOUS
    <3> HIDE DEF p
    <3> QED
      BY <3>1, <3>2 DEF Hub
  <2>3. ~Lists(w, c, a) /\ Readable(a)
    BY <1>2, FoundIs
  <2> HIDE DEF p
  <2>4. /\ \A b : Lists(Connect(w, c, a, p), c, b) <=> b = a \/ Lists(w, c, b)
        /\ OneEach(w, c) => OneEach(Connect(w, c, a, p), c)
        /\ Elsewhere(w, Connect(w, c, a, p), c)
    BY <2>2, <2>3, ConnectLists
  <2> QED
    BY SMTT(30), <2>1, <2>3, <2>4
<1> QED
  BY <1>1, <1>2

\* linux_enumerate_device adds what is plugged, and the device it is about.
LEMMA EnumerateLists ==
  ASSUME NEW w, World(w), Held(w), NEW c \in Ctx, Hears(w.ctx[c]), NEW a \in Addr,
         plugged \subseteq Addr, Cardinality({d \in Devs : w.dev[d] = Free}) > 1
  PROVE  /\ \A b : Lists(w, c, b) => Lists(Enumerate(w, c, a), c, b)
         /\ \A b : Lists(Enumerate(w, c, a), c, b) => Lists(w, c, b) \/ Readable(b)
         /\ Readable(a) => Lists(Enumerate(w, c, a), c, a)
         /\ OneEach(w, c) => OneEach(Enumerate(w, c, a), c)
         /\ Elsewhere(w, Enumerate(w, c, a), c)
<1>1. \E d \in Devs : w.dev[d] = Free
  <2>1. IsFiniteSet({d \in Devs : w.dev[d] = Free})
    BY FS_Subset
  <2> QED
    BY <2>1, FS_EmptySet
<1>2. CASE BySession(w, c, a) = None /\ Readable(a) /\ Parent[a] # None
  <2> DEFINE h == Parent[a]
             v == EnumerateOne(w, c, h)
             u == EnumerateOne(v, c, a)
  <2>1. Enumerate(w, c, a) = u
    BY <1>2 DEF Enumerate
  <2>2. h \in Fixed /\ h \in Addr
    BY <1>2
  <2> HIDE DEF h
  <2>3. World(v) /\ Hears(v.ctx[c]) /\ Held(v) /\ \E d \in Devs : v.dev[d] = Free
    BY <1>1, <2>2, OneAlike, HeldOne, HubLeavesRoom
  <2>4. /\ \A b : Lists(v, c, b) <=> Lists(w, c, b) \/ (b = h /\ Readable(h))
        /\ OneEach(w, c) => OneEach(v, c)
        /\ Elsewhere(w, v, c)
    BY <1>1, <2>2, OneLists
  <2> HIDE DEF v
  <2>5. /\ \A b : Lists(u, c, b) <=> Lists(v, c, b) \/ (b = a /\ Readable(a))
        /\ OneEach(v, c) => OneEach(u, c)
        /\ Elsewhere(v, u, c)
    BY <2>3, OneLists
  <2> HIDE DEF u
  <2>6. Elsewhere(w, u, c)
    BY <2>4, <2>5 DEF Elsewhere
  <2> QED
    BY <2>1, <2>4, <2>5, <2>6
<1>3. CASE ~(BySession(w, c, a) = None /\ Readable(a) /\ Parent[a] # None)
  <2>1. Enumerate(w, c, a) = EnumerateOne(w, c, a)
    BY <1>3 DEF Enumerate
  <2> QED
    BY <1>1, <2>1, OneLists
<1> QED
  BY <1>2, <1>3

\* linux_device_disconnected takes the only device at its address out of the list.
LEMMA DisconnectLists ==
  ASSUME NEW w, World(w), Held(w), NEW c \in Ctx, Hears(w.ctx[c]), OneEach(w, c), NEW d0 \in Devs,
         InList(w.ctx[c], d0)
  PROVE  /\ \A b : Lists(Disconnect(w, c, d0), c, b) <=> Lists(w, c, b) /\ b # w.dev[d0].addr
         /\ OneEach(Disconnect(w, c, d0), c)
         /\ Elsewhere(w, Disconnect(w, c, d0), c)
<1> DEFINE v == Disconnect(w, c, d0)
           x == w.ctx[c]
<1>1. PICK n \in DOMAIN x.list :
        /\ x.list[n] = d0
        /\ v = [dev  |-> [w.dev EXCEPT ![d0].attached = FALSE],
                ctx  |-> [w.ctx EXCEPT ![c] = Left(x, n)],
                lost |-> IF x.ready THEN w.lost ELSE w.lost \union {d0}]
  BY DisconnectIs
<1> HIDE DEF v
<1>2. /\ v.dev = [w.dev EXCEPT ![d0].attached = FALSE]
      /\ v.ctx = [w.ctx EXCEPT ![c] = Left(x, n)]
  BY SMTT(30), <1>1
<1>3. /\ ContextOK(x) /\ Once(x.list) /\ x.list \in Seq(Devs) /\ DOMAIN w.ctx = Ctx
      /\ w.dev[d0] # Free
  BY DEF World, Held, ContextOK, Contexts, PointsOK, PointsTo, Once
<1>4. \A d \in Devs : w.dev[d] # Free => v.dev[d].addr = w.dev[d].addr
  <2>1. w.dev[d0] \in Structures
    BY <1>3, InUse DEF Held
  <2> QED
    BY <1>2, <2>1 DEF World, IsMemory, Structures
<1>5. v.ctx[c].list = RemoveAt(x.list, n)
  <2>1. v.ctx[c] = Left(x, n)
    BY <1>2, <1>3
  <2> QED
    BY <1>3, <2>1, LeftOK
<1>6. \A d : InList(v.ctx[c], d) <=> d # d0 /\ InList(x, d)
  <2> DEFINE l == x.list
             k == v.ctx[c].list
  <2>1. \A d : InList(v.ctx[c], d) <=> In(k, d)
    BY DEF InList, In
  <2>2. \A d : InList(x, d) <=> In(l, d)
    BY DEF InList, In
  <2>3. l \in Seq(Devs) /\ Once(l) /\ n \in DOMAIN l /\ k = RemoveAt(l, n) /\ l[n] = d0
    BY <1>1, <1>3, <1>5
  <2> HIDE DEF l, k
  <2>4. \A e : In(k, e) <=> e # l[n] /\ In(l, e)
    BY SMTT(30), <2>3, OnceRemove
  <2> QED
    BY <2>1, <2>2, <2>3, <2>4
<1>7. \A e \in Ctx, d \in Devs : InList(w.ctx[e], d) => v.dev[d].addr = w.dev[d].addr
  BY SMTT(30), <1>4 DEF Held, PointsOK, PointsTo
<1> HIDE DEF x
<1>8. \A b : Lists(v, c, b) <=> Lists(w, c, b) /\ b # w.dev[d0].addr
  BY <1>6, <1>7 DEF Lists, OneEach, x
<1>9. OneEach(v, c)
  BY <1>6, <1>7 DEF OneEach, x
<1>10. ASSUME NEW e \in Ctx \ {c}
       PROVE  (\A b : Lists(v, e, b) <=> Lists(w, e, b)) /\ (OneEach(w, e) => OneEach(v, e))
  <2>1. v.ctx[e] = w.ctx[e]
    BY <1>2, <1>3
  <2> QED
    BY <1>7, <2>1, SameLists
<1> QED
  BY <1>8, <1>9, <1>10 DEF Elsewhere, v

-----------------------------------------------------------------------------
(* Where the threads are.                                                    *)

\* The thread of c goes from p to q, and the other threads stay.
Moves(c, p, q) ==
  ctx[c].at = p /\ ctx'[c].at = q /\ \A e \in Ctx \ {c} : ctx'[e] = ctx[e]

\* A step of one thread.
LEMMA GoMoves ==
  ASSUME SInv, NEW c \in Ctx, NEW y, ctx' = [ctx EXCEPT ![c] = y]
  PROVE  Moves(c, ctx[c].at, y.at)
BY DEF SInv, Moves

\* The places of a context whose list has changed.
LEMMA AlikeMoves ==
  ASSUME SInv, NEW c \in Ctx, NEW v, Alike(Now, v, c), Becomes(v)
  PROVE  Moves(c, ctx[c].at, ctx[c].at)
<1>1. ctx' = [ctx EXCEPT ![c] = v.ctx[c]] /\ v.ctx[c].at = ctx[c].at
  BY DEF Alike, Now, Becomes
<1> QED
  BY <1>1, GoMoves

\* One step of linux_enumerate_device, or of usbi_connect_device.
LEMMA ScanIs ==
  ASSUME SInv, NEW c \in Ctx, Scan(c)
  PROVE  /\ Hears(ctx[c]) /\ ctx[c].at = "scanning"
         /\ \E a \in todo : /\ todo' = todo \ {a} /\ a \in Addr /\ After = Enumerate(Now, c, a)
                            /\ Alike(Now, Enumerate(Now, c, a), c)
                            /\ Becomes(Enumerate(Now, c, a))
         /\ Cardinality({d \in Devs : Now.dev[d] = Free}) > 1 /\ plugged \subseteq Addr
<1>1. PICK a \in todo : todo' = todo \ {a} /\ Becomes(Enumerate(Now, c, a))
  BY DEF Scan
<1>2. /\ World(Now) /\ Now.ctx = ctx /\ Now.dev = dev /\ a \in Addr /\ plugged \subseteq Addr
      /\ Hears(ctx[c])
  BY NowWorld DEF Now, SInv, Scan, At, Hears, ContextOK, LifeOf, Up, Starting
<1>3. Cardinality({d \in Devs : Now.dev[d] = Free}) > 1
  BY <1>2 DEF Scan, Room
<1>4. World(Enumerate(Now, c, a)) /\ Alike(Now, Enumerate(Now, c, a), c)
  BY <1>2, <1>3, EnumerateAlike
<1>5. Enumerate(Now, c, a) = After
  BY <1>1, <1>4 DEF World, Becomes, After
<1> QED
  BY <1>1, <1>2, <1>3, <1>4, <1>5 DEF Scan, At

\* libusb_get_device2 moves its own thread.
LEMMA GetMoves ==
  ASSUME SInv, NEW c \in Ctx, NEW a \in Addr, GetDevice2(c, a) PROVE Moves(c, "ready", "device2")
<1> DEFINE w == Connect(Now, c, a, None)
           u == [w EXCEPT !.ctx = [@ EXCEPT ![c].at = "device2",
                                           ![c].handle = Head(w.ctx[c].list)]]
<1>1. World(Now) /\ Now.ctx = ctx /\ Now.dev = dev /\ ctx[c].at = "ready" /\ Becomes(u)
  BY NowWorld DEF Now, GetDevice2, At
<1>2. Hears(ctx[c])
  BY <1>1 DEF SInv, ContextOK, LifeOf, Hears, Up, Starting
<1>3. \E d \in Devs : Now.dev[d] = Free
  <2>1. IsFiniteSet({d \in Devs : dev[d] = Free})
    BY FS_Subset
  <2>2. {d \in Devs : dev[d] = Free} # {}
    BY <2>1, FS_EmptySet DEF GetDevice2, Room
  <2> QED
    BY <1>1, <2>2
<1>4. World(w) /\ Alike(Now, w, c)
  BY <1>1, <1>2, <1>3, ConnectAlike
<1> HIDE DEF w
<1>5. /\ w.ctx = [ctx EXCEPT ![c] = w.ctx[c]] /\ w.ctx[c] \in Contexts /\ DOMAIN ctx = Ctx
      /\ DOMAIN w.ctx = Ctx
  BY <1>1, <1>4 DEF World, Alike, ContextOK, SInv
<1>6. ctx' = [w.ctx EXCEPT ![c].at = "device2", ![c].handle = Head(w.ctx[c].list)]
  BY <1>1, <1>4 DEF Becomes, World
<1>7. ctx'[c].at = "device2" /\ \A e \in Ctx \ {c} : ctx'[e] = ctx[e]
  BY <1>5, <1>6 DEF Contexts
<1> QED
  BY <1>1, <1>7 DEF Moves

\* Which step leads where.
LEMMA StepMoves ==
  ASSUME SInv, NEW c \in Ctx
  PROVE  /\ NewActive(c) => Moves(c, "off", "op_init")
         /\ OpInit(c) => Moves(c, "op_init", IF host = "linux" THEN "scan" ELSE "inited")
         /\ StartFails(c) => Moves(c, "op_init", "over")
         /\ ScanStart(c) => Moves(c, "scan", "scanning")
         /\ Scan(c) => Moves(c, "scanning", "scanning")
         /\ ScanDone(c) => Moves(c, "scanning", "inited")
         /\ OpInitDone(c) => Moves(c, "inited", "io_init")
         /\ MessageList(c) => Moves(c, "io_init", "io_init")
         /\ EventPipe(c) => Moves(c, "io_init", "ready")
         /\ PollStart(c) => Moves(c, "ready", "polling")
         /\ PollOn(c) => Moves(c, "polling", "polling") \/ Moves(c, "polling", "listing")
         /\ PollDone(c) => Moves(c, "polling", "listing")
         /\ GetDeviceList(c) => Moves(c, "listing", "listed")
         /\ FreeDeviceList(c) => Moves(c, "listed", "exit")
         /\ \A d \in Devs : Open(c, d) => Moves(c, "listed", "opening")
         /\ OpenNode(c) => Moves(c, "opening", "open")
         /\ OpenGone(c) => Moves(c, "opening", "gone")
         /\ OpenFails(c) => Moves(c, "gone", "exit")
         /\ \A a \in Addr : GetDevice2(c, a) => Moves(c, "ready", "device2")
         /\ NoDevice2(c) => Moves(c, "ready", "exit")
         /\ Open2(c) => Moves(c, "device2", "open")
         /\ Open2Fails(c) => Moves(c, "device2", "exit")
         /\ TakePollfds(c) \/ TakeMessage(c) => \E p \in {"open", "drain"} : Moves(c, p, p)
         /\ Close(c) => Moves(c, "open", "exit")
         /\ ExitActive(c) => Moves(c, "exit", "drain")
         /\ ExitContext(c) => Moves(c, "drain", "op_exit")
         /\ OpExit(c) => Moves(c, "op_exit", IF LastOut /\ monitor # "none" THEN "join" ELSE "over")
         /\ Join(c) => Moves(c, "join", "over")
<1> DEFINE x == ctx[c]
<1>1. x \in Contexts /\ DOMAIN ctx = Ctx
  BY DEF SInv, ContextOK
<1>2. ASSUME NEW q, Go(c, q) PROVE Moves(c, x.at, q)
  BY <1>1, <1>2 DEF Go, Moves, Contexts
<1>3. ASSUME ctx' = ctx PROVE Moves(c, x.at, x.at)
  BY <1>3 DEF Moves
<1>4. /\ OpInit(c) => Moves(c, "op_init", IF host = "linux" THEN "scan" ELSE "inited")
      /\ ScanStart(c) => Moves(c, "scan", "scanning")
      /\ ScanDone(c) => Moves(c, "scanning", "inited")
      /\ OpInitDone(c) => Moves(c, "inited", "io_init")
      /\ PollStart(c) => Moves(c, "ready", "polling")
      /\ PollDone(c) => Moves(c, "polling", "listing")
      /\ OpenGone(c) => Moves(c, "opening", "gone")
      /\ NoDevice2(c) => Moves(c, "ready", "exit")
      /\ OpExit(c) => Moves(c, "op_exit", IF LastOut /\ monitor # "none" THEN "join" ELSE "over")
      /\ Join(c) => Moves(c, "join", "over")
  <2> HIDE DEF Moves
  <2> QED
    BY <1>2 DEF OpInit, ScanStart, ScanDone, OpInitDone, PollStart, PollDone, OpenGone, NoDevice2,
       OpExit, Join, At
<1>5. PollOn(c) => Moves(c, "polling", "polling") \/ Moves(c, "polling", "listing")
  BY <1>2, <1>3 DEF PollOn, At
<1>6. /\ NewActive(c) => Moves(c, "off", "op_init")
      /\ MessageList(c) => Moves(c, "io_init", "io_init")
      /\ GetDeviceList(c) => Moves(c, "listing", "listed")
      /\ FreeDeviceList(c) => Moves(c, "listed", "exit")
      /\ \A d \in Devs : Open(c, d) => Moves(c, "listed", "opening")
  BY <1>1 DEF NewActive, MessageList, GetDeviceList, FreeDeviceList, Open, Moves, At, Contexts
<1>7. /\ OpenFails(c) => Moves(c, "gone", "exit")
      /\ Open2Fails(c) => Moves(c, "device2", "exit")
      /\ ExitActive(c) => Moves(c, "exit", "drain")
  BY <1>1 DEF OpenFails, Open2Fails, ExitActive, Moves, At, Contexts
<1>8. /\ StartFails(c) => Moves(c, "op_init", "over")
      /\ ExitContext(c) => Moves(c, "drain", "op_exit")
  <2>1. \A q : [NewContext EXCEPT !.at = q].at = q
    BY DEF NewContext
  <2> QED
    BY <1>1, <2>1 DEF StartFails, ExitContext, Moves, At
<1>9. ASSUME NEW z, z \in Contexts, ctx' = [ctx EXCEPT ![c] = FdNotification(z)]
      PROVE  Moves(c, x.at, z.at)
  <2>1. FdNotification(z).at = z.at
    BY <1>9, FdFields
  <2> QED
    BY <1>9, <2>1, GoMoves
<1>10. ASSUME NEW z, z \in Contexts, ctx' = [ctx EXCEPT ![c] = ClearIfLast(z)]
       PROVE  Moves(c, x.at, z.at)
  <2>1. ClearIfLast(z).at = z.at
    BY <1>10, ClearFields
  <2> QED
    BY <1>10, <2>1, GoMoves
<1>11. EventPipe(c) => Moves(c, "io_init", "ready")
  <2> DEFINE z == [x EXCEPT !.at = "ready", !.piped = TRUE]
  <2>1. z \in Contexts /\ z.at = "ready"
    BY <1>1 DEF Contexts, Places, Up
  <2>2. EventPipe(c) => ctx' = [ctx EXCEPT ![c] = FdNotification(z)] /\ x.at = "io_init"
    BY <1>1 DEF EventPipe, At
  <2> HIDE DEF z
  <2> QED
    BY <1>9, <2>1, <2>2
<1>12. OpenNode(c) => Moves(c, "opening", "open")
  <2> DEFINE z == [x EXCEPT !.at = "open", !.array = {}]
  <2>1. z \in Contexts /\ z.at = "open"
    BY <1>1 DEF Contexts, Places, Up
  <2>2. OpenNode(c) => ctx' = [ctx EXCEPT ![c] = FdNotification(z)] /\ x.at = "opening"
    BY <1>1 DEF OpenNode, At
  <2> HIDE DEF z
  <2> QED
    BY <1>9, <2>1, <2>2
<1>13. Open2(c) => Moves(c, "device2", "open")
  <2> DEFINE z == [x EXCEPT !.at = "open"]
  <2>1. z \in Contexts /\ z.at = "open"
    BY <1>1 DEF Contexts, Places, Up
  <2>2. Open2(c) => ctx' = [ctx EXCEPT ![c] = FdNotification(z)] /\ x.at = "device2"
    BY <1>1 DEF Open2, At
  <2> HIDE DEF z
  <2> QED
    BY <1>9, <2>1, <2>2
<1>14. Close(c) => Moves(c, "open", "exit")
  <2> DEFINE z == [x EXCEPT !.at = "exit", !.handle = None]
  <2>1. z \in Contexts /\ z.at = "exit"
    BY <1>1 DEF Contexts, Places, Up
  <2>2. Close(c) => ctx' = [ctx EXCEPT ![c] = FdNotification(z)] /\ x.at = "open"
    BY <1>1 DEF Close, At
  <2> HIDE DEF z
  <2> QED
    BY <1>9, <2>1, <2>2
<1>15. TakePollfds(c) => \E p \in {"open", "drain"} : Moves(c, p, p)
  <2> DEFINE z == [x EXCEPT !.modified = FALSE]
  <2>1. z \in Contexts /\ z.at = x.at
    BY <1>1 DEF Contexts
  <2>2. TakePollfds(c) => ctx' = [ctx EXCEPT ![c] = ClearIfLast(z)] /\ x.at \in {"open", "drain"}
    BY <1>1 DEF TakePollfds, Handling
  <2> HIDE DEF z
  <2> QED
    BY <1>10, <2>1, <2>2
<1>16. TakeMessage(c) => \E p \in {"open", "drain"} : Moves(c, p, p)
  <2> DEFINE z == [x EXCEPT !.msgs = Tail(@)]
  <2> SUFFICES ASSUME TakeMessage(c) PROVE \E p \in {"open", "drain"} : Moves(c, p, p)
    OBVIOUS
  <2>1. /\ ctx' = [ctx EXCEPT ![c] = ClearIfLast(z)] /\ x.at \in {"open", "drain"}
        /\ x.msgs # <<>>
    BY <1>1 DEF TakeMessage, Handling
  <2>2. Tail(x.msgs) \in Seq(Messages)
    BY <1>1, <2>1 DEF Contexts
  <2>3. z \in Contexts /\ z.at = x.at
    BY <1>1, <2>2 DEF Contexts
  <2> HIDE DEF z
  <2> QED
    BY <1>10, <2>1, <2>3
<1>17. Scan(c) => Moves(c, "scanning", "scanning")
  BY ScanIs, AlikeMoves
<1>18. \A a \in Addr : GetDevice2(c, a) => Moves(c, "ready", "device2")
  BY GetMoves
<1> HIDE DEF Moves
<1> QED
  BY <1>4, <1>5, <1>6, <1>7, <1>8, <1>11, <1>12, <1>13, <1>14, <1>15, <1>16, <1>17, <1>18

-----------------------------------------------------------------------------
(* Locks and the monitor.                                                    *)

Active == Starting \union (Up \ {"drain"}) \union {"io_init"}
Plain == {"ready", "listing", "listed", "opening", "device2", "open", "exit", "drain", "op_exit"}

\* Who is active is a matter of the place.
LEMMA ActiveIs ==
  /\ SInv => \A c \in Ctx : ctx[c].active <=> ctx[c].at \in Active
  /\ SInv' => \A c \in Ctx : ctx'[c].active <=> ctx'[c].at \in Active
<1>1. SInv => \A c \in Ctx : ctx[c].active <=> ctx[c].at \in Active
  BY DEF SInv, ContextOK, LifeOf, Active, Starting, Up
<1>2. SInv' => \A c \in Ctx : ctx'[c].active <=> ctx'[c].at \in Active
  BY DEF SInv, ContextOK, LifeOf, Active, Starting, Up
<1> QED
  BY <1>1, <1>2

\* Steps of a thread that concern neither a lock nor the monitor.
Plainly(c) ==
  \/ MessageList(c) \/ GetDeviceList(c) \/ FreeDeviceList(c) \/ (\E d \in Devs : Open(c, d))
  \/ OpenNode(c) \/ (\E a \in Addr : GetDevice2(c, a)) \/ NoDevice2(c) \/ Open2(c) \/ Open2Fails(c)
  \/ TakePollfds(c) \/ TakeMessage(c) \/ Close(c) \/ ExitActive(c) \/ ExitContext(c) \/ Scan(c)

Stays(x, y) ==
  /\ y.at = x.at \/ {x.at, y.at} \subseteq Plain
  /\ y.at \in Active => x.at \in Active

\* They leave the shared state alone.
LEMMA PlainIs ==
  ASSUME SInv, NEW c \in Ctx, Plainly(c)
  PROVE  /\ UNCHANGED <<host, plugged, uevents, monitor, initCount, locks, walk>>
         /\ \A e \in Ctx : Stays(ctx[e], ctx'[e])
         /\ \A e \in Ctx \ {c} : ctx'[e] = ctx[e]
<1>1. UNCHANGED <<host, plugged, uevents, monitor, initCount, locks, walk>>
  BY DEF Plainly, MessageList, GetDeviceList, FreeDeviceList, Open, OpenNode, GetDevice2,
       NoDevice2,
     Open2, Open2Fails, TakePollfds, TakeMessage, Close, ExitActive, ExitContext, Scan, world
<1>2. \E p, q : /\ Moves(c, p, q) /\ (p = q \/ {p, q} \subseteq Plain)
                /\ q \in Active => p \in Active
  BY StepMoves DEF Plainly, Plain, Active, Up, Starting
<1>3. PICK p, q : /\ Moves(c, p, q) /\ (p = q \/ {p, q} \subseteq Plain)
                  /\ q \in Active => p \in Active
  BY <1>2
<1> QED
  BY SMTT(30), <1>1, <1>3 DEF Moves, Stays

\* Nobody comes to be counted, or to hold a lock.
LEMMA StayClass ==
  ASSUME \A e \in Ctx : Stays(ctx[e], ctx'[e])
  PROVE  /\ Counted' = Counted /\ Begun' = Begun
         /\ \A e \in Ctx :
              /\ ctx'[e].at \in Starting \union {"io_init"} <=>
                   ctx[e].at \in Starting \union {"io_init"}
              /\ ctx'[e].at \in {"scan", "scanning", "inited", "join"} <=>
                   ctx[e].at \in {"scan", "scanning", "inited", "join"}
              /\ ctx'[e].at \in {"scanning", "polling", "gone"} <=>
                   ctx[e].at \in {"scanning", "polling", "gone"}
              /\ ctx'[e].at \in {"polling", "gone"} <=> ctx[e].at \in {"polling", "gone"}
              /\ ctx'[e].at = "join" <=> ctx[e].at = "join"
<1>1. \A e \in Ctx : \/ ctx'[e].at = ctx[e].at
                     \/ ctx'[e].at \in Plain /\ ctx[e].at \in Plain
  BY DEF Stays
<1>2. /\ Plain \subseteq Up \union {"io_init", "op_exit"}
      /\ Plain \cap (Starting \union {"io_init"}) = {}
      /\ Plain \cap {"scan", "scanning", "inited", "join"} = {}
      /\ Plain \cap {"scanning", "polling", "gone"} = {}
  BY DEF Plain, Up, Starting
<1>3. Counted' = Counted
  BY <1>1, <1>2 DEF Counted
<1>4. Begun' = Begun
  BY <1>1, <1>2 DEF Begun
<1> QED
  BY <1>1, <1>2, <1>3, <1>4

\* Steps that leave each thread with the locks it has.
LEMMA StayLocks ==
  ASSUME LockInv, \A e \in Ctx : Stays(ctx[e], ctx'[e]), Walking' => Walking, locks' = locks
  PROVE  LockInv'
BY StayClass DEF LockInv

\* Steps that concern the monitor no more than the locks.
LEMMA StayMonitor ==
  ASSUME SInv, SInv', MonitorInv, \A e \in Ctx : Stays(ctx[e], ctx'[e]),
         host' = host, locks' = locks, monitor' = monitor, initCount' = initCount
  PROVE  MonitorInv'
<1>1. \A e \in Ctx : ctx'[e].active => ctx[e].active
  BY ActiveIs DEF Stays
<1>2. /\ Counted' = Counted /\ Begun' = Begun
      /\ \A e \in Ctx : ctx'[e].at = "join" <=> ctx[e].at = "join"
  BY StayClass
<1> HIDE DEF Stays, Counted, Begun
<1> QED
  BY <1>1, <1>2 DEF MonitorInv

\* Staying at a place.
LEMMA StayMoves ==
  /\ \A x : Stays(x, x)
  /\ ctx' = ctx => \A e \in Ctx : Stays(ctx[e], ctx'[e])
BY DEF Stays

\* While a uevent is on its way somebody has linux_hotplug_lock.
LEMMA HotplugHeld ==
  ASSUME LockInv
  PROVE  /\ Walking => ~IsFree("hotplug") /\ \A c \in Ctx : ~At(c, "scanning")
<1>0. None \notin Ctx /\ Netlink \notin Ctx /\ None # Netlink
  BY DEF None, Netlink
<1>1. /\ Walking => \/ locks.hotplug = Netlink
                    \/ \E c \in Ctx : ctx[c].at \in {"polling", "gone"} /\ locks.hotplug = c
      /\ \A c \in Ctx : ctx[c].at = "scanning" => locks.hotplug = c
  BY DEF LockInv
<1>2. ASSUME Walking, NEW c \in Ctx, At(c, "scanning") PROVE FALSE
  BY <1>0, <1>1, <1>2 DEF At
<1> QED
  BY <1>0, <1>1, <1>2 DEF IsFree

\* WalkOn changes one context and not its place.
LEMMA WalkMoves ==
  ASSUME SInv, Races = {}, NEW c \in Ctx, WalkOn(c)
  PROVE  Moves(c, ctx[c].at, ctx[c].at)
<1>1. World(Now) /\ Now.ctx = ctx /\ Now.dev = dev /\ Hears(ctx[c])
  BY NowWorld, WalkFacts DEF Now
<1>2. CASE walk.add /\ Becomes(Enumerate(Now, c, walk.addr))
  <2>1. Cardinality({d \in Devs : Now.dev[d] = Free}) > 1 /\ plugged \subseteq Addr
    BY <1>1, <1>2, WalkFacts DEF Room, SInv
  <2>2. Alike(Now, Enumerate(Now, c, walk.addr), c)
    BY <1>1, <2>1, EnumerateAlike
  <2> QED
    BY <1>2, <2>2, AlikeMoves
<1>3. CASE /\ ~walk.add /\ BySession(Now, c, walk.addr) # None
           /\ Becomes(Disconnect(Now, c, BySession(Now, c, walk.addr)))
  <2> DEFINE d == BySession(Now, c, walk.addr)
  <2>1. d \in Devs /\ InList(Now.ctx[c], d)
    BY <1>1, <1>3, FoundIs
  <2> HIDE DEF d
  <2>2. Alike(Now, Disconnect(Now, c, d), c)
    BY <1>1, <2>1, DisconnectIs
  <2> QED
    BY <1>3, <2>2, AlikeMoves DEF d
<1>4. CASE Becomes(Now)
  BY <1>1, <1>4 DEF Becomes, Moves
<1> QED
  BY <1>2, <1>3, <1>4, WalkFacts

\* And nothing that the threads share.
LEMMA WalkStays ==
  ASSUME SInv, Races = {}, NEW c \in Ctx, WalkOn(c)
  PROVE  /\ UNCHANGED <<host, plugged, uevents, monitor, initCount, locks>>
         /\ Walking
         /\ \A e \in Ctx : Stays(ctx[e], ctx'[e])
         /\ \A e \in Ctx \ {c} : ctx'[e] = ctx[e]
         /\ ctx'[c].at = ctx[c].at
<1>1. UNCHANGED <<host, plugged, uevents, monitor, initCount, locks>> /\ Walking
  BY DEF WalkOn, world, Walking, NoWalk
<1> QED
  BY <1>1, WalkMoves DEF Moves, Stays

InitPlaces == Starting \union {"io_init"}
StopPlaces == {"scan", "scanning", "inited", "join"}
PlugPlaces == {"scanning", "polling", "gone"}

\* A lock after a thread has moved: it is taken, kept or given back.
Handed(l, m, S, c, p, q) ==
  \/ p \notin S /\ q \in S /\ l = None /\ m = c
  \/ (p \in S <=> q \in S) /\ m = l
  \/ p \in S /\ q \notin S /\ m = None

\* The lock is with whoever is at its places.
LEMMA HandedIs ==
  ASSUME NEW c \in Ctx, NEW p, NEW q, Moves(c, p, q), NEW l, NEW m, NEW S, Handed(l, m, S, c, p, q),
         \A e \in Ctx : l = e <=> ctx[e].at \in S
  PROVE  \A e \in Ctx : m = e <=> ctx'[e].at \in S
<1>0. None \notin Ctx
  BY DEF None
<1>1. ctx[c].at = p /\ ctx'[c].at = q /\ \A e \in Ctx \ {c} : ctx'[e].at = ctx[e].at
  BY DEF Moves
<1> QED
  BY <1>0, <1>1 DEF Handed

\* Whoever moves takes and gives back the locks that belong to the places.
LEMMA LocksHanded ==
  ASSUME LockInv, NEW c \in Ctx, NEW p, NEW q, Moves(c, p, q),
         NEW i, NEW s, NEW h, locks' = [init |-> i, startstop |-> s, hotplug |-> h],
         Handed(locks.init, i, InitPlaces, c, p, q),
         Handed(locks.startstop, s, StopPlaces, c, p, q),
         Handed(locks.hotplug, h, PlugPlaces, c, p, q),
         Walking' => q \in {"polling", "gone"} \/ (Walking /\ p = q)
                       \/ (Walking /\ {p, q} \cap PlugPlaces = {})
  PROVE  LockInv'
<1>1. /\ \A e \in Ctx : i = e <=> ctx'[e].at \in InitPlaces
      /\ \A e \in Ctx : s = e <=> ctx'[e].at \in StopPlaces
      /\ \A e \in Ctx : h = e <=> ctx'[e].at \in PlugPlaces
  <2>1. \A e \in Ctx : locks.init = e <=> ctx[e].at \in InitPlaces
    BY DEF LockInv, InitPlaces
  <2>2. \A e \in Ctx : locks.startstop = e <=> ctx[e].at \in StopPlaces
    BY DEF LockInv, StopPlaces
  <2>3. \A e \in Ctx : locks.hotplug = e <=> ctx[e].at \in PlugPlaces
    BY DEF LockInv, PlugPlaces
  <2> QED
    BY <2>1, <2>2, <2>3, HandedIs
<1>2. i \in Ctx \union {None} /\ s \in Ctx \union {None} /\ h \in Ctx \union {None, Netlink}
  BY DEF LockInv, Handed
<1>3. ASSUME Walking'
      PROVE  h = Netlink \/ \E e \in Ctx : ctx'[e].at \in {"polling", "gone"} /\ h = e
  <2>0. ctx[c].at = p /\ ctx'[c].at = q /\ \A e \in Ctx \ {c} : ctx'[e].at = ctx[e].at
    BY DEF Moves
  <2>1. CASE q \in {"polling", "gone"}
    BY <1>1, <2>0, <2>1 DEF PlugPlaces
  <2>2. CASE Walking /\ p = q
    BY <2>0, <2>2 DEF LockInv, Handed
  <2>3. CASE Walking /\ {p, q} \cap PlugPlaces = {}
    <3>1. h = locks.hotplug
      BY <2>3 DEF Handed
    <3>2. \/ locks.hotplug = Netlink
          \/ \E e \in Ctx : ctx[e].at \in {"polling", "gone"} /\ locks.hotplug = e
      BY <2>3 DEF LockInv
    <3>3. \A e \in Ctx : ctx[e].at \in {"polling", "gone"} => e # c
      BY <2>0, <2>3 DEF PlugPlaces
    <3> QED
      BY <2>0, <3>1, <3>2, <3>3
  <2> QED
    BY <1>3, <2>1, <2>2, <2>3
<1> QED
  BY <1>1, <1>2, <1>3 DEF LockInv, InitPlaces, StopPlaces, PlugPlaces

\* The steps of a thread with the locks.
LEMMA SessionLocks ==
  ASSUME SInv, LockInv, NEW c \in Ctx, Session(c)
  PROVE  LockInv'
<1> DEFINE L(i, s, h) == locks' = [init |-> i, startstop |-> s, hotplug |-> h]
<1>0. /\ None \notin Ctx
      /\ locks = [init |-> locks.init, startstop |-> locks.startstop, hotplug |-> locks.hotplug]
      /\ \A i : locks' = [locks EXCEPT !.init = i] => L(i, locks.startstop, locks.hotplug)
      /\ \A s : locks' = [locks EXCEPT !.startstop = s] => L(locks.init, s, locks.hotplug)
      /\ \A h : locks' = [locks EXCEPT !.hotplug = h] => L(locks.init, locks.startstop, h)
      /\ locks' = locks => L(locks.init, locks.startstop, locks.hotplug)
      /\ walk' = walk => (Walking' => Walking)
      /\ walk' = NoWalk => ~Walking'
  BY DEF None, LockInv, Walking
<1>1. /\ Walking => ~IsFree("hotplug")
      /\ \A e \in Ctx : At(e, "scanning") => ~Walking
  BY HotplugHeld
<1> USE DEF Handed, InitPlaces, StopPlaces, PlugPlaces, Starting
<1> HIDE DEF L
<1>2. CASE Plainly(c)
  <2>1. locks' = locks /\ walk' = walk /\ \A e \in Ctx : Stays(ctx[e], ctx'[e])
    BY <1>2, PlainIs
  <2>2. Walking' => Walking
    BY <1>0, <2>1
  <2> HIDE DEF Handed, InitPlaces, StopPlaces, PlugPlaces, Starting
  <2> QED
    BY <2>1, <2>2, StayLocks
<1>3. CASE NewActive(c)
  <2>1. Moves(c, "off", "op_init")
    BY <1>3, StepMoves
  <2>2. L(c, locks.startstop, locks.hotplug) /\ locks.init = None /\ ~Walking'
    BY <1>0, <1>3 DEF NewActive, IsFree
  <2> QED
    BY <2>1, <2>2, LocksHanded DEF L
<1>4. CASE OpInit(c)
  <2>1. PICK q \in {"scan", "inited"} : Moves(c, "op_init", q)
    BY <1>4, StepMoves
  <2>2. L(locks.init, c, locks.hotplug) /\ locks.startstop = None /\ (Walking' => Walking)
    BY <1>0, <1>4 DEF OpInit, IsFree
  <2> QED
    BY <2>1, <2>2, LocksHanded DEF L
<1>5. CASE StartFails(c)
  <2>1. Moves(c, "op_init", "over")
    BY <1>5, StepMoves
  <2>2. L(None, locks.startstop, locks.hotplug) /\ ~Walking'
    BY <1>0, <1>5 DEF StartFails
  <2> QED
    BY <2>1, <2>2, LocksHanded DEF L
<1>6. CASE ScanStart(c)
  <2>1. Moves(c, "scan", "scanning")
    BY <1>6, StepMoves
  <2>2. L(locks.init, locks.startstop, c) /\ locks.hotplug = None /\ ~Walking'
    BY <1>0, <1>1, <1>6 DEF ScanStart, IsFree
  <2> QED
    BY <2>1, <2>2, LocksHanded DEF L
<1>7. CASE ScanDone(c)
  <2>1. Moves(c, "scanning", "inited")
    BY <1>7, StepMoves
  <2>2. L(locks.init, locks.startstop, None) /\ ~Walking'
    BY <1>0, <1>1, <1>7 DEF ScanDone
  <2> QED
    BY <2>1, <2>2, LocksHanded DEF L
<1>8. CASE OpInitDone(c)
  <2>1. Moves(c, "inited", "io_init")
    BY <1>8, StepMoves
  <2>2. L(locks.init, None, locks.hotplug) /\ (Walking' => Walking)
    BY <1>0, <1>8 DEF OpInitDone
  <2> QED
    BY <2>1, <2>2, LocksHanded DEF L
<1>9. CASE EventPipe(c)
  <2>1. Moves(c, "io_init", "ready")
    BY <1>9, StepMoves
  <2>2. L(None, locks.startstop, locks.hotplug) /\ (Walking' => Walking)
    BY <1>0, <1>9 DEF EventPipe
  <2> QED
    BY <2>1, <2>2, LocksHanded DEF L
<1>10. CASE PollStart(c)
  <2>1. Moves(c, "ready", "polling")
    BY <1>10, StepMoves
  <2>2. L(locks.init, locks.startstop, c) /\ locks.hotplug = None
    BY <1>0, <1>10 DEF PollStart, IsFree
  <2> QED
    BY <2>1, <2>2, LocksHanded DEF L
<1>11. CASE PollOn(c)
  <2>1. CASE Head(uevents).device
    <3>1. ctx' = ctx /\ L(locks.init, locks.startstop, locks.hotplug) /\ ctx[c].at = "polling"
      BY <1>0, <1>11, <2>1 DEF PollOn, At
    <3>2. Moves(c, "polling", "polling")
      BY <3>1 DEF Moves
    <3> QED
      BY <3>1, <3>2, LocksHanded DEF L
  <2>2. CASE ~Head(uevents).device
    <3>1. Go(c, "listing") /\ L(locks.init, locks.startstop, None) /\ ctx[c].at = "polling"
      BY <1>0, <1>11, <2>2 DEF PollOn, At
    <3>2. Moves(c, "polling", "listing")
      BY <3>1 DEF Moves, Go, SInv, ContextOK, Contexts
    <3>3. ~Walking'
      BY <1>0, <1>11, <2>2 DEF PollOn, WalkFrom
    <3> QED
      BY <3>1, <3>2, <3>3, LocksHanded DEF L
  <2> QED
    BY <2>1, <2>2
<1>12. CASE PollDone(c)
  <2>1. Moves(c, "polling", "listing")
    BY <1>12, StepMoves
  <2>2. L(locks.init, locks.startstop, None) /\ ~Walking'
    BY <1>0, <1>12 DEF PollDone
  <2> QED
    BY <2>1, <2>2, LocksHanded DEF L
<1>13. CASE OpenGone(c)
  <2>1. Moves(c, "opening", "gone")
    BY <1>13, StepMoves
  <2>2. L(locks.init, locks.startstop, c) /\ locks.hotplug = None
    BY <1>0, <1>13 DEF OpenGone, IsFree
  <2> QED
    BY <2>1, <2>2, LocksHanded DEF L
<1>14. CASE OpenFails(c)
  <2>1. Moves(c, "gone", "exit")
    BY <1>14, StepMoves
  <2>2. L(locks.init, locks.startstop, None) /\ ~Walking'
    BY <1>0, <1>14 DEF OpenFails
  <2> QED
    BY <2>1, <2>2, LocksHanded DEF L
<1>15. CASE OpExit(c)
  <2>1. CASE LastOut /\ monitor # "none"
    <3>1. Moves(c, "op_exit", "join")
      BY <1>15, <2>1, StepMoves
    <3>2. L(locks.init, c, locks.hotplug) /\ locks.startstop = None /\ (Walking' => Walking)
      BY <1>0, <1>15, <2>1 DEF OpExit, IsFree
    <3> QED
      BY <3>1, <3>2, LocksHanded DEF L
  <2>2. CASE ~(LastOut /\ monitor # "none")
    <3>1. Moves(c, "op_exit", "over")
      BY <1>15, <2>2, StepMoves
    <3>2. L(locks.init, locks.startstop, locks.hotplug) /\ (Walking' => Walking)
      BY <1>0, <1>15, <2>2 DEF OpExit
    <3> QED
      BY <3>1, <3>2, LocksHanded DEF L
  <2> QED
    BY <2>1, <2>2
<1>16. CASE Join(c)
  <2>1. Moves(c, "join", "over")
    BY <1>16, StepMoves
  <2>2. L(locks.init, None, locks.hotplug) /\ (Walking' => Walking)
    BY <1>0, <1>16 DEF Join
  <2> QED
    BY <2>1, <2>2, LocksHanded DEF L
<1> QED
  BY <1>2, <1>3, <1>4, <1>5, <1>6, <1>7, <1>8, <1>9, <1>10, <1>11, <1>12, <1>13, <1>14, <1>15,
       <1>16
     DEF Session, Plainly

\* The kernel and the netlink thread with the lock.
LEMMA NetlinkLocks ==
  ASSUME SInv, LockInv, Races = {}, (\E a \in Addr : Plug(a) \/ Unplug(a)) \/ NetlinkStep
  PROVE  LockInv'
<1>0. /\ None \notin Ctx /\ Netlink \notin Ctx /\ None # Netlink
      /\ locks = [init |-> locks.init, startstop |-> locks.startstop, hotplug |-> locks.hotplug]
      /\ walk' = walk => (Walking' => Walking)
      /\ walk' = NoWalk => ~Walking'
  BY DEF None, Netlink, LockInv, Walking
<1>1. CASE (\E a \in Addr : Plug(a) \/ Unplug(a)) \/ WalkNobody \/ NetlinkEnds
  <2>1. locks' = locks /\ ctx' = ctx /\ (Walking' => Walking)
    BY <1>0, <1>1 DEF Plug, Unplug, WalkNobody, NetlinkEnds
  <2> QED
    BY <2>1, StayMoves, StayLocks
<1>2. ASSUME NEW c \in Ctx, WalkOn(c) PROVE LockInv'
  BY <1>2, WalkStays, StayLocks
<1>3. CASE NetlinkReads
  <2>1. /\ locks.hotplug = None /\ ctx' = ctx
        /\ locks' = [init |-> locks.init, startstop |-> locks.startstop, hotplug |-> Netlink]
    BY <1>0, <1>3 DEF NetlinkReads, IsFree
  <2> QED
    BY <1>0, <2>1 DEF LockInv
<1>4. CASE NetlinkDone
  <2>1. /\ locks.hotplug = Netlink /\ ctx' = ctx /\ ~Walking'
        /\ locks' = [init |-> locks.init, startstop |-> locks.startstop, hotplug |-> None]
    BY <1>0, <1>4 DEF NetlinkDone
  <2> QED
    BY <1>0, <2>1 DEF LockInv
<1> QED
  BY <1>1, <1>2, <1>3, <1>4 DEF NetlinkStep

CountPlaces == Up \union {"io_init", "op_exit"}
BeginPlaces == {"scan", "scanning", "inited"}

\* How those counted, and those about to be, change when a thread moves.
LEMMA CountMoves ==
  ASSUME NEW c \in Ctx, NEW p, NEW q, Moves(c, p, q)
  PROVE  /\ Counted' = IF q \in CountPlaces THEN Counted \union {c} ELSE Counted \ {c}
         /\ Begun' = IF q \in BeginPlaces THEN Begun \union {c} ELSE Begun \ {c}
         /\ c \in Counted <=> p \in CountPlaces
         /\ c \in Begun <=> p \in BeginPlaces
<1>1. ctx[c].at = p /\ ctx'[c].at = q /\ \A e \in Ctx \ {c} : ctx'[e].at = ctx[e].at
  BY DEF Moves
<1>2. /\ Counted = {e \in Ctx : ctx[e].at \in CountPlaces}
      /\ Begun = {e \in Ctx : ctx[e].at \in BeginPlaces}
  BY DEF Counted, Begun, CountPlaces, BeginPlaces
<1>3. /\ Counted' = {e \in Ctx : ctx'[e].at \in CountPlaces}
      /\ Begun' = {e \in Ctx : ctx'[e].at \in BeginPlaces}
  BY DEF Counted, Begun, CountPlaces, BeginPlaces
<1> QED
  BY <1>1, <1>2, <1>3

\* While somebody starts or handles devices the monitor is not being stopped.
LEMMA NotStopping ==
  ASSUME SInv, MonitorInv, NEW c \in Ctx, ctx[c].at \in Active
  PROVE  monitor \notin {"stopping", "ended"}
BY ActiveIs DEF MonitorInv

\* The monitor goes on as it was while threads start and stop to be counted.
LEMMA MonitorGoesOn ==
  ASSUME SInv, SInv', LockInv, LockInv', MonitorInv, host' = host, monitor' = monitor,
         locks'.hotplug = Netlink => locks.hotplug = Netlink,
         NEW c \in Ctx, NEW p, NEW q, Moves(c, p, q), 
         monitor \in {"stopping", "ended"} => q \notin Active /\ p # "join",
         \/ (p \in CountPlaces <=> q \in CountPlaces) /\ initCount' = initCount
         \/ p \notin CountPlaces /\ q \in CountPlaces /\ initCount' = initCount + 1
         \/ p \in CountPlaces /\ q \notin CountPlaces /\ initCount' = initCount - 1,
         \/ (p \in CountPlaces \union BeginPlaces <=> q \in CountPlaces \union BeginPlaces)
         \/ q \in BeginPlaces /\ (host = "linux" => monitor = "running")
         \/ q = "over" /\ (monitor = "running" => initCount' # 0)
  PROVE  MonitorInv'
<1>1. /\ Counted' = IF q \in CountPlaces THEN Counted \union {c} ELSE Counted \ {c}
      /\ Begun' = IF q \in BeginPlaces THEN Begun \union {c} ELSE Begun \ {c}
      /\ c \in Counted <=> p \in CountPlaces
      /\ c \in Begun <=> p \in BeginPlaces
  BY CountMoves
<1>2. IsFiniteSet(Counted) /\ initCount = Cardinality(Counted) /\ initCount \in Nat
  BY FS_CardinalityType DEF MonitorInv
<1>3. IsFiniteSet(Counted') /\ initCount' = Cardinality(Counted')
  <2>1. CASE (p \in CountPlaces <=> q \in CountPlaces) /\ initCount' = initCount
    <3>1. Counted' = Counted
      BY <1>1, <2>1
    <3> QED
      BY <1>2, <2>1, <3>1
  <2>2. CASE p \notin CountPlaces /\ q \in CountPlaces /\ initCount' = initCount + 1
    <3>1. Counted' = Counted \union {c} /\ c \notin Counted
      BY <1>1, <2>2
    <3> QED
      BY <1>2, <2>2, <3>1, FS_AddElement
  <2>3. CASE p \in CountPlaces /\ q \notin CountPlaces /\ initCount' = initCount - 1
    <3>1. Counted' = Counted \ {c} /\ c \in Counted
      BY <1>1, <2>3
    <3> QED
      BY <1>2, <2>3, <3>1, FS_RemoveElement
  <2> QED
    BY <2>1, <2>2, <2>3
<1>4. ASSUME monitor \in {"stopping", "ended"}
      PROVE  (\A e \in Ctx : ~ctx'[e].active) /\ (\E e \in Ctx : ctx'[e].at = "join")
  <2>1. \A e \in Ctx : ~ctx[e].active
    BY <1>4 DEF MonitorInv
  <2>2. PICK e \in Ctx : ctx[e].at = "join"
    BY <1>4 DEF MonitorInv
  <2>3. ctx'[e].at = "join"
    BY <1>4, <2>2 DEF Moves
  <2> QED
    BY <1>4, <2>1, <2>3, ActiveIs DEF Moves
<1>5. (monitor = "running" => Counted' \union Begun' # {})
  <2> SUFFICES ASSUME monitor = "running" PROVE Counted' \union Begun' # {}
    OBVIOUS
  <2>1. Counted \union Begun # {}
    BY DEF MonitorInv
  <2>2. CASE p \in CountPlaces \union BeginPlaces <=> q \in CountPlaces \union BeginPlaces
    BY <1>1, <2>1, <2>2
  <2>3. CASE q \in BeginPlaces
    BY <1>1, <2>3
  <2>4. CASE initCount' # 0
    BY <1>3, <2>4, FS_EmptySet
  <2> QED
    BY <2>2, <2>3, <2>4
<1>6. host = "linux" /\ Counted' \union Begun' # {} => monitor = "running"
  <2>1. host = "linux" /\ Counted \union Begun # {} => monitor = "running"
    BY DEF MonitorInv
  <2>2. "over" \notin CountPlaces \union BeginPlaces
    BY DEF CountPlaces, BeginPlaces, Up
  <2> QED
    BY <1>1, <2>1, <2>2
<1> HIDE DEF Counted, Begun
<1> QED
  BY <1>3, <1>4, <1>5, <1>6 DEF MonitorInv

\* The steps of a thread and the monitor.
LEMMA SessionMonitor ==
  ASSUME SInv, SInv', LockInv, LockInv', MonitorInv, Races = {}, NEW c \in Ctx, Session(c)
  PROVE  MonitorInv'
<1>0. /\ Netlink \notin Ctx /\ None # Netlink /\ None \notin Ctx
      /\ \A k \in {"init", "startstop"} : \A v :
           locks' = [locks EXCEPT ![k] = v] => locks'.hotplug = locks.hotplug
      /\ locks' = locks => locks'.hotplug = locks.hotplug
      /\ \A v \in Ctx \union {None} :
           locks' = [locks EXCEPT !.hotplug = v] => locks'.hotplug # Netlink
  BY DEF None, Netlink, LockInv
<1> DEFINE H == locks'.hotplug = Netlink => locks.hotplug = Netlink
<1>01. \A p : ctx[c].at = p /\ p \in Active => monitor \notin {"stopping", "ended"}
  BY NotStopping
<1>02. \A p, q : Moves(c, p, q) => ctx[c].at = p
  BY DEF Moves
<1> USE DEF CountPlaces, BeginPlaces, Up, Active, Starting
<1>1. CASE Plainly(c)
  <2>1. /\ UNCHANGED <<host, monitor, initCount, locks>>
        /\ \A e \in Ctx : Stays(ctx[e], ctx'[e])
    BY <1>1, PlainIs
  <2> HIDE DEF CountPlaces, BeginPlaces, Up, Active, Starting
  <2> QED
    BY <2>1, StayMonitor
<1>2. CASE NewActive(c)
  <2>1. /\ Moves(c, "off", "op_init") /\ H /\ UNCHANGED <<host, monitor, initCount>>
        /\ monitor \notin {"stopping", "ended"}
    BY <1>0, <1>2, StepMoves DEF NewActive, world
  <2> HIDE DEF H
  <2> QED
    BY <2>1, MonitorGoesOn DEF H
<1>3. CASE OpInit(c)
  <2>1. PICK q \in {"scan", "inited"} : Moves(c, "op_init", q)
    BY <1>3, StepMoves
  <2>2. H /\ UNCHANGED <<host, initCount>> /\ monitor \notin {"stopping", "ended"}
    BY <1>0, <1>01, <1>02, <1>3, <2>1 DEF OpInit, world
  <2>3. CASE ~Started
    <3>1. monitor' = monitor
      BY <1>3, <2>3 DEF OpInit
    <3>2. host = "linux" => monitor = "running"
      <4>1. host = "linux" => initCount # 0
        BY <2>3 DEF Started
      <4>2. initCount # 0 => Counted # {}
        BY FS_EmptySet DEF MonitorInv
      <4> QED
        BY <4>1, <4>2 DEF MonitorInv
    <3> HIDE DEF H
    <3> QED
      BY <2>1, <2>2, <3>1, <3>2, MonitorGoesOn DEF H
  <2>4. CASE Started
    <3>1. monitor' = "running"
      BY <1>3, <2>4 DEF OpInit
    <3>2. Counted' = Counted /\ c \in Begun'
      <4>1. Counted' = Counted \ {c} /\ c \notin Counted /\ Begun' = Begun \union {c}
        BY <2>1, CountMoves
      <4> QED
        BY <4>1
    <3>3. IsFiniteSet(Counted') /\ initCount' = Cardinality(Counted')
      BY <2>2, <3>2 DEF MonitorInv
    <3> HIDE DEF Counted, Begun
    <3> QED
      BY <3>1, <3>2, <3>3 DEF MonitorInv
  <2> QED
    BY <2>3, <2>4
<1>4. CASE StartFails(c)
  <2>1. Moves(c, "op_init", "over") /\ H /\ UNCHANGED <<host, monitor, initCount>>
    BY <1>0, <1>4, StepMoves DEF StartFails, world
  <2> HIDE DEF H
  <2> QED
    BY <1>01, <1>02, <2>1, MonitorGoesOn DEF H
<1>5. CASE ScanStart(c)
  <2>1. Moves(c, "scan", "scanning") /\ H /\ UNCHANGED <<host, monitor, initCount>>
    BY <1>0, <1>5, StepMoves DEF ScanStart, world
  <2> HIDE DEF H
  <2> QED
    BY <1>01, <1>02, <2>1, MonitorGoesOn DEF H
<1>6. CASE ScanDone(c)
  <2>1. Moves(c, "scanning", "inited") /\ H /\ UNCHANGED <<host, monitor, initCount>>
    BY <1>0, <1>6, StepMoves DEF ScanDone, world
  <2> HIDE DEF H
  <2> QED
    BY <1>01, <1>02, <2>1, MonitorGoesOn DEF H
<1>7. CASE OpInitDone(c)
  <2>1. /\ Moves(c, "inited", "io_init") /\ H /\ UNCHANGED <<host, monitor>>
        /\ initCount' = initCount + 1
    BY <1>0, <1>7, StepMoves DEF OpInitDone, world
  <2> HIDE DEF H
  <2> QED
    BY <1>01, <1>02, <2>1, MonitorGoesOn DEF H
<1>8. CASE EventPipe(c)
  <2>1. Moves(c, "io_init", "ready") /\ H /\ UNCHANGED <<host, monitor, initCount>>
    BY <1>0, <1>8, StepMoves DEF EventPipe, world
  <2> HIDE DEF H
  <2> QED
    BY <1>01, <1>02, <2>1, MonitorGoesOn DEF H
<1>9. CASE PollStart(c)
  <2>1. Moves(c, "ready", "polling") /\ H /\ UNCHANGED <<host, monitor, initCount>>
    BY <1>0, <1>9, StepMoves DEF PollStart, world
  <2> HIDE DEF H
  <2> QED
    BY <1>01, <1>02, <2>1, MonitorGoesOn DEF H
<1>10. CASE PollOn(c)
  <2>1. PICK q \in {"polling", "listing"} : Moves(c, "polling", q)
    BY <1>10, StepMoves
  <2>2. H /\ UNCHANGED <<host, monitor, initCount>>
    BY <1>0, <1>10 DEF PollOn, world
  <2> HIDE DEF H
  <2> QED
    BY <1>01, <1>02, <2>1, <2>2, MonitorGoesOn DEF H
<1>11. CASE PollDone(c)
  <2>1. Moves(c, "polling", "listing") /\ H /\ UNCHANGED <<host, monitor, initCount>>
    BY <1>0, <1>11, StepMoves DEF PollDone, world
  <2> HIDE DEF H
  <2> QED
    BY <1>01, <1>02, <2>1, MonitorGoesOn DEF H
<1>12. CASE OpenGone(c)
  <2>1. Moves(c, "opening", "gone") /\ H /\ UNCHANGED <<host, monitor, initCount>>
    BY <1>0, <1>12, StepMoves DEF OpenGone, world
  <2> HIDE DEF H
  <2> QED
    BY <1>01, <1>02, <2>1, MonitorGoesOn DEF H
<1>13. CASE OpenFails(c)
  <2>1. Moves(c, "gone", "exit") /\ H /\ UNCHANGED <<host, monitor, initCount>>
    BY <1>0, <1>13, StepMoves DEF OpenFails, world
  <2> HIDE DEF H
  <2> QED
    BY <1>01, <1>02, <2>1, MonitorGoesOn DEF H
<1>14. CASE OpExit(c)
  <2>0. IsFiniteSet(Counted) /\ initCount = Cardinality(Counted) /\ initCount \in Nat
    BY FS_CardinalityType DEF MonitorInv
  <2>1. UNCHANGED host /\ initCount' = initCount - 1 /\ H
    BY <1>0, <1>14 DEF OpExit, world
  <2>2. CASE ~(LastOut /\ monitor # "none")
    <3>1. Moves(c, "op_exit", "over") /\ monitor' = monitor
      BY <1>14, <2>2, StepMoves DEF OpExit
    <3>2. monitor = "running" => initCount' # 0
      BY <2>0, <2>1, <2>2 DEF LastOut
    <3>3. monitor \in {"stopping", "ended"} => FALSE
      <4>1. \A e \in Ctx : ctx[e].at # "join"
        BY <1>0, <1>14 DEF OpExit, IsFree, LockInv
      <4> QED
        BY <4>1 DEF MonitorInv
    <3> HIDE DEF H
    <3> QED
      BY <2>1, <3>1, <3>2, <3>3, MonitorGoesOn DEF H
  <2>3. CASE LastOut /\ monitor # "none"
    <3>1. Moves(c, "op_exit", "join") /\ monitor' = "stopping"
      BY <1>14, <2>3, StepMoves DEF OpExit
    <3>2. Counted' = Counted \ {c} /\ c \in Counted /\ Begun' = Begun \ {c}
      BY <3>1, CountMoves
    <3>3. Cardinality(Counted') = 0 /\ IsFiniteSet(Counted')
      <4> HIDE DEF Counted
      <4>1. IsFiniteSet(Counted \ {c}) /\ Cardinality(Counted \ {c}) = Cardinality(Counted) - 1
        BY <2>0, <3>2, FS_RemoveElement
      <4>2. Cardinality(Counted) = 1
        BY <2>0, <2>3 DEF LastOut
      <4> QED
        BY <3>2, <4>1, <4>2
    <3>4. Counted' = {}
      BY <3>3, FS_EmptySet
    <3>5. Begun = {}
      BY <1>0, <1>14 DEF OpExit, IsFree, LockInv, Begun
    <3>6. \A e \in Ctx : ctx[e].at # "op_init"
      BY <1>14, <2>3 DEF OpExit, At
    <3>7. ASSUME NEW e \in Ctx PROVE ~ctx'[e].active
      <4>1. ctx'[e].at \notin CountPlaces /\ ctx'[e].at \notin BeginPlaces
        BY <3>2, <3>4, <3>5 DEF Counted, Begun
      <4>2. ctx'[e].at # "op_init"
        BY <3>1, <3>6 DEF Moves
      <4> QED
        BY <4>1, <4>2, ActiveIs
    <3>8. ctx'[c].at = "join"
      BY <3>1 DEF Moves
    <3>9. initCount' = Cardinality(Counted')
      BY <2>0, <2>1, <2>3, <3>3 DEF LastOut
    <3> HIDE DEF Counted, Begun
    <3> QED
      BY <3>1, <3>2, <3>3, <3>4, <3>5, <3>7, <3>8, <3>9 DEF MonitorInv
  <2> QED
    BY <2>2, <2>3
<1>15. CASE Join(c)
  <2>1. /\ Moves(c, "join", "over") /\ H /\ UNCHANGED <<host, initCount>>
        /\ monitor = "ended" /\ monitor' = "none"
    BY <1>0, <1>15, StepMoves DEF Join, world
  <2>2. Counted' = Counted /\ Begun' = Begun
    <3>1. Counted' = Counted \ {c} /\ c \notin Counted /\ Begun' = Begun \ {c} /\ c \notin Begun
      BY <2>1, CountMoves
    <3> QED
      BY <3>1
  <2>3. locks.hotplug # Netlink
    BY <2>1 DEF MonitorInv
  <2> HIDE DEF Counted, Begun
  <2> QED
    BY <2>1, <2>2, <2>3 DEF MonitorInv
<1> HIDE DEF CountPlaces, BeginPlaces, Up, Active, Starting
<1> QED
  BY <1>1, <1>2, <1>3, <1>4, <1>5, <1>6, <1>7, <1>8, <1>9, <1>10, <1>11, <1>12, <1>13, <1>14,
       <1>15
     DEF Session, Plainly

\* The kernel, the netlink thread and the monitor.
LEMMA NetlinkMonitor ==
  ASSUME SInv, SInv', LockInv, MonitorInv, Races = {},
         (\E a \in Addr : Plug(a) \/ Unplug(a)) \/ NetlinkStep
  PROVE  MonitorInv'
<1>0. /\ Netlink \notin Ctx /\ None # Netlink /\ None \notin Ctx
      /\ \A v : locks' = [locks EXCEPT !.hotplug = v] => locks'.hotplug = v
  BY DEF None, Netlink, LockInv
<1>1. CASE (\E a \in Addr : Plug(a) \/ Unplug(a)) \/ WalkNobody
  <2>1. UNCHANGED <<host, locks, monitor, initCount, ctx>>
    BY <1>1 DEF Plug, Unplug, WalkNobody, world
  <2> QED
    BY <2>1, StayMoves, StayMonitor
<1>2. ASSUME NEW c \in Ctx, WalkOn(c) PROVE MonitorInv'
  BY <1>2, WalkStays, StayMonitor
<1>3. CASE NetlinkReads \/ NetlinkDone
  <2>1. /\ UNCHANGED <<host, monitor, initCount, ctx>>
        /\ locks'.hotplug = Netlink => monitor \in {"running", "stopping"}
    BY <1>0, <1>3 DEF NetlinkReads, NetlinkDone, world
  <2>2. Counted' = Counted /\ Begun' = Begun
    BY <2>1 DEF Counted, Begun
  <2> HIDE DEF Counted, Begun
  <2> QED
    BY <2>1, <2>2 DEF MonitorInv
<1>4. CASE NetlinkEnds
  <2>1. /\ UNCHANGED <<host, initCount, ctx, locks>> /\ monitor = "stopping" /\ monitor' = "ended"
        /\ locks.hotplug # Netlink
    BY <1>4 DEF NetlinkEnds, world
  <2>2. Counted' = Counted /\ Begun' = Begun
    BY <2>1 DEF Counted, Begun
  <2> HIDE DEF Counted, Begun
  <2> QED
    BY <2>1, <2>2 DEF MonitorInv
<1> QED
  BY <1>1, <1>2, <1>3, <1>4 DEF NetlinkStep

-----------------------------------------------------------------------------
(* Uevents that have not been read.                                          *)

\* The last uevent of each device that is still to be read tells whether it is plugged.
LastTrue(s, P) ==
  \A a \in Addr, i \in DOMAIN s :
    /\ s[i].device /\ s[i].addr = a
    /\ \A j \in DOMAIN s : s[j].device /\ s[j].addr = a => j <= i
    => (s[i].add <=> a \in P)

\* No uevent about a device at a.
Silent(s, a) == \A i \in DOMAIN s : ~(s[i].device /\ s[i].addr = a)

\* The invariant and Quiet in these words.
LEMMA QueueIs ==
  /\ QueueInv <=> (monitor = "running" =>
       LastTrue(uevents, plugged)
       /\ (Walking /\ Silent(uevents, walk.addr) => (walk.add <=> walk.addr \in plugged)))
  /\ QueueInv' <=> (monitor' = "running" =>
       LastTrue(uevents', plugged')
       /\ (Walking' /\ Silent(uevents', walk'.addr) => (walk'.add <=> walk'.addr \in plugged')))
  /\ \A c, a : Quiet(c, a) <=> Silent(uevents, a) /\ ~(c \in walk.todo /\ walk.addr = a)
  /\ \A c, a : Quiet(c, a)' <=> Silent(uevents', a) /\ ~(c \in walk'.todo /\ walk'.addr = a)
<1>1. \A a : Unread(a) = {} <=> Silent(uevents, a)
  BY DEF Unread, Silent
<1>2. \A a : Unread(a)' = {} <=> Silent(uevents', a)
  BY DEF Unread, Silent
<1>3. LastTrue(uevents, plugged) <=>
        \A a \in Addr, i \in DOMAIN uevents :
          i \in Unread(a) /\ (\A j \in Unread(a) : j <= i) => (uevents[i].add <=> a \in plugged)
  BY DEF LastTrue, Unread
<1>4. LastTrue(uevents', plugged') <=>
        \A a \in Addr, i \in DOMAIN uevents' :
          i \in Unread(a)' /\ (\A j \in Unread(a)' : j <= i) => (uevents'[i].add <=> a \in plugged')
  BY DEF LastTrue, Unread
<1> HIDE DEF Unread, LastTrue, Silent
<1>5. QueueInv <=> (monitor = "running" =>
        LastTrue(uevents, plugged)
        /\ (Walking /\ Silent(uevents, walk.addr) => (walk.add <=> walk.addr \in plugged)))
  BY <1>1, <1>3 DEF QueueInv
<1>6. QueueInv' <=> (monitor' = "running" =>
        LastTrue(uevents', plugged')
        /\ (Walking' /\ Silent(uevents', walk'.addr) => (walk'.add <=> walk'.addr \in plugged')))
  BY <1>2, <1>4 DEF QueueInv
<1>7. \A c, a : Quiet(c, a) <=> Silent(uevents, a) /\ ~(c \in walk.todo /\ walk.addr = a)
  BY <1>1 DEF Quiet
<1>8. \A c, a : Quiet(c, a)' <=> Silent(uevents', a) /\ ~(c \in walk'.todo /\ walk'.addr = a)
  BY <1>2 DEF Quiet
<1> QED
  BY <1>5, <1>6, <1>7, <1>8

\* One uevent is read.
LEMMA TailQueue ==
  ASSUME NEW s \in Seq(Uevents), s # <<>>, NEW P, LastTrue(s, P), NEW k, k = Tail(s)
  PROVE  /\ LastTrue(k, P)
         /\ Head(s).device /\ Silent(k, Head(s).addr) => (Head(s).add <=> Head(s).addr \in P)
         /\ \A a : Silent(k, a) => Silent(s, a) \/ (Head(s).device /\ Head(s).addr = a)
<1>1. /\ 1 \in DOMAIN s /\ s[1] = Head(s) /\ DOMAIN k \subseteq Nat /\ DOMAIN s \subseteq Nat
      /\ \A i \in DOMAIN k : i + 1 \in DOMAIN s /\ k[i] = s[i + 1]
      /\ \A i \in DOMAIN s : i = 1 \/ (i - 1 \in DOMAIN k /\ s[i] = k[i - 1])
  <2>1. DOMAIN s \subseteq Nat
    OBVIOUS
  <2> QED
    BY SMTT(30), <2>1, TailIs
<1>2. Head(s) \in Uevents
  OBVIOUS
<1>3. ASSUME NEW a \in Addr, NEW i \in DOMAIN k, k[i].device, k[i].addr = a,
             \A j \in DOMAIN k : k[j].device /\ k[j].addr = a => j <= i
      PROVE  k[i].add <=> a \in P
  <2>1. i + 1 \in DOMAIN s /\ s[i + 1] = k[i] /\ i \in Nat
    BY <1>1
  <2>2. ASSUME NEW j \in DOMAIN s, s[j].device, s[j].addr = a PROVE j <= i + 1
    <3>1. CASE j = 1
      BY <2>1, <3>1
    <3>2. CASE j # 1
      <4>1. j - 1 \in DOMAIN k /\ k[j - 1] = s[j] /\ j \in Nat
        BY <1>1, <3>2
      <4>2. j - 1 <= i
        BY <1>3, <2>2, <4>1
      <4> QED
        BY <2>1, <4>1, <4>2
    <3> QED
      BY <3>1, <3>2
  <2>3. s[i + 1].add <=> a \in P
    BY <1>3, <2>1, <2>2 DEF LastTrue
  <2> QED
    BY <2>1, <2>3
<1>4. ASSUME Head(s).device, Silent(k, Head(s).addr) PROVE Head(s).add <=> Head(s).addr \in P
  <2>1. \A j \in DOMAIN s : s[j].device /\ s[j].addr = s[1].addr => j <= 1
    <3> TAKE j \in DOMAIN s
    <3> HAVE s[j].device /\ s[j].addr = s[1].addr
    <3>1. ASSUME j # 1 PROVE FALSE
      <4>1. j - 1 \in DOMAIN k /\ k[j - 1].device /\ k[j - 1].addr = Head(s).addr
        BY <1>1, <3>1
      <4> QED
        BY <1>4, <4>1 DEF Silent
    <3> QED
      BY <1>1, <3>1
  <2>2. s[1].addr \in Addr /\ s[1].device
    BY <1>1, <1>2, <1>4 DEF Uevents
  <2> QED
    BY <1>1, <2>1, <2>2 DEF LastTrue
<1>5. ASSUME NEW a, Silent(k, a) PROVE Silent(s, a) \/ (Head(s).device /\ Head(s).addr = a)
  <2>1. ASSUME NEW i \in DOMAIN s, i # 1 PROVE ~(s[i].device /\ s[i].addr = a)
    <3>1. i - 1 \in DOMAIN k /\ s[i] = k[i - 1]
      BY <1>1, <2>1
    <3> QED
      BY <1>5, <3>1 DEF Silent
  <2> QED
    BY <1>1, <2>1 DEF Silent
<1> QED
  BY <1>3, <1>4, <1>5 DEF LastTrue

\* The kernel adds the two of a device.
LEMMA GrownQueue ==
  ASSUME NEW s \in Seq(Uevents), NEW P, LastTrue(s, P), NEW a \in Addr, NEW b \in BOOLEAN, NEW k,
         k = s \o <<Uevent(b, a), Other(b, a)>> \/ k = s \o <<Other(b, a), Uevent(b, a)>>,
         NEW Q, a \in Q <=> b, \A e \in Addr \ {a} : e \in Q <=> e \in P
  PROVE  /\ LastTrue(k, Q) /\ ~Silent(k, a)
         /\ \A e : Silent(k, e) => Silent(s, e) /\ e # a
<1> DEFINE n == Len(s)
<1>1. /\ n \in Nat /\ DOMAIN s = 1 .. n /\ DOMAIN k = 1 .. n + 2
      /\ \A i \in 1 .. n : k[i] = s[i]
      /\ {k[n + 1], k[n + 2]} = {Uevent(b, a), Other(b, a)}
      /\ \E m \in {n + 1, n + 2} :
           k[m] = Uevent(b, a) /\ \A i \in {n + 1, n + 2} : i # m => k[i] = Other(b, a)
  OBVIOUS
<1> HIDE DEF n
<1>2. PICK m \in {n + 1, n + 2} :
        k[m] = Uevent(b, a) /\ \A i \in {n + 1, n + 2} : i # m => k[i] = Other(b, a)
  BY <1>1
<1>3. /\ k[m].device /\ k[m].addr = a /\ (k[m].add <=> b) /\ m \in DOMAIN k
      /\ \A i \in DOMAIN k : i = m \/ (~k[i].device) \/ (i \in DOMAIN s /\ k[i] = s[i] /\ i < m)
      /\ \A i \in DOMAIN s : i \in DOMAIN k /\ k[i] = s[i] /\ i < m /\ i # m
  BY <1>1, <1>2 DEF Uevent, Other
<1>4. DOMAIN k \subseteq Nat
  BY <1>1
<1> HIDE DEF Uevent, Other
<1>5. ASSUME NEW e \in Addr, NEW i \in DOMAIN k, k[i].device, k[i].addr = e,
             \A j \in DOMAIN k : k[j].device /\ k[j].addr = e => j <= i
      PROVE  k[i].add <=> e \in Q
  <2>1. CASE e = a
    <3>1. m <= i
      BY <1>3, <1>5, <2>1
    <3>2. i = m
      BY <1>3, <1>4, <1>5, <3>1
    <3> QED
      BY <1>3, <2>1, <3>2
  <2>2. CASE e # a
    <3>1. i \in DOMAIN s /\ k[i] = s[i]
      BY <1>3, <1>5, <2>2
    <3>2. \A j \in DOMAIN s : s[j].device /\ s[j].addr = e => j <= i
      BY <1>3, <1>5
    <3>3. s[i].add <=> e \in P
      BY <1>5, <3>1, <3>2 DEF LastTrue
    <3> QED
      BY <2>2, <3>1, <3>3
  <2> QED
    BY <2>1, <2>2
<1>6. \A e : Silent(k, e) => Silent(s, e) /\ e # a
  BY <1>3 DEF Silent
<1> QED
  BY <1>5, <1>6 DEF LastTrue

\* No uevent is read and nothing is plugged.
LEMMA SameQueue ==
  ASSUME QueueInv, plugged' = plugged, uevents' = uevents,
         monitor' = "running" => monitor = "running",
         \/ walk' = walk
         \/ walk' = NoWalk
         \/ Walking /\ walk'.add = walk.add /\ walk'.addr = walk.addr
         \/ walk'.add = FALSE /\ walk'.addr \notin plugged
  PROVE  QueueInv'
<1>1. monitor = "running" => 
        /\ LastTrue(uevents, plugged)
        /\ Walking /\ Silent(uevents, walk.addr) => (walk.add <=> walk.addr \in plugged)
  BY QueueIs
<1>2. (walk' = walk => Walking' = Walking) /\ (walk' = NoWalk => ~Walking')
  BY DEF Walking
<1> HIDE DEF Walking, LastTrue, Silent
<1>3. monitor' = "running" =>
       LastTrue(uevents', plugged')
       /\ (Walking' /\ Silent(uevents', walk'.addr) => (walk'.add <=> walk'.addr \in plugged'))
  BY <1>1, <1>2
<1> QED
  BY <1>3, QueueIs

\* A uevent is read.
LEMMA ReadQueue ==
  ASSUME SInv, QueueInv, plugged' = plugged, monitor' = monitor, uevents # <<>>,
         uevents' = Tail(uevents), WalkFrom(Head(uevents)), ~Walking
  PROVE  /\ QueueInv'
         /\ monitor = "running" =>
              \A c \in Ctx : \A a : ctx[c].active /\ Quiet(c, a)' => Quiet(c, a)
<1> DEFINE e == Head(uevents)
<1>1. uevents \in Seq(Uevents) /\ walk.todo = {}
  BY DEF SInv, Walking, NoWalk
<1>2. CASE monitor # "running"
  BY <1>2, QueueIs
<1>3. CASE monitor = "running"
  <2>1. LastTrue(uevents, plugged)
    BY <1>3, QueueIs
  <2>2. /\ LastTrue(uevents', plugged)
        /\ e.device /\ Silent(uevents', e.addr) => (e.add <=> e.addr \in plugged)
        /\ \A a : Silent(uevents', a) => Silent(uevents, a) \/ (e.device /\ e.addr = a)
    BY <1>1, <2>1, TailQueue
  <2>3. /\ e.device => /\ walk'.add = e.add /\ walk'.addr = e.addr
                       /\ walk'.todo = {c \in Ctx : ctx[c].active}
        /\ ~e.device => ~Walking'
    BY DEF WalkFrom, Walking
  <2> HIDE DEF e, Walking, LastTrue, Silent
  <2>4. LastTrue(uevents', plugged')
       /\ (Walking' /\ Silent(uevents', walk'.addr) => (walk'.add <=> walk'.addr \in plugged'))
    BY <2>2, <2>3
  <2>5. ASSUME NEW c \in Ctx, NEW a, ctx[c].active, Quiet(c, a)' PROVE Quiet(c, a)
    <3>1. Silent(uevents', a) /\ ~(c \in walk'.todo /\ walk'.addr = a)
      BY <2>5, QueueIs
    <3>2. Silent(uevents, a)
      BY <2>2, <2>3, <2>5, <3>1
    <3> QED
      BY <1>1, <3>2, QueueIs
  <2> QED
    BY <2>4, <2>5, QueueIs
<1> QED
  BY <1>2, <1>3

\* The monitor starts with an empty queue and no uevent on its way.
LEMMA NobodyWalks ==
  ASSUME SInv, LockInv, MonitorInv, NEW c \in Ctx, At(c, "op_init"), IsFree("startstop"),
         initCount = 0
  PROVE  ~Walking /\ monitor = "none" /\ Counted = {} /\ Begun = {}
<1>0. None \notin Ctx
  BY DEF None
<1>1. Counted = {}
  BY FS_EmptySet DEF MonitorInv
<1>2. Begun = {}
  BY <1>0 DEF LockInv, IsFree, Begun
<1>3. monitor = "none"
  <2>1. "op_init" \in Active
    BY DEF Active, Starting
  <2> QED
    BY <1>1, <1>2, <2>1, NotStopping DEF MonitorInv, At
<1>4. ~Walking
  <2>1. locks.hotplug # Netlink
    BY <1>3 DEF MonitorInv
  <2>2. \A e \in Ctx : ctx[e].at \notin {"polling", "gone"}
    BY <1>1 DEF Counted, Up
  <2> QED
    BY <2>1, <2>2 DEF LockInv
<1> QED
  BY <1>1, <1>2, <1>3, <1>4

\* The threads and the uevents.
LEMMA SessionQueue ==
  ASSUME SInv, LockInv, MonitorInv, QueueInv, Races = {}, NEW c \in Ctx, Session(c)
  PROVE  QueueInv'
<1>1. CASE Plainly(c)
  <2>1. UNCHANGED <<plugged, uevents, monitor, walk>>
    BY <1>1, PlainIs
  <2> QED
    BY <2>1, SameQueue
<1>2. CASE \/ NewActive(c) \/ StartFails(c) \/ ScanStart(c) \/ ScanDone(c) \/ OpInitDone(c)
           \/ EventPipe(c) \/ PollStart(c) \/ PollDone(c) \/ OpenFails(c)
  <2>1. UNCHANGED <<plugged, uevents, monitor, walk>>
    BY <1>2 DEF NewActive, StartFails, ScanStart, ScanDone, OpInitDone, EventPipe, PollStart,
       PollDone, OpenFails, world
  <2> QED
    BY <2>1, SameQueue
<1>3. CASE PollOn(c)
  BY <1>3, ReadQueue DEF PollOn, world
<1>4. CASE OpenGone(c)
  <2>1. /\ UNCHANGED <<plugged, uevents, monitor>>
        /\ \/ walk' = NoWalk
           \/ walk'.add = FALSE /\ walk'.addr \notin plugged
    BY <1>4 DEF OpenGone, world
  <2> QED
    BY <2>1, SameQueue
<1>5. CASE OpExit(c)
  <2>1. UNCHANGED <<plugged, uevents, walk>> /\ (monitor' = "running" => monitor = "running")
    BY <1>5 DEF OpExit, world
  <2> QED
    BY <2>1, SameQueue
<1>6. CASE Join(c)
  <2>1. monitor' # "running"
    BY <1>6 DEF Join
  <2> QED
    BY <2>1, QueueIs
<1>7. CASE OpInit(c)
  <2>1. CASE Started
    <3>1. ~Walking
      BY <1>7, <2>1, NobodyWalks DEF OpInit, Started
    <3>2. ~Walking' /\ uevents' = <<>>
      BY <1>7, <2>1, <3>1 DEF OpInit, Walking
    <3>3. LastTrue(uevents', plugged')
      BY <3>2 DEF LastTrue
    <3> QED
      BY <3>2, <3>3, QueueIs
  <2>2. CASE ~Started
    <3>1. UNCHANGED <<plugged, uevents, monitor, walk>>
      BY <1>7, <2>2 DEF OpInit, world
    <3> QED
      BY <3>1, SameQueue
  <2> QED
    BY <2>1, <2>2
<1> QED
  BY <1>1, <1>2, <1>3, <1>4, <1>5, <1>6, <1>7 DEF Session, Plainly

\* The kernel tells what it has done, while the monitor runs.
LEMMA PlugQueue ==
  ASSUME SInv, QueueInv, NEW a \in Addr, NEW b \in BOOLEAN, monitor = "running",
         (b /\ Plug(a)) \/ (~b /\ Unplug(a))
  PROVE  /\ QueueInv' /\ \A e \in Addr \ {a} : e \in plugged' <=> e \in plugged
         /\ \A c, e : Quiet(c, e)' => Quiet(c, e) /\ e # a
<1> DEFINE s == uevents
           k == uevents'
           P == plugged
           Q == plugged'
<1>1. /\ s \in Seq(Uevents) /\ LastTrue(s, P)
      /\ k = s \o <<Uevent(b, a), Other(b, a)>> \/ k = s \o <<Other(b, a), Uevent(b, a)>>
      /\ a \in Q <=> b
      /\ \A e : e # a => (e \in Q <=> e \in P)
      /\ walk' = walk /\ monitor' = monitor
  BY QueueIs DEF SInv, Plug, Unplug, Receives
<1>2. Walking /\ Silent(s, walk.addr) => (walk.add <=> walk.addr \in P)
  BY QueueIs
<1>3. /\ \A c, e : Quiet(c, e) <=> Silent(s, e) /\ ~(c \in walk.todo /\ walk.addr = e)
      /\ \A c, e : Quiet(c, e)' <=> Silent(k, e) /\ ~(c \in walk'.todo /\ walk'.addr = e)
  BY QueueIs
<1>4. Walking' = Walking
  BY <1>1 DEF Walking
<1>41. QueueInv' <=> (monitor' = "running" =>
         LastTrue(k, Q) /\ (Walking' /\ Silent(k, walk'.addr) => (walk'.add <=> walk'.addr \in Q)))
  BY QueueIs
<1> HIDE DEF s, k, P, Q, Walking
<1>5. /\ LastTrue(k, Q) /\ ~Silent(k, a)
      /\ \A e : Silent(k, e) => Silent(s, e) /\ e # a
  <2>1. \A e \in Addr \ {a} : e \in Q <=> e \in P
    BY <1>1
  <2> QED
    BY ZenonT(40), <1>1, <2>1, GrownQueue
<1>6. ASSUME Walking, Silent(k, walk.addr) PROVE walk.add <=> walk.addr \in Q
  <2>1. Silent(s, walk.addr) /\ walk.addr # a
    BY <1>5, <1>6
  <2>2. walk.addr \in P <=> walk.addr \in Q
    BY <1>1, <2>1
  <2> QED
    BY <1>2, <1>6, <2>1, <2>2
<1>7. QueueInv'
  BY <1>1, <1>4, <1>41, <1>5, <1>6
<1>8. \A c, e : Quiet(c, e)' => Quiet(c, e) /\ e # a
  BY <1>1, <1>3, <1>5
<1> QED
  BY <1>1, <1>7, <1>8 DEF P, Q

\* The kernel, the netlink thread and the uevents.
LEMMA NetlinkQueue ==
  ASSUME SInv, QueueInv, Races = {}, (\E a \in Addr : Plug(a) \/ Unplug(a)) \/ NetlinkStep
  PROVE  QueueInv'
<1>1. ASSUME NEW a \in Addr, Plug(a) \/ Unplug(a) PROVE QueueInv'
  <2>1. CASE monitor = "running"
    <3>1. CASE Plug(a)
      <4>1. (TRUE /\ Plug(a)) \/ (~TRUE /\ Unplug(a))
        BY <3>1
      <4> QED
        BY <2>1, <4>1, PlugQueue
    <3>2. CASE Unplug(a)
      <4>1. (FALSE /\ Plug(a)) \/ (~FALSE /\ Unplug(a))
        BY <3>2
      <4> QED
        BY <2>1, <4>1, PlugQueue
    <3> QED
      BY <1>1, <3>1, <3>2
  <2>2. CASE monitor # "running"
    <3>1. monitor' # "running"
      BY <1>1, <2>2 DEF Plug, Unplug
    <3> QED
      BY <3>1, QueueIs
  <2> QED
    BY <2>1, <2>2
<1>2. CASE NetlinkReads
  BY <1>2, ReadQueue DEF NetlinkReads, world
<1>3. CASE WalkNobody \/ NetlinkDone \/ NetlinkEnds
  <2>1. /\ UNCHANGED <<plugged, uevents>> /\ (walk' = walk \/ walk' = NoWalk)
        /\ monitor' = "running" => monitor = "running"
    BY <1>3 DEF WalkNobody, NetlinkDone, NetlinkEnds, world
  <2> QED
    BY <2>1, SameQueue
<1>4. ASSUME NEW c \in Ctx, WalkOn(c) PROVE QueueInv'
  <2>1. /\ UNCHANGED <<plugged, uevents, monitor>> /\ Walking
        /\ walk = [add |-> walk.add, addr |-> walk.addr, todo |-> walk.todo]
    BY <1>4, WalkStays DEF SInv, WalkInv, Walking
  <2>2. \/ walk' = NoWalk
        \/ walk'.add = walk.add /\ walk'.addr = walk.addr
    <3>1. walk' = NoWalk \/ walk' = [walk EXCEPT !.todo = @ \ {c}]
      BY <1>4 DEF WalkOn
    <3> QED
      BY <2>1, <3>1
  <2> QED
    BY <2>1, <2>2, SameQueue
<1> QED
  BY <1>1, <1>2, <1>3, <1>4 DEF NetlinkStep

-----------------------------------------------------------------------------
(* What the lists say.                                                       *)

Memory == [Devs -> {Free} \union Structures]

\* Structures stay at their address until they are freed.
Remain(ds, es) == \A d \in Devs : ds[d] # Free /\ es[d] # Free => es[d].addr = ds[d].addr

\* Dropping references changes no address.
LEMMA UnrefRemains ==
  ASSUME NEW ds \in Memory, NEW S \in SUBSET Devs
  PROVE  /\ UnrefAll(ds, S) \in Memory /\ Remain(ds, UnrefAll(ds, S))
         /\ \A d \in Devs : ds[d] = Free => UnrefAll(ds, S)[d] = Free
<1> DEFINE last == {d \in S : ds[d].refs = 1}
           drops(d) == Cardinality({d} \cap S) + Cardinality({e \in last : ds[e].parent = d})
           es == UnrefAll(ds, S)
<1>1. /\ \A d \in Devs : es[d] = IF ds[d].refs > drops(d) THEN [ds[d] EXCEPT !.refs = @ - drops(d)]
                                 ELSE Free
      /\ es = [d \in Devs |-> es[d]]
  BY DEF UnrefAll
<1> HIDE DEF es
<1>2. ASSUME NEW d \in Devs PROVE drops(d) \in Nat
  <2>1. Cardinality({d} \cap S) \in Nat
    BY FS_Subset, FS_CardinalityType
  <2>2. {e \in last : ds[e].parent = d} \in SUBSET Devs
    OBVIOUS
  <2>3. Cardinality({e \in last : ds[e].parent = d}) \in Nat
    BY <2>2, FS_Subset, FS_CardinalityType
  <2> HIDE DEF last
  <2> QED
    BY <2>1, <2>3
<1> HIDE DEF drops
<1>3. ASSUME NEW d \in Devs
      PROVE  /\ es[d] \in {Free} \union Structures
             /\ ds[d] = Free => es[d] = Free
             /\ ds[d] # Free /\ es[d] # Free => es[d].addr = ds[d].addr
  <2>1. CASE ds[d] = Free
    BY <1>1, <1>2, <2>1 DEF Free
  <2>2. CASE ds[d] # Free
    <3>1. ds[d] \in Structures
      BY <2>2 DEF Memory
    <3>2. CASE ds[d].refs > drops(d)
      <4>1. es[d] = [ds[d] EXCEPT !.refs = ds[d].refs - drops(d)]
        BY <1>1, <3>2
      <4>2. ds[d].refs - drops(d) \in Nat \ {0}
        BY <1>2, <3>1, <3>2 DEF Structures
      <4> QED
        BY <2>2, <3>1, <4>1, <4>2 DEF Structures
    <3>3. CASE ~(ds[d].refs > drops(d))
      BY <1>1, <3>3, <2>2
    <3> QED
      BY <3>2, <3>3
  <2> QED
    BY <2>1, <2>2
<1> QED
  BY <1>1, <1>3 DEF Memory, Remain, es

\* Nor does taking them.
LEMMA TakenRemains ==
  ASSUME NEW ds \in Memory, NEW S
  PROVE  Remain(ds, Taken(ds, S)) /\ \A d \in Devs : Remain(ds, Ref(ds, d))
<1>1. ASSUME NEW d \in Devs, ds[d] # Free, NEW r PROVE [ds[d] EXCEPT !.refs = r].addr = ds[d].addr
  <2>1. ds[d] \in Structures
    BY <1>1 DEF Memory
  <2> QED
    BY <2>1 DEF Structures
<1>2. Remain(ds, Taken(ds, S))
  BY <1>1 DEF Taken, Remain, Memory
<1>3. \A d \in Devs : Remain(ds, Ref(ds, d))
  BY <1>1 DEF Ref, Remain, Memory
<1> QED
  BY <1>2, <1>3

\* The threads change no address.
LEMMA SessionRemains ==
  ASSUME SInv, RInv, NEW c \in Ctx, Session(c), ~Scan(c), \A a \in Addr : ~GetDevice2(c, a)
  PROVE  Remain(dev, dev')
<1> DEFINE x == ctx[c]
<1>1. /\ dev \in Memory /\ x \in Contexts /\ LifeOf(x)
      /\ ToSet(x.list) \in SUBSET Devs /\ x.array \in SUBSET Devs
  <2>1. x \in Contexts /\ LifeOf(x)
    BY DEF SInv, ContextOK
  <2>2. dev \in Memory
    BY DEF RInv, Held, Now, Books, Memory
  <2> HIDE DEF x
  <2> QED
    BY <2>1, <2>2, ListSet
<1>2. dev' = dev => Remain(dev, dev')
  BY DEF Remain
<1>3. /\ \A S \in SUBSET Devs : dev' = UnrefAll(dev, S) => Remain(dev, dev')
      /\ \A d \in Devs : dev' = Unref(dev, d) => Remain(dev, dev')
  BY <1>1, UnrefRemains DEF Unref
<1>4. /\ \A S : dev' = Taken(dev, S) => Remain(dev, dev')
      /\ \A d \in Devs : dev' = Ref(dev, d) => Remain(dev, dev')
  BY <1>1, TakenRemains
<1>5. x.at \in {"opening", "gone", "device2", "open"} => x.handle \in Devs
  BY <1>1 DEF LifeOf, Contexts
<1> HIDE DEF Remain
<1>6. CASE Quietly(c)
  BY <1>2, <1>6, QuietFields
<1>7. CASE StartFails(c) \/ ExitContext(c) \/ FreeDeviceList(c) \/ OpenNode(c) \/ Close(c)
  BY <1>1, <1>3, <1>5, <1>7 DEF StartFails, ExitContext, FreeDeviceList, OpenNode, Close, At
<1>8. CASE GetDeviceList(c) \/ (\E d \in Devs : Open(c, d)) \/ Open2(c)
  BY <1>4, <1>5, <1>8 DEF GetDeviceList, Open, Open2, At
<1>9. CASE Open2Fails(c)
  BY <1>2, <1>9 DEF Open2Fails
<1>10. CASE TakeMessage(c)
  <2>1. Head(x.msgs).dev \in Devs
    <3>1. x.msgs \in Seq(Messages) /\ x.msgs # <<>>
      BY <1>1, <1>10 DEF TakeMessage, Contexts
    <3>2. Head(x.msgs) \in Messages
      BY <3>1
    <3> QED
      BY <3>2 DEF Messages
  <2> QED
    BY <1>2, <1>3, <1>10, <2>1 DEF TakeMessage, Dereferenced
<1>11. CASE OpenFails(c)
  <2> DEFINE ds == UnrefAll(dev, {x.handle})
  <2>1. {x.handle} \in SUBSET Devs /\ dev' = UnrefAll(ds, x.array)
    BY <1>5, <1>11 DEF OpenFails, At, Unref
  <2>2. ds \in Memory /\ Remain(dev, ds)
    BY <1>1, <2>1, UnrefRemains
  <2> HIDE DEF ds
  <2>3. Remain(ds, dev') /\ \A d \in Devs : ds[d] = Free => dev'[d] = Free
    BY <1>1, <2>1, <2>2, UnrefRemains
  <2> QED
    BY <2>2, <2>3 DEF Remain
<1> QED
  BY <1>6, <1>7, <1>8, <1>9, <1>10, <1>11 DEF Session, Quietly

\* So a list that does not change says the same.
LEMMA FrameLists ==
  ASSUME RInv, RInv', Remain(dev, dev'), NEW e \in Ctx, ctx'[e].list = ctx[e].list
  PROVE  /\ \A a : Lists(After, e, a) <=> Lists(Now, e, a)
         /\ OneEach(Now, e) => OneEach(After, e)
<1>1. Now.ctx = ctx /\ Now.dev = dev /\ After.ctx = ctx' /\ After.dev = dev'
  BY DEF Now, After
<1>2. \A d \in Devs : InList(ctx'[e], d) <=> InList(ctx[e], d)
  BY SMTT(30) DEF InList
<1>3. \A d \in Devs : InList(ctx[e], d) => dev[d] # Free
  BY <1>1 DEF RInv, Held, PointsOK, PointsTo
<1>4. Held(After)
  BY NowAfter DEF RInv
<1>5. \A d \in Devs : InList(ctx'[e], d) => dev'[d] # Free
  BY <1>1, <1>4 DEF Held, PointsOK, PointsTo
<1> QED
  BY <1>1, <1>2, <1>3, <1>5, SameLists DEF Remain

\* What is to be shown of a list after a step.
LEMMA ListAfter ==
  ASSUME NEW e \in Ctx
  PROVE  ListOf(e)' <=>
           /\ OneEach(After, e)
           /\ \A a \in Addr : Quiet(e, a)' =>
                /\ Lists(After, e, a) => a \in plugged'
                /\ a \in plugged' /\ Scanned(e, a)' => Lists(After, e, a)
           /\ ctx'[e].at = "op_init" /\ monitor' = "none" => ctx'[e].list = <<>>
BY DEF ListOf, OneEach, Lists, Now, After, At

\* What keeps a list true.
LEMMA KeepsList ==
  ASSUME NEW e \in Ctx, ListOf(e), plugged' = plugged,
         \A a : Lists(After, e, a) <=> Lists(Now, e, a), OneEach(Now, e) => OneEach(After, e),
         \A a \in Addr : Quiet(e, a)' => Quiet(e, a),
         \A a \in Addr : Scanned(e, a)' => Scanned(e, a),
         ctx'[e].at = "op_init" /\ monitor' = "none" => ctx'[e].list = <<>>
  PROVE  ListOf(e)'
<1> HIDE DEF Quiet, Scanned, Lists, OneEach
<1> QED
  BY ListAfter DEF ListOf

\* Other threads, with or without a change of what is on its way to them.
LEMMA OthersListed ==
  ASSUME SInv, RInv, LockInv, MonitorInv, ListInv, host = "linux", Races = {},
         NEW c \in Ctx, Session(c),
         NEW e \in Ctx, e # c, ctx[e].active, ctx'[e] = ctx[e],
         \A a : Lists(After, e, a) <=> Lists(Now, e, a), OneEach(Now, e) => OneEach(After, e),
         plugged' = plugged, \A a \in Addr : Quiet(e, a)' => Quiet(e, a),
         monitor' = monitor \/ monitor' = "running" \/ monitor' = "stopping"
  PROVE  ListOf(e)'
<1>1. ListOf(e)
  BY DEF ListInv
<1>2. \A a \in Addr : Scanned(e, a)' => Scanned(e, a)
  <2> SUFFICES ASSUME NEW a \in Addr, Scanned(e, a)' PROVE Scanned(e, a)
    OBVIOUS
  <2>1. CASE todo' = todo
    BY <2>1 DEF Scanned, At
  <2>2. CASE At(e, "scanning")
    <3>1. todo' = todo
      <4>1. ~At(c, "scanning") /\ ~IsFree("hotplug")
        BY <2>2 DEF LockInv, At, IsFree, None
      <4> QED
        BY <4>1 DEF Session, NewActive, OpInit, StartFails, ScanStart, Scan, ScanDone,
           OpInitDone, MessageList, EventPipe, PollStart, PollOn, PollDone, GetDeviceList,
           FreeDeviceList, Open, OpenNode, OpenGone, OpenFails, GetDevice2, NoDevice2, Open2,
           Open2Fails, TakePollfds, TakeMessage, Close, ExitActive, ExitContext, OpExit, Join
    <3> QED
      BY SMTT(30), <2>1, <3>1
  <2>3. CASE ~At(e, "scanning")
    BY <2>3 DEF Scanned, At
  <2> QED
    BY <2>1, <2>2, <2>3
<1>3. ctx'[e].at = "op_init" /\ monitor' = "none" => ctx'[e].list = <<>>
  BY <1>1 DEF ListOf, At
<1> HIDE DEF Quiet, Scanned, Lists, OneEach
<1> QED
  BY <1>1, <1>2, <1>3, KeepsList

\* A context goes on with its list.
LEMMA SameListed ==
  ASSUME SInv, SInv', RInv, RInv', ListInv, host = "linux", Remain(dev, dev'), NEW c \in Ctx,
         ctx[c].active, ctx'[c].list = ctx[c].list,
         plugged' = plugged, \A a \in Addr : Quiet(c, a)' => Quiet(c, a),
         \A a \in Addr : Scanned(c, a)' => Scanned(c, a),
         ctx'[c].at = "op_init" /\ monitor' = "none" => ctx'[c].list = <<>>
  PROVE  ListOf(c)'
<1>1. ListOf(c)
  BY DEF ListInv
<1>2. /\ \A a : Lists(After, c, a) <=> Lists(Now, c, a)
      /\ OneEach(Now, c) => OneEach(After, c)
  BY FrameLists
<1> HIDE DEF Quiet, Scanned, Lists, OneEach
<1> QED
  BY <1>1, <1>2, KeepsList

\* Nothing is listed.
LEMMA EmptyListed ==
  ASSUME NEW c \in Ctx, ctx'[c].list = <<>>, \A a \in Addr : ~Scanned(c, a)'
  PROVE  ListOf(c)'
<1>1. \A d : ~InList(After.ctx[c], d)
  BY DEF InList, After
<1>2. OneEach(After, c) /\ \A a : ~Lists(After, c, a)
  BY <1>1 DEF OneEach, Lists
<1> HIDE DEF Scanned, OneEach, Lists
<1> QED
  BY <1>2, ListAfter

\* A list of sysfs: what the scan has found is plugged.
LEMMA ScanListed ==
  ASSUME SInv, RInv, ListInv, host = "linux", NEW c \in Ctx, Scan(c)
  PROVE  ListOf(c)' /\ Elsewhere(Now, After, c)
<1>1. /\ Hears(ctx[c]) /\ ctx[c].at = "scanning"
      /\ Cardinality({d \in Devs : Now.dev[d] = Free}) > 1 /\ plugged \subseteq Addr
  BY ScanIs
<1>2. PICK a \in todo :
        todo' = todo \ {a} /\ a \in Addr /\ After = Enumerate(Now, c, a)
        /\ Alike(Now, Enumerate(Now, c, a), c)
  BY ScanIs
<1>3. /\ \A b : Lists(Now, c, b) => Lists(After, c, b)
      /\ \A b : Lists(After, c, b) => Lists(Now, c, b) \/ Readable(b)
      /\ Readable(a) => Lists(After, c, a)
      /\ OneEach(Now, c) => OneEach(After, c)
      /\ Elsewhere(Now, After, c)
  <2>1. World(Now) /\ Held(Now) /\ Hears(Now.ctx[c])
    BY <1>1, NowWorld DEF RInv, Now
  <2> QED
    BY <1>1, <1>2, <2>1, EnumerateLists
<1>4. ListOf(c) /\ ctx'[c].at = "scanning"
  <2>1. ctx[c].active
    BY <1>1, ActiveIs DEF Active, Starting
  <2>2. ctx'[c].at = "scanning"
    BY StepMoves DEF Moves
  <2> QED
    BY <2>1, <2>2 DEF ListInv
<1>5. \A b : Readable(b) <=> b \in plugged
  BY DEF Readable
<1>6. UNCHANGED <<plugged, uevents, walk>>
  BY DEF Scan, world
<1>7. /\ \A b : Quiet(c, b)' <=> Quiet(c, b)
      /\ \A b : Scanned(c, b)' => Scanned(c, b) \/ b = a
  BY <1>1, <1>2, <1>4, <1>6 DEF Quiet, Unread, Scanned, At
<1> HIDE DEF Quiet, Scanned, Lists, OneEach, Readable
<1>8. ListOf(c)'
  BY <1>3, <1>4, <1>5, <1>6, <1>7, ListAfter DEF ListOf
<1> QED
  BY <1>3, <1>8

\* A uevent has come to a context.
LEMMA WalkListed ==
  ASSUME SInv, RInv, LockInv, MonitorInv, QueueInv, ListInv, host = "linux", Races = {},
         NEW c \in Ctx, WalkOn(c)
  PROVE  ListOf(c)' /\ Elsewhere(Now, After, c)
<1> DEFINE a == walk.addr
<1>1. /\ World(Now) /\ Held(Now) /\ Hears(Now.ctx[c]) /\ Now.ctx = ctx /\ Now.dev = dev
      /\ Walking /\ a \in Addr /\ c \in walk.todo
      /\ \A w : World(w) /\ Becomes(w) => After = w
  <2>1. Walking /\ c \in walk.todo
    BY DEF WalkOn, Walking, NoWalk
  <2>2. Held(Now) /\ a \in Addr
    BY <2>1 DEF RInv
  <2>3. World(Now) /\ Now.ctx = ctx /\ Now.dev = dev
    BY NowWorld DEF Now
  <2>4. Hears(ctx[c])
    BY WalkFacts
  <2>5. \A w : World(w) /\ Becomes(w) => After = w
    BY SMTT(30) DEF World, Becomes, After
  <2> QED
    BY <2>1, <2>2, <2>3, <2>4, <2>5
<1>2. /\ ctx[c].active /\ ListOf(c) /\ monitor = "running"
      /\ walk = [add |-> walk.add, addr |-> walk.addr, todo |-> walk.todo] /\ walk.add \in BOOLEAN
  <2>1. ctx[c].active /\ walk = [add |-> walk.add, addr |-> walk.addr, todo |-> walk.todo]
        /\ walk.add \in BOOLEAN
    BY <1>1 DEF SInv, WalkInv, Walking
  <2>2. monitor \notin {"stopping", "ended"}
    BY <2>1 DEF MonitorInv
  <2>3. monitor = "running"
    <3>1. CASE locks.hotplug = Netlink
      BY <2>2, <3>1 DEF MonitorInv
    <3>2. CASE \E e \in Ctx : ctx[e].at \in {"polling", "gone"}
      BY <3>2 DEF MonitorInv, Counted, Up
    <3> QED
      BY <1>1, <3>1, <3>2 DEF LockInv
  <2> QED
    BY <2>1, <2>3 DEF ListInv
<1>3. UNCHANGED <<plugged, uevents, monitor, todo>> /\ ctx'[c].at = ctx[c].at
  BY WalkStays DEF WalkOn
<1>4. /\ \A b : Quiet(c, b)' => Silent(uevents, b)
      /\ \A b : b # a /\ Silent(uevents, b) => Quiet(c, b)
      /\ Silent(uevents, a) => (walk.add <=> a \in plugged)
      /\ \A b : Scanned(c, b)' <=> Scanned(c, b)
  <2>1. Silent(uevents, a) => (walk.add <=> a \in plugged)
    BY <1>1, <1>2, QueueIs
  <2>2. \A b : b # a /\ Silent(uevents, b) => Quiet(c, b)
    <3> HIDE DEF Silent
    <3> QED
      BY QueueIs
  <2>3. \A b : Scanned(c, b)' <=> Scanned(c, b)
    BY <1>3 DEF Scanned, At
  <2>4. \A b : Quiet(c, b)' => Silent(uevents, b)
    BY <1>3 DEF Quiet, Unread, Silent
  <2> HIDE DEF Quiet, Silent, Scanned
  <2> QED
    BY <2>1, <2>2, <2>3, <2>4
<1>5. ctx[c].at = "op_init" /\ monitor' = "none" => ctx'[c].list = <<>>
  BY <1>2, <1>3
<1>6. CASE walk.add /\ Becomes(Enumerate(Now, c, a))
  <2>1. Cardinality({d \in Devs : Now.dev[d] = Free}) > 1 /\ plugged \subseteq Addr
    BY <1>1, <1>6, WalkFacts DEF Room, SInv
  <2>2. After = Enumerate(Now, c, a)
    BY <1>1, <1>6, <2>1, EnumerateAlike
  <2>3. /\ \A b : Lists(Now, c, b) => Lists(After, c, b)
        /\ \A b : Lists(After, c, b) => Lists(Now, c, b) \/ Readable(b)
        /\ Readable(a) => Lists(After, c, a)
        /\ OneEach(Now, c) => OneEach(After, c)
        /\ Elsewhere(Now, After, c)
    BY <1>1, <2>1, <2>2, EnumerateLists
  <2>4. \A b : Readable(b) <=> b \in plugged
    BY DEF Readable
  <2> HIDE DEF Quiet, Silent, Scanned, Lists, OneEach, Readable
  <2>5. ListOf(c)'
    <3>1. ASSUME NEW b \in Addr, Quiet(c, b)'
          PROVE  /\ Lists(After, c, b) => b \in plugged'
                 /\ b \in plugged' /\ Scanned(c, b)' => Lists(After, c, b)
      <4> Silent(uevents, b)
        BY <1>4, <3>1
      <4>1. CASE b = a
        BY <1>3, <1>4, <1>6, <2>3, <2>4, <3>1, <4>1
      <4>2. CASE b # a
        BY <1>2, <1>3, <1>4, <2>3, <2>4, <3>1, <4>2 DEF ListOf
      <4> QED
        BY <4>1, <4>2
    <3> QED
      BY <1>2, <1>3, <1>5, <2>3, <3>1, ListAfter DEF ListOf
  <2> QED
    BY <2>3, <2>5
<1>7. ASSUME \/ After = Now /\ ~Lists(Now, c, a)
             \/ /\ \A b : Lists(After, c, b) <=> Lists(Now, c, b) /\ b # a
                /\ OneEach(After, c) /\ Elsewhere(Now, After, c),
             ~walk.add
      PROVE  ListOf(c)' /\ Elsewhere(Now, After, c)
  <2>1. /\ \A b : Lists(After, c, b) <=> Lists(Now, c, b) /\ b # a
        /\ OneEach(After, c) /\ Elsewhere(Now, After, c)
    BY <1>2, <1>7 DEF Elsewhere, ListOf
  <2> HIDE DEF Quiet, Silent, Scanned, Lists, OneEach
  <2>2. ASSUME NEW b \in Addr, Quiet(c, b)'
        PROVE  /\ Lists(After, c, b) => b \in plugged'
               /\ b \in plugged' /\ Scanned(c, b)' => Lists(After, c, b)
    <3> Silent(uevents, b)
      BY <1>4, <2>2
    <3>1. CASE b = a
      BY <1>3, <1>4, <1>7, <2>1, <2>2, <3>1
    <3>2. CASE b # a
      BY <1>2, <1>3, <1>4, <2>1, <2>2, <3>2 DEF ListOf
    <3> QED
      BY <3>1, <3>2
  <2> QED
    BY <1>2, <1>3, <1>5, <2>1, <2>2, ListAfter
<1>8. CASE /\ ~walk.add /\ BySession(Now, c, a) # None
           /\ Becomes(Disconnect(Now, c, BySession(Now, c, a)))
  <2> DEFINE d == BySession(Now, c, a)
  <2>1. d \in Devs /\ InList(Now.ctx[c], d) /\ Now.dev[d].addr = a
    BY <1>1, <1>8, FoundIs
  <2> HIDE DEF d
  <2>2. World(Disconnect(Now, c, d))
    BY <1>1, <2>1, DisconnectIs
  <2>3. After = Disconnect(Now, c, d) /\ OneEach(Now, c)
    BY <1>1, <1>2, <1>8, <2>2 DEF d, ListOf
  <2>4. /\ \A b : Lists(After, c, b) <=> Lists(Now, c, b) /\ b # a
        /\ OneEach(After, c) /\ Elsewhere(Now, After, c)
    BY <1>1, <2>1, <2>3, DisconnectLists
  <2> QED
    BY <1>7, <1>8, <2>4
<1>9. CASE ~walk.add /\ BySession(Now, c, a) = None /\ Becomes(Now)
  <2>1. After = Now /\ ~Lists(Now, c, a)
    BY <1>1, <1>9, FoundIs
  <2> QED
    BY <1>7, <1>9, <2>1
<1> QED
  BY SMTT(30), <1>6, <1>8, <1>9, WalkFacts

\* No thread gets rid of a uevent on its way to a context, except by starting the monitor.
LEMMA SessionQuiet ==
  ASSUME SInv, LockInv, MonitorInv, QueueInv, host = "linux", Races = {},
         NEW c \in Ctx, Session(c), NEW e \in Ctx, ctx[e].active,
         ~(e = c /\ OpInit(c) /\ Started)
  PROVE  plugged' = plugged /\ \A a : Quiet(e, a)' => Quiet(e, a)
<1>1. CASE UNCHANGED <<plugged, uevents, walk>>
  BY <1>1 DEF Quiet, Unread
<1>2. CASE Plainly(c)
  <2>1. UNCHANGED <<plugged, uevents, walk>>
    BY <1>2, PlainIs
  <2> QED
    BY <1>1, <2>1
<1>3. CASE \/ NewActive(c) \/ StartFails(c) \/ ScanStart(c) \/ ScanDone(c) \/ OpInitDone(c)
           \/ EventPipe(c) \/ PollStart(c) \/ PollDone(c) \/ OpenFails(c) \/ OpExit(c)
  <2>1. UNCHANGED <<plugged, uevents, walk>>
    BY <1>3 DEF NewActive, StartFails, ScanStart, ScanDone, OpInitDone, EventPipe, PollStart,
       PollDone, OpenFails, OpExit, world
  <2> QED
    BY <1>1, <2>1
<1>4. CASE PollOn(c)
  <2>1. monitor = "running"
    BY <1>4 DEF PollOn, At, MonitorInv, Counted, Up
  <2> QED
    BY <1>4, <2>1, ReadQueue DEF PollOn, world
<1>5. CASE OpenGone(c)
  <2>1. walk.todo = {} /\ UNCHANGED <<plugged, uevents>>
    BY <1>5 DEF OpenGone, Walking, NoWalk, world
  <2> QED
    BY <2>1 DEF Quiet, Unread
<1>6. CASE OpInit(c) /\ ~Started
  <2>1. UNCHANGED <<plugged, uevents, walk>>
    BY <1>6 DEF OpInit, world
  <2> QED
    BY <1>1, <2>1
<1>7. CASE OpInit(c) /\ Started
  <2>1. Counted = {} /\ Begun = {} /\ At(c, "op_init")
    BY <1>7, NobodyWalks DEF OpInit, Started
  <2>2. ctx[e].at \in Active
    BY ActiveIs
  <2>3. ctx[e].at = "op_init"
    BY <2>1, <2>2 DEF Counted, Begun, Active, Starting, Up
  <2>4. e = c
    BY <2>1, <2>3 DEF LockInv, Starting, At
  <2> QED
    BY <1>7, <2>4
<1>8. CASE Join(c)
  <2>1. monitor = "ended"
    BY <1>8 DEF Join
  <2> QED
    BY <2>1 DEF MonitorInv
<1> QED
  BY <1>2, <1>3, <1>4, <1>5, <1>6, <1>7, <1>8 DEF Session, Plainly

\* The other threads, and what they list.
LEMMA OthersGoOn ==
  ASSUME SInv, SInv', RInv, RInv', LockInv, MonitorInv, QueueInv, ListInv, host = "linux",
         Races = {}, NEW c \in Ctx, Session(c), NEW e \in Ctx, e # c, ctx'[e].active
  PROVE  ListOf(e)'
<1>1. \A a \in Addr : ~GetDevice2(c, a)
  BY DEF GetDevice2
<1>2. ctx'[e] = ctx[e]
  BY <1>1, StepMoves DEF Session, Moves
<1>3. ctx[e].active
  BY <1>2
<1>4. plugged' = plugged /\ \A a : Quiet(e, a)' => Quiet(e, a)
  BY <1>3, SessionQuiet
<1>5. monitor' = monitor \/ monitor' = "running" \/ monitor' = "stopping"
  <2>1. CASE Join(c)
    BY <1>3, <2>1 DEF Join, MonitorInv
  <2>2. CASE Plainly(c)
    BY <2>2, PlainIs
  <2>3. CASE ~Join(c) /\ ~Plainly(c)
    BY <2>3 DEF Session, Plainly, NewActive, OpInit, StartFails, ScanStart, ScanDone, OpInitDone,
       EventPipe, PollStart, PollOn, PollDone, OpenGone, OpenFails, OpExit
  <2> QED
    BY <2>1, <2>2, <2>3
<1>6. (\A a : Lists(After, e, a) <=> Lists(Now, e, a)) /\ (OneEach(Now, e) => OneEach(After, e))
  <2>1. CASE Scan(c)
    BY <2>1, ScanListed DEF Elsewhere
  <2>2. CASE ~Scan(c)
    <3>1. Remain(dev, dev')
      BY <1>1, <2>2, SessionRemains
    <3> QED
      BY <1>2, <3>1, FrameLists
  <2> QED
    BY <2>1, <2>2
<1> HIDE DEF Quiet, Lists, OneEach, ListOf
<1> QED
  BY <1>2, <1>3, <1>4, <1>5, <1>6, OthersListed

\* Steps of a thread with the list of its context as it is.
LEMMA ListStays ==
  ASSUME SInv, NEW c \in Ctx, Session(c), ctx'[c].active, host = "linux", ~Scan(c)
  PROVE  ctx'[c].list = ctx[c].list
<1> DEFINE x == ctx[c]
<1>1. x \in Contexts /\ ctx = [e \in Ctx |-> ctx[e]]
  BY DEF SInv, ContextOK
<1>2. CASE Quietly(c)
  BY <1>1, <1>2, QuietFields DEF SameFields
<1>3. CASE StartFails(c) \/ ExitContext(c)
  <2>1. \/ ctx'[c] = [NewContext EXCEPT !.at = "over"]
        \/ ctx'[c] = [NewContext EXCEPT !.at = "op_exit"]
    BY <1>1, <1>3 DEF StartFails, ExitContext
  <2> QED
    BY <2>1 DEF NewContext
<1>4. CASE OpenNode(c)
  <2> DEFINE y == [x EXCEPT !.at = "open", !.array = {}]
  <2>1. y \in Contexts /\ y.list = x.list
    BY <1>1 DEF Contexts, Places, Up
  <2>2. ctx'[c] = FdNotification(y)
    BY <1>1, <1>4 DEF OpenNode
  <2> HIDE DEF y
  <2> QED
    BY <2>1, <2>2, FdFields
<1>5. CASE Close(c) \/ Open2(c)
  <2> DEFINE y == IF Close(c) THEN [x EXCEPT !.at = "exit", !.handle = None]
                  ELSE [x EXCEPT !.at = "open"]
  <2>1. y \in Contexts /\ y.list = x.list
    BY <1>1 DEF Contexts, Places, Up
  <2>2. ctx'[c] = FdNotification(y)
    BY <1>1, <1>5 DEF Close, Open2
  <2> HIDE DEF y
  <2> QED
    BY <2>1, <2>2, FdFields
<1>6. CASE TakeMessage(c)
  <2> DEFINE y == [x EXCEPT !.msgs = Tail(@)]
  <2>1. y \in Contexts /\ y.list = x.list
    <3>1. Tail(x.msgs) \in Seq(Messages)
      <4>1. x.msgs \in Seq(Messages) /\ x.msgs # <<>>
        BY <1>1, <1>6 DEF Contexts, TakeMessage
      <4> HIDE DEF x
      <4> QED
        BY <4>1
    <3> QED
      BY <1>1, <3>1 DEF Contexts
  <2>2. ctx'[c] = ClearIfLast(y)
    BY <1>1, <1>6 DEF TakeMessage
  <2> HIDE DEF y
  <2> QED
    BY <2>1, <2>2, ClearFields
<1>7. CASE FreeDeviceList(c) \/ GetDeviceList(c) \/ (\E d \in Devs : Open(c, d)) \/ Open2Fails(c)
           \/ OpenFails(c)
  <2>1. CASE FreeDeviceList(c) \/ GetDeviceList(c)
    BY <1>1, <2>1 DEF FreeDeviceList, GetDeviceList, Contexts
  <2>2. CASE \E d \in Devs : Open(c, d)
    BY <1>1, <2>2 DEF Open, Contexts
  <2>3. CASE Open2Fails(c)
    BY <1>1, <2>3 DEF Open2Fails, Contexts
  <2>4. CASE OpenFails(c)
    BY <1>1, <2>4 DEF OpenFails, Contexts
  <2> QED
    BY <1>7, <2>1, <2>2, <2>3, <2>4
<1>8. \A a \in Addr : ~GetDevice2(c, a)
  BY DEF GetDevice2
<1> QED
  BY <1>2, <1>3, <1>4, <1>5, <1>6, <1>7, <1>8 DEF Session, Quietly

\* A thread's own list.
LEMMA OwnGoesOn ==
  ASSUME SInv, SInv', RInv, RInv', LockInv, MonitorInv, QueueInv, ListInv, host = "linux",
         Races = {}, NEW c \in Ctx, Session(c), ctx'[c].active
  PROVE  ListOf(c)'
<1>1. \A a \in Addr : ~GetDevice2(c, a)
  BY DEF GetDevice2
<1>2. CASE Scan(c)
  BY <1>2, ScanListed
<1>3. CASE NewActive(c)
  <2>1. Moves(c, "off", "op_init") /\ ctx'[c].list = ctx[c].list
    BY <1>3, StepMoves, ListStays DEF Moves, NewActive, Scan, At
  <2>2. ctx[c].list = <<>>
    BY <2>1 DEF SInv, ContextOK, LifeOf, Moves, Starting, Up
  <2>3. \A a \in Addr : ~Scanned(c, a)'
    BY <2>1 DEF Scanned, Moves
  <2> QED
    BY SMTT(30), <2>1, <2>2, <2>3, EmptyListed
<1>4. CASE OpInit(c) /\ Started
  <2>1. Moves(c, "op_init", "scan") /\ ctx'[c].list = ctx[c].list
    BY <1>4, StepMoves, ListStays DEF Moves, OpInit, Scan, At
  <2>2. ctx[c].list = <<>>
    <3>1. monitor = "none"
      BY <1>4, NobodyWalks DEF OpInit, Started
    <3>2. ctx[c].active
      BY <2>1, ActiveIs DEF Moves, Active, Starting
    <3> QED
      BY <2>1, <3>1, <3>2 DEF ListInv, ListOf, Moves, At
  <2>3. \A a \in Addr : ~Scanned(c, a)'
    BY <2>1 DEF Scanned, Moves
  <2> QED
    BY <2>1, <2>2, <2>3, EmptyListed
<1>5. CASE ~Scan(c) /\ ~NewActive(c) /\ ~(OpInit(c) /\ Started)
  <2>1. PICK p, q : Moves(c, p, q) /\ q \in Active /\
          \/ OpInit(c) /\ p = "op_init" /\ q = "scan"
          \/ ScanStart(c) /\ p = "scan" /\ q = "scanning"
          \/ ScanDone(c) /\ p = "scanning" /\ q = "inited"
          \/ p \in Active \ {"op_init", "scan", "scanning"} /\ q # "op_init"
    <3>1. ctx'[c].at \in Active
      BY ActiveIs
    <3> QED
      BY <1>1, <1>5, <3>1, StepMoves DEF Session, Moves, Active, Starting, Up
  <2>2. ctx[c].active
    BY <2>1, ActiveIs DEF Moves, Active, Starting
  <2>3. plugged' = plugged /\ \A a : Quiet(c, a)' => Quiet(c, a)
    BY <1>5, <2>2, SessionQuiet
  <2>4. \A a \in Addr : Scanned(c, a)' => Scanned(c, a)
    <3>1. CASE q = "scan"
      BY <2>1, <3>1 DEF Scanned, Moves
    <3>2. CASE ScanStart(c)
      <4>1. todo' = Addr /\ ctx'[c].at = "scanning"
        BY <3>2, StepMoves DEF ScanStart, Moves
      <4> QED
        BY <4>1 DEF Scanned, At
    <3>3. CASE ScanDone(c)
      <4>1. todo = {} /\ ctx[c].at = "scanning"
        BY <3>3 DEF ScanDone, At
      <4> QED
        BY <4>1 DEF Scanned, At
    <3>4. CASE p \in Active \ {"op_init", "scan", "scanning"}
      BY <2>1, <3>4 DEF Scanned, Moves, At
    <3> QED
      BY <2>1, <3>1, <3>2, <3>3, <3>4
  <2>5. Remain(dev, dev') /\ ctx'[c].list = ctx[c].list
    BY <1>1, <1>5, SessionRemains, ListStays
  <2>6. ctx'[c].at # "op_init"
    BY <2>1 DEF Moves
  <2> HIDE DEF Quiet, Scanned, ListOf
  <2> QED
    BY <2>2, <2>3, <2>4, <2>5, <2>6, SameListed
<1> QED
  BY <1>2, <1>3, <1>4, <1>5

\* The kernel.
LEMMA PlugLists ==
  ASSUME SInv, RInv, RInv', LockInv, MonitorInv, QueueInv, ListInv, host = "linux",
         NEW a \in Addr, Plug(a) \/ Unplug(a)
  PROVE  ListInv'
<1> SUFFICES ASSUME NEW e \in Ctx, ctx'[e].active PROVE ListOf(e)'
  BY DEF ListInv
<1>1. UNCHANGED <<monitor, dev, ctx, todo, walk>>
  BY DEF Plug, Unplug
<1>2. ctx[e].active /\ ListOf(e)
  BY <1>1 DEF ListInv
<1>3. (\A b : Lists(After, e, b) <=> Lists(Now, e, b)) /\ (OneEach(Now, e) => OneEach(After, e))
  <2>1. Remain(dev, dev')
    BY <1>1 DEF Remain
  <2> QED
    BY <1>1, <2>1, FrameLists
<1>4. \A b : Scanned(e, b)' <=> Scanned(e, b)
  BY <1>1 DEF Scanned, At
<1>5. CASE monitor = "running"
  <2>1. /\ \A b \in Addr \ {a} : b \in plugged' <=> b \in plugged
        /\ \A b : Quiet(e, b)' => Quiet(e, b) /\ b # a
    <3>1. Plug(a) => (\A b \in Addr \ {a} : b \in plugged' <=> b \in plugged)
                     /\ \A b : Quiet(e, b)' => Quiet(e, b) /\ b # a
      BY <1>5, PlugQueue, TRUE \in BOOLEAN
    <3>2. Unplug(a) => (\A b \in Addr \ {a} : b \in plugged' <=> b \in plugged)
                       /\ \A b : Quiet(e, b)' => Quiet(e, b) /\ b # a
      BY <1>5, PlugQueue, FALSE \in BOOLEAN
    <3> QED
      BY <3>1, <3>2
  <2>2. ctx'[e].at = "op_init" /\ monitor' = "none" => ctx'[e].list = <<>>
    BY <1>1, <1>5
  <2> HIDE DEF Quiet, Scanned, Lists, OneEach
  <2> QED
    BY <1>2, <1>3, <1>4, <2>1, <2>2, ListAfter DEF ListOf
<1>6. CASE monitor # "running"
  <2>1. ctx[e].at \in Active
    BY <1>2, ActiveIs
  <2>2. ctx[e].at = "op_init"
    BY <1>6, <2>1 DEF MonitorInv, Counted, Begun, Active, Starting, Up
  <2>3. monitor = "none"
    BY <1>6, <2>1, NotStopping DEF MonitorInv
  <2>4. ctx'[e].list = <<>> /\ \A b \in Addr : ~Scanned(e, b)'
    BY <1>1, <1>2, <2>2, <2>3 DEF ListOf, At, Scanned
  <2> QED
    BY <2>4, EmptyListed
<1> QED
  BY <1>5, <1>6

\* The netlink thread.
LEMMA NetlinkLists ==
  ASSUME SInv, RInv, RInv', LockInv, MonitorInv, QueueInv, ListInv, host = "linux", Races = {},
         NetlinkStep
  PROVE  ListInv'
<1> SUFFICES ASSUME NEW e \in Ctx, ctx'[e].active PROVE ListOf(e)'
  BY DEF ListInv
<1>1. CASE NetlinkReads \/ WalkNobody \/ NetlinkDone
  <2>1. UNCHANGED <<plugged, monitor, dev, ctx, todo>>
    BY <1>1 DEF NetlinkReads, WalkNobody, NetlinkDone, world
  <2>2. ctx[e].active /\ ListOf(e)
    BY <2>1 DEF ListInv
  <2>3. (\A b : Lists(After, e, b) <=> Lists(Now, e, b)) /\ (OneEach(Now, e) => OneEach(After, e))
    <3>1. Remain(dev, dev')
      BY <2>1 DEF Remain
    <3> QED
      BY <2>1, <3>1, FrameLists
  <2>4. \A b \in Addr : Quiet(e, b)' => Quiet(e, b)
    <3>1. CASE NetlinkReads
      <4>1. monitor = "running"
        BY <2>2, <3>1 DEF NetlinkReads, MonitorInv
      <4> QED
        BY <2>1, <2>2, <3>1, <4>1, ReadQueue DEF NetlinkReads
    <3>2. CASE WalkNobody
      BY <3>2 DEF WalkNobody, Quiet, Unread
    <3>3. CASE NetlinkDone
      BY <3>3 DEF NetlinkDone, Quiet, Unread
    <3> QED
      BY <1>1, <3>1, <3>2, <3>3
  <2>5. \A b \in Addr : Scanned(e, b)' => Scanned(e, b)
    BY <2>1 DEF Scanned, At
  <2>6. ctx'[e].at = "op_init" /\ monitor' = "none" => ctx'[e].list = <<>>
    BY <2>1, <2>2 DEF ListOf, At
  <2> HIDE DEF Quiet, Scanned, Lists, OneEach, ListOf
  <2> QED
    BY <2>1, <2>2, <2>3, <2>4, <2>5, <2>6, KeepsList
<1>2. CASE NetlinkEnds
  <2>1. ctx' = ctx /\ monitor = "stopping"
    BY <1>2 DEF NetlinkEnds
  <2> QED
    BY <2>1 DEF MonitorInv
<1>3. ASSUME NEW c \in Ctx, WalkOn(c) PROVE ListOf(e)'
  <2>1. CASE e = c
    <3>1. ListOf(c)'
      BY <1>3, WalkListed
    <3> QED
      BY <2>1, <3>1
  <2>2. CASE e # c
    <3>1. UNCHANGED <<plugged, uevents, monitor, todo>> /\ ctx'[e] = ctx[e]
      BY <1>3, <2>2, WalkStays DEF WalkOn
    <3>2. ctx[e].active /\ ListOf(e)
      BY <3>1 DEF ListInv
    <3>3. (\A b : Lists(After, e, b) <=> Lists(Now, e, b)) /\ (OneEach(Now, e) => OneEach(After, e))
      BY <1>3, <2>2, WalkListed DEF Elsewhere
    <3>4. \A b \in Addr : Quiet(e, b)' => Quiet(e, b)
      <4>1. walk' = IF walk.todo = {c} THEN NoWalk ELSE [walk EXCEPT !.todo = @ \ {c}]
        BY <1>3, WalkFacts
      <4>2. walk = [add |-> walk.add, addr |-> walk.addr, todo |-> walk.todo]
        BY <1>3, WalkStays DEF SInv, WalkInv, Walking
      <4>3. e \in walk.todo => e \in walk'.todo /\ walk'.addr = walk.addr
        BY <2>2, <4>1, <4>2
      <4> QED
        BY <3>1, <4>3 DEF Quiet, Unread
    <3>5. \A b \in Addr : Scanned(e, b)' => Scanned(e, b)
      BY <3>1 DEF Scanned, At
    <3>6. ctx'[e].at = "op_init" /\ monitor' = "none" => ctx'[e].list = <<>>
      BY <3>1, <3>2 DEF ListOf, At
    <3> HIDE DEF Quiet, Scanned, Lists, OneEach, ListOf
    <3> QED
      BY <3>1, <3>2, <3>3, <3>4, <3>5, <3>6, KeepsList
  <2> QED
    BY <2>1, <2>2
<1> QED
  BY <1>1, <1>2, <1>3 DEF NetlinkStep

\* The first state, in which nothing is listed.
LEMMA InitLists == ASSUME Init PROVE LInv
<1>1. \A c \in Ctx : ctx[c].at = "off" /\ ~ctx[c].active
  BY DEF Init, NewContext
<1>2. ~Walking /\ monitor = "none" /\ initCount = 0
      /\ locks = [init |-> None, startstop |-> None, hotplug |-> None]
  BY DEF Init, Walking
<1>3. Counted = {} /\ Begun = {}
  BY <1>1 DEF Counted, Begun, Up
<1>4. LockInv
  BY <1>1, <1>2 DEF LockInv, Starting, None
<1>5. MonitorInv
  BY <1>1, <1>2, <1>3, FS_EmptySet DEF MonitorInv, None, Netlink
<1> QED
  BY <1>1, <1>2, <1>4, <1>5 DEF LInv, QueueInv, ListInv

\* A step that changes nothing.
LEMMA StutterLists == ASSUME LInv, UNCHANGED vars PROVE LInv'
<1>1. UNCHANGED <<host, plugged, uevents, monitor, initCount, locks, walk, dev, ctx, todo, lost>>
  BY DEF vars
<1>2. LockInv' /\ MonitorInv'
  BY <1>1 DEF LInv, LockInv, MonitorInv, Walking, IsFree, Counted, Begun
<1>3. CASE host = "linux"
  <2>1. QueueInv'
    BY <1>1, <1>3, SameQueue DEF LInv
  <2>2. ListInv'
    <3> SUFFICES ASSUME NEW c \in Ctx, ctx'[c].active PROVE ListOf(c)'
      BY DEF ListInv
    <3>1. ListOf(c)
      BY <1>1, <1>3 DEF LInv, ListInv
    <3> QED
      BY <1>1, <3>1 DEF ListOf, Now, Lists, OneEach, Quiet, Unread, Scanned, At
  <2> QED
    BY <1>2, <2>1, <2>2 DEF LInv
<1> QED
  BY <1>1, <1>2, <1>3 DEF LInv

\* A step of the kernel, of the netlink thread or of a context keeps the lists true.
LEMMA StepLists ==
  ASSUME SInv, SInv', RInv, RInv', LInv, Races = {}, [Next]_vars PROVE LInv'
<1>1. CASE UNCHANGED vars
  BY <1>1, StutterLists
<1>2. CASE (\E a \in Addr : Plug(a) \/ Unplug(a)) \/ NetlinkStep
  <2>1. LockInv' /\ MonitorInv'
    BY <1>2, NetlinkLocks, NetlinkMonitor DEF LInv
  <2>2. host' = host
    BY <1>2 DEF Plug, Unplug, NetlinkStep, NetlinkReads, WalkNobody, NetlinkDone, NetlinkEnds,
       WalkOn, world
  <2>3. host = "linux" => QueueInv' /\ ListInv'
    BY <1>2, NetlinkQueue, PlugLists, NetlinkLists DEF LInv
  <2> QED
    BY <2>1, <2>2, <2>3 DEF LInv
<1>3. ASSUME NEW c \in Ctx, Session(c) PROVE LInv'
  <2>1. LockInv' /\ MonitorInv'
    BY <1>3, SessionLocks, SessionMonitor DEF LInv
  <2>2. host' = host
    <3>1. CASE Plainly(c)
      BY <3>1, PlainIs
    <3>2. CASE ~Plainly(c)
      BY <1>3, <3>2 DEF Session, Plainly, NewActive, OpInit, StartFails, ScanStart, ScanDone,
         OpInitDone, EventPipe, PollStart, PollOn, PollDone, OpenGone, OpenFails, OpExit, Join,
         world
    <3> QED
      BY <3>1, <3>2
  <2>3. ASSUME host = "linux" PROVE QueueInv' /\ ListInv'
    <3>1. QueueInv'
      BY <1>3, <2>3, SessionQueue DEF LInv
    <3>2. ASSUME NEW e \in Ctx, ctx'[e].active PROVE ListOf(e)'
      <4>1. CASE e = c
        <5>1. ListOf(c)'
          BY <1>3, <2>3, <3>2, <4>1, OwnGoesOn DEF LInv
        <5> QED
          BY <4>1, <5>1
      <4>2. CASE e # c
        BY <1>3, <2>3, <3>2, <4>2, OthersGoOn DEF LInv
      <4> QED
        BY <4>1, <4>2
    <3> QED
      BY <3>1, <3>2 DEF ListInv
  <2> QED
    BY <2>1, <2>2, <2>3 DEF LInv
<1>4. Over => UNCHANGED vars
  BY DEF Over
<1> QED
  BY <1>1, <1>2, <1>3, <1>4 DEF Next

\* A list that says the truth of every address has as many devices as are plugged.
LEMMA ListCounts ==
  ASSUME SInv, RInv, NEW c \in Ctx, OneEach(Now, c),
         \A a \in Addr : Lists(Now, c, a) <=> a \in plugged
  PROVE  /\ {dev[d].addr : d \in ToSet(ctx[c].list)} = plugged
         /\ Len(ctx[c].list) = Cardinality(plugged)
<1> DEFINE s == ctx[c].list
           f == [i \in 1..Len(s) |-> dev[s[i]].addr]
<1>1. /\ s \in Seq(Devs) /\ plugged \subseteq Addr
      /\ \A d : d \in ToSet(s) <=> InList(ctx[c], d)
  <2>1. ctx[c] \in Contexts
    BY DEF SInv, ContextOK
  <2> QED
    BY <2>1, ListSet DEF Contexts, SInv
<1>2. /\ \A i, j \in 1..Len(s) : s[i] = s[j] => i = j
      /\ \A i \in 1..Len(s) : s[i] \in Devs /\ InList(ctx[c], s[i]) /\ dev[s[i]].addr \in Addr
  <2>1. PointsOK(dev, lost, c, ctx[c]) /\ dev \in [Devs -> {Free} \union Structures]
    BY DEF RInv, Held, Now, Books
  <2>2. Len(s) \in Nat /\ DOMAIN s = 1..Len(s) /\ \A i \in 1..Len(s) : s[i] \in Devs
    BY <1>1
  <2>3. \A i, j \in 1..Len(s) : s[i] = s[j] => i = j
    BY <2>1, <2>2 DEF PointsOK
  <2>4. ASSUME NEW i \in 1..Len(s) PROVE InList(ctx[c], s[i]) /\ dev[s[i]].addr \in Addr
    <3>1. InList(ctx[c], s[i])
      BY <2>2 DEF InList
    <3>2. dev[s[i]] # Free
      BY <2>1, <2>2, <3>1 DEF PointsOK, PointsTo
    <3> QED
      BY <2>1, <2>2, <3>1, <3>2 DEF Structures
  <2> QED
    BY <2>2, <2>3, <2>4
<1>3. \A i \in 1..Len(s) : f[i] = dev[s[i]].addr /\ f[i] \in plugged
  BY <1>2 DEF Lists, Now
<1>4. \A a \in plugged : \E i \in 1..Len(s) : f[i] = a
  <2> SUFFICES ASSUME NEW a \in plugged PROVE \E i \in 1..Len(s) : f[i] = a
    OBVIOUS
  <2>1. PICK d \in Devs : InList(ctx[c], d) /\ dev[d].addr = a
    BY <1>1 DEF Lists, Now
  <2>2. PICK i \in DOMAIN s : s[i] = d
    BY <2>1 DEF InList
  <2>3. i \in 1..Len(s)
    BY SMTT(30), <1>1
  <2> QED
    BY <2>1, <2>2, <2>3
<1>5. \A i, j \in 1..Len(s) : f[i] = f[j] => i = j
  BY <1>2 DEF OneEach, Now
<1>6. {dev[d].addr : d \in ToSet(s)} = plugged
  <2>1. ASSUME NEW d \in ToSet(s) PROVE dev[d].addr \in plugged
    <3>1. PICK i \in 1..Len(s) : s[i] = d
      BY <1>1 DEF InList
    <3> QED
      BY <1>3, <3>1
  <2>2. ASSUME NEW a \in plugged PROVE \E d \in ToSet(s) : dev[d].addr = a
    <3>1. PICK i \in 1..Len(s) : f[i] = a
      BY <1>4
    <3>2. s[i] \in ToSet(s) /\ dev[s[i]].addr = a
      BY <1>1, <1>2, <3>1
    <3> QED
      BY <3>2
  <2> QED
    BY <2>1, <2>2
<1>7. Len(s) = Cardinality(plugged)
  <2>1. Len(s) \in Nat
    BY <1>1
  <2>2. f \in Bijection(1..Len(s), plugged)
    <3>1. f \in [1..Len(s) -> plugged] /\ DOMAIN f = 1..Len(s)
      BY <1>3
    <3> HIDE DEF f
    <3> QED
      BY <1>4, <1>5, <3>1 DEF Bijection, Injection, Surjection, IsInjective
  <2>3. ExistsBijection(1..Len(s), plugged)
    BY <2>2 DEF ExistsBijection
  <2>4. IsFiniteSet(1..Len(s)) /\ Cardinality(1..Len(s)) = Len(s)
    <3>1. ASSUME NEW n \in Nat PROVE IsFiniteSet(1..n) /\ Cardinality(1..n) = n
      <4>1. IsFiniteSet(1..n) /\ Cardinality(1..n) = IF 1 > n THEN 0 ELSE n - 1 + 1
        BY FS_Interval, 1 \in Int, n \in Int
      <4> QED
        BY <4>1
    <3> HIDE DEF s
    <3> QED
      BY <2>1, <3>1
  <2> HIDE DEF s, f
  <2> QED
    BY <2>3, <2>4, FS_Bijection
<1> QED
  BY <1>6, <1>7

\* What the invariant says when every uevent has been handled.
LEMMA ListsAreTrue == ASSUME SInv, RInv, LInv PROVE ListTrue
<1> SUFFICES ASSUME host = "linux", uevents = <<>>, ~Walking, NEW c \in Ctx, Followed(c)
             PROVE  /\ {dev[d].addr : d \in ToSet(ctx[c].list)} = plugged
                    /\ Len(ctx[c].list) = Cardinality(plugged)
  BY DEF ListTrue
<1>1. ListOf(c)
  BY DEF LInv, ListInv, Followed
<1>2. \A a : Quiet(c, a) /\ Scanned(c, a)
  BY DEF Quiet, Unread, Walking, NoWalk, Scanned, Followed, At
<1> HIDE DEF Quiet, Scanned
<1>3. OneEach(Now, c) /\ \A a \in Addr : Lists(Now, c, a) <=> a \in plugged
  BY <1>1, <1>2 DEF ListOf
<1> QED
  BY <1>3, ListCounts

\* While devices come and go, the monitor starts and stops, contexts scan, follow uevents and
\* exit, each list says the truth of every address no uevent of which is on its way to it.
\* Short of the races.
THEOREM HotplugLists == ASSUME Races = {} PROVE Spec => [](SInv /\ RInv /\ LInv)
<1>1. Init => LInv
  BY InitLists
<1>2. (SInv /\ RInv) /\ (SInv /\ RInv)' /\ LInv /\ [Next]_vars => LInv'
  BY StepLists
<1> QED
  BY <1>1, <1>2, HotplugReferences, PTL DEF Spec

\* When every uevent has been handled, each context that is past its scan lists each device
\* that is plugged once, and nothing else (linux_netlink.c, linux_usbfs.c).
THEOREM DevicesListed == ASSUME Races = {} PROVE Spec => []ListTrue
<1>1. SInv /\ RInv /\ LInv => ListTrue
  BY ListsAreTrue
<1> QED
  BY <1>1, HotplugLists, PTL

=============================================================================
