-------------------------- MODULE UsbEventsProofs --------------------------
(***************************************************************************)
(* For any transfers, timeouts and kernels: no wakeup is lost in libusb's  *)
(* event loop, and nobody has the control transfer once it is freed.       *)
(***************************************************************************)
EXTENDS UsbEventsInv, SequenceTheorems, FiniteSetTheorems, WellFoundedInduction, TLAPS

USE EventsAssumption

\* The threads are somewhere, and no function returns into a wait.
Threaded ==
  /\ th = [t \in Threads |-> th[t]]
  /\ \A t \in Threads : th[t].back # "asleep"

IInv == Threaded /\ NoSleeper

\* A thread that neither goes to sleep nor is about to wake another one disturbs
\* nobody's sleep, unless it says that it handles no events any more.
LEMMA MoveKeeps ==
  ASSUME IInv, NEW t \in Threads, NEW at, NEW x, NEW back, NEW st,
         Move(t, at, x, back, st), at # "asleep", back # "asleep",
         th[t].at \notin {"release", "broadcast"} \/ at \in {"release", "broadcast"},
         (active => active') \/ at = "release"
  PROVE  IInv'
<1>1. /\ th' = [u \in Threads |-> IF u = t THEN th'[t] ELSE th[u]]
      /\ th'[t].at = at /\ th'[t].back # "asleep"
  BY DEF Move, Place, IInv, Threaded
<1>2. \A u \in Threads \ {t} : th'[u] = th[u]
  BY <1>1
<1>3. Threaded'
  BY <1>1, <1>2 DEF Threaded, IInv
<1>4. ASSUME NEW u \in Threads, At(u, "asleep")'
      PROVE  active' \/ \E v \in Threads \ {u} : th'[v].at \in {"release", "broadcast"}
  <2>1. u # t /\ th'[u] = th[u] /\ At(u, "asleep")
    BY <1>1, <1>2, <1>4 DEF At
  <2>2. CASE at \in {"release", "broadcast"}
    BY <1>1, <2>1, <2>2
  <2>3. CASE at \notin {"release", "broadcast"}
    <3>1. (active => active') /\ th[t].at \notin {"release", "broadcast"}
      BY <2>3
    <3>2. CASE active
      BY <3>1, <3>2
    <3>3. PICK v \in Threads \ {u} : active \/ th[v].at \in {"release", "broadcast"}
      BY <2>1 DEF IInv, NoSleeper, Threads
    <3> QED
      BY <1>2, <3>1, <3>2, <3>3
  <2> QED
    BY <2>2, <2>3
<1> QED
  BY <1>3, <1>4 DEF IInv, NoSleeper

\* The same of a thread that stays with its transfer.
LEMMA GoKeeps ==
  ASSUME IInv, NEW t \in Threads, NEW at, Go(t, at), at # "asleep",
         th[t].at \notin {"release", "broadcast"} \/ at \in {"release", "broadcast"},
         (active => active') \/ at = "release"
  PROVE  IInv'
BY MoveKeeps DEF Go, IInv, Threaded

\* Every action of a thread.
LEMMA StepKeeps ==
  ASSUME IInv, NEW t \in Threads, Step(t) PROVE IInv'
<1> USE DEF At, locks, rest
<1> th[t].back # "asleep" /\ Submitted(t, TRUE) # "asleep" /\ Submitted(t, FALSE) # "asleep"
  BY DEF IInv, Threaded, Submitted
<1>1. CASE SubmitLock(t)
  BY <1>1, GoKeeps DEF SubmitLock
<1>2. CASE AddToFlyingList(t)
  BY <1>2, GoKeeps DEF AddToFlyingList
<1>3. CASE SubmitToKernel(t)
  BY <1>3, GoKeeps DEF SubmitToKernel
<1>4. CASE Return(t)
  BY <1>4, GoKeeps DEF Return
<1>5. CASE TryLock(t)
  BY <1>5, GoKeeps DEF TryLock
<1>6. CASE SetActive(t)
  BY <1>6, GoKeeps DEF SetActive
<1>7. CASE Locked(t)
  BY <1>7, GoKeeps DEF Locked
<1>8. CASE Unlock(t)
  BY <1>8, GoKeeps DEF Unlock
<1>9. CASE Release(t)
  BY <1>9, GoKeeps DEF Release
<1>10. CASE LockWaiters(t)
  BY <1>10, GoKeeps DEF LockWaiters
<1>11. CASE Awake(t)
  BY <1>11, GoKeeps DEF Awake
<1>12. CASE PollReady(t)
  BY <1>12, GoKeeps DEF PollReady
<1>13. CASE RemoveFlying(t)
  BY <1>13, GoKeeps DEF RemoveFlying
<1>14. CASE ClearPriv(t)
  BY <1>14, GoKeeps DEF ClearPriv
<1>15. CASE LockFlying(t)
  BY <1>15, GoKeeps DEF LockFlying
<1>16. CASE Cancel(t)
  BY <1>16, GoKeeps DEF Cancel
<1>17. CASE Mark(t)
  BY <1>17, GoKeeps DEF Mark
<1>18. CASE Enter(t)
  BY <1>18, MoveKeeps DEF Enter
<1>19. CASE WaitTimesOut(t)
  BY <1>19, MoveKeeps DEF WaitTimesOut
<1>20. CASE PollTimesOut(t)
  BY <1>20, MoveKeeps DEF PollTimesOut
<1>21. CASE Classify(t)
  BY <1>21, MoveKeeps DEF Classify
<1>22. CASE Reap(t)
  BY <1>22, GoKeeps, MoveKeeps DEF Reap
<1>23. CASE Disconnect(t)
  BY <1>23, GoKeeps, MoveKeeps DEF Disconnect
<1>24. CASE Scan(t)
  BY <1>24, GoKeeps, MoveKeeps DEF Scan
<1>25. CASE SetInFlight(t)
  <2>1. PICK at : at # "asleep" /\ Go(t, at)
    BY <1>25 DEF SetInFlight
  <2> QED
    BY <1>25, <2>1, GoKeeps DEF SetInFlight
<1>26. CASE SubmitFailed(t)
  BY <1>26, GoKeeps DEF SubmitFailed
<1>27. CASE PollGone(t)
  <2>1. AfterGone \in {"reap", "disconnect"}
    BY DEF AfterGone
  <2> QED
    BY <1>27, <2>1, GoKeeps DEF PollGone
<1>28. CASE Callback(t)
  <2>1. PICK at : at # "asleep" /\ Go(t, at)
    BY <1>28 DEF Callback
  <2> QED
    BY <1>28, <2>1, GoKeeps DEF Callback
<1>29. CASE Handle(t)
  <2>1. active' = active /\ th[t].at = "handle"
    BY <1>29 DEF Handle
  <2>2. CASE Go(t, "classify")
    BY <2>1, <2>2, GoKeeps
  <2>3. ASSUME NEW st, Move(t, "remove", th[t].x, "reap", st) PROVE IInv'
    BY <2>1, <2>3, MoveKeeps
  <2> QED
    BY <1>29, <2>2, <2>3 DEF Handle
<1>30. CASE CheckHandler(t)
  <2>1. CASE active /\ ~CheckCompleted(t)
    BY <1>30, <2>1 DEF CheckHandler, Go, Move, Place, IInv, Threaded, NoSleeper, HandlerWentAway
  <2>2. CASE ~active \/ CheckCompleted(t)
    BY <1>30, <2>2, GoKeeps DEF CheckHandler, HandlerWentAway
  <2> QED
    BY <2>1, <2>2
<1>31. CASE Broadcast(t)
  <2>1. \A u \in Threads : th'[u].at # "asleep"
    BY <1>31 DEF Broadcast, Place
  <2>2. Threaded'
    BY <1>31 DEF Broadcast, Place, IInv, Threaded
  <2> QED
    BY <2>1, <2>2 DEF IInv, NoSleeper
<1> QED
  BY <1>1, <1>2, <1>3, <1>4, <1>5, <1>6, <1>7, <1>8, <1>9, <1>10, <1>11, <1>12,
     <1>13, <1>14, <1>15, <1>16, <1>17, <1>18, <1>19, <1>20, <1>21, <1>22, <1>23,
     <1>24, <1>25, <1>26, <1>27, <1>28, <1>29, <1>30, <1>31
  DEF Step

LEMMA NextKeeps == IInv /\ [Next]_vars => IInv'
<1> SUFFICES ASSUME IInv, [Next]_vars PROVE IInv'
  OBVIOUS
<1> USE DEF At, locks, xfers, rest
<1>1. ASSUME NEW t \in Threads, Step(t) PROVE IInv'
  BY <1>1, StepKeeps
<1>2. CASE StartStream
  BY <1>2, GoKeeps, MoveKeeps DEF StartStream, Threads
<1>3. CASE ReadOn
  BY <1>3, GoKeeps DEF ReadOn, Threads
<1>4. CASE StartControl
  BY <1>4, MoveKeeps DEF StartControl, Threads
<1>5. CASE FinishControl \/ StopHandles
  BY <1>5, GoKeeps DEF FinishControl, StopHandles, Threads
<1>6. ASSUME UNCHANGED <<th, active>> PROVE IInv'
  BY <1>6 DEF IInv, Threaded, NoSleeper
<1>7. ASSUME NEW x \in Xfers, KernelCompletes(x) PROVE IInv'
  BY <1>6, <1>7 DEF KernelCompletes
<1>8. CASE Unplug
  BY <1>6, <1>8 DEF Unplug
<1>9. CASE Tick
  BY <1>6, <1>9 DEF Tick
<1>10. CASE UNCHANGED vars
  BY <1>6, <1>10 DEF vars
<1> QED
  BY <1>1, <1>2, <1>3, <1>4, <1>5, <1>7, <1>8, <1>9, <1>10 DEF Next

\* Nobody sleeps in libusb_wait_for_event unless another thread handles events or
\* is about to wake it: whatever happens between the failed try of the events lock
\* and the wait, no wakeup is lost.
THEOREM NoWakeupLost == Spec => []NoSleeper
<1>1. Init => IInv
  BY DEF Init, IInv, Threaded, NoSleeper, At
<1>2. IInv => NoSleeper
  BY DEF IInv
<1> QED
  BY <1>1, <1>2, NextKeeps, PTL DEF Spec

-----------------------------------------------------------------------------
(* The lists.                                                                *)

LEMMA MinIsMember ==
  ASSUME NEW S \in SUBSET Nat, S # {} PROVE Min(S) \in S /\ \A j \in S : Min(S) <= j
<1>1. PICK i \in S : \A j \in S : ~(<<j, i>> \in OpToRel(<, Nat))
  BY WFMin, NatLessThanWellFounded
<1>2. ASSUME NEW j \in S PROVE i <= j
  <2>1. ~(<<j, i>> \in {ss \in Nat \X Nat : ss[1] < ss[2]})
    BY <1>1 DEF OpToRel
  <2>2. <<j, i>> \in Nat \X Nat /\ j \in Nat /\ i \in Nat
    OBVIOUS
  <2>3. ~(j < i)
    BY <2>1, <2>2
  <2> QED
    BY <2>2, <2>3
<1> QED
  BY <1>2 DEF Min

LEMMA JoinedFacts ==
  ASSUME NEW s \in Seq(Xfers), NEW r \in Seq(Xfers), Once(s), Once(r),
         Control \notin ToSet(s) \/ Control \notin ToSet(r)
  PROVE  s \o r \in Seq(Xfers) /\ Once(s \o r) /\ ToSet(s \o r) = ToSet(s) \union ToSet(r)
<1> DEFINE c == s \o r
<1>1. /\ Len(s) \in Nat /\ Len(r) \in Nat /\ DOMAIN s = 1 .. Len(s) /\ DOMAIN r = 1 .. Len(r)
      /\ c \in Seq(Xfers) /\ DOMAIN c = 1 .. Len(s) + Len(r)
      /\ \A n \in 1 .. Len(s) : c[n] = s[n]
      /\ \A n \in 1 .. Len(r) : c[Len(s) + n] = r[n]
  OBVIOUS
<1> HIDE DEF c
<1>2. ASSUME NEW n \in DOMAIN c
      PROVE  \/ n \in DOMAIN s /\ c[n] = s[n]
             \/ n - Len(s) \in DOMAIN r /\ c[n] = r[n - Len(s)] /\ n \in Int
  <2>1. CASE n \in 1 .. Len(s)
    BY <1>1, <2>1
  <2>2. CASE n \notin 1 .. Len(s)
    <3>1. n - Len(s) \in 1 .. Len(r) /\ Len(s) + (n - Len(s)) = n
      BY <1>1, <2>2
    <3> QED
      BY <1>1, <3>1
  <2> QED
    BY <2>1, <2>2
<1>3. Once(c)
  <2> SUFFICES ASSUME NEW n \in DOMAIN c, NEW m \in DOMAIN c, c[n] = Control, c[m] = Control
               PROVE  n = m
    BY DEF Once
  <2>1. CASE Control \notin ToSet(s)
    <3>1. n - Len(s) \in DOMAIN r /\ r[n - Len(s)] = Control
      BY <1>2, <2>1 DEF ToSet
    <3>2. m - Len(s) \in DOMAIN r /\ r[m - Len(s)] = Control
      BY <1>2, <2>1 DEF ToSet
    <3>3. n - Len(s) = m - Len(s)
      BY <3>1, <3>2 DEF Once
    <3> QED
      BY <1>1, <3>3
  <2>2. CASE Control \notin ToSet(r)
    BY <1>2, <2>2 DEF ToSet, Once
  <2> QED
    BY <2>1, <2>2
<1>4. ToSet(c) \subseteq ToSet(s) \union ToSet(r)
  BY <1>2 DEF ToSet
<1>5. ToSet(s) \union ToSet(r) \subseteq ToSet(c)
  <2>1. \A n \in DOMAIN s : n \in DOMAIN c /\ c[n] = s[n]
    BY <1>1
  <2>2. \A n \in DOMAIN r : Len(s) + n \in DOMAIN c /\ c[Len(s) + n] = r[n]
    BY SMTT(30), <1>1
  <2> QED
    BY <2>1, <2>2 DEF ToSet
<1> QED
  BY <1>1, <1>3, <1>4, <1>5 DEF c

LEMMA PartFacts ==
  ASSUME NEW s \in Seq(Xfers), Once(s), NEW a \in 1 .. Len(s) + 1, NEW b \in 0 .. Len(s)
  PROVE  /\ SubSeq(s, a, b) \in Seq(Xfers) /\ Once(SubSeq(s, a, b))
         /\ \A n \in DOMAIN SubSeq(s, a, b) :
              /\ n + a - 1 \in a .. b /\ n + a - 1 \in DOMAIN s
              /\ SubSeq(s, a, b)[n] = s[n + a - 1]
<1> DEFINE p == SubSeq(s, a, b)
<1>1. a \in Int /\ b \in Int /\ Len(s) \in Nat /\ DOMAIN s = 1 .. Len(s)
  OBVIOUS
<1>2. \A n \in a .. b : s[n] \in Xfers
  OBVIOUS
<1>3. /\ p \in Seq(Xfers) /\ Len(p) = IF a <= b THEN b - a + 1 ELSE 0
      /\ \A n \in 1 .. b - a + 1 : p[n] = s[a + n - 1]
  BY SMTT(30), <1>1, <1>2, SubSeqProperties
<1>4. DOMAIN p = 1 .. Len(p)
  BY <1>3
<1> HIDE DEF p
<1>5. ASSUME NEW n \in DOMAIN p
      PROVE  n + a - 1 \in a .. b /\ n + a - 1 \in DOMAIN s /\ p[n] = s[n + a - 1] /\ n \in Nat
  <2>1. n \in 1 .. Len(p) /\ a <= b /\ Len(p) = b - a + 1
    BY <1>3, <1>4
  <2>2. n \in 1 .. b - a + 1 /\ a + n - 1 = n + a - 1
    BY <2>1, <1>1
  <2>3. p[n] = s[n + a - 1]
    BY <1>3, <2>2
  <2>4. n + a - 1 \in a .. b
    BY SMTT(30), <1>1, <2>2
  <2> QED
    BY SMTT(30), <1>1, <2>2, <2>3, <2>4
<1>6. Once(p)
  <2> SUFFICES ASSUME NEW n \in DOMAIN p, NEW m \in DOMAIN p, p[n] = Control, p[m] = Control
               PROVE  n = m
    BY DEF Once
  <2>1. n + a - 1 = m + a - 1
    BY <1>5 DEF Once
  <2> QED
    BY <1>1, <1>5, <2>1
<1> QED
  BY <1>3, <1>5, <1>6 DEF p

LEMMA WithoutFacts ==
  ASSUME NEW s \in Seq(Xfers), NEW x \in Xfers, Once(s)
  PROVE  /\ Without(s, x) \in Seq(Xfers) /\ Once(Without(s, x))
         /\ ToSet(Without(s, x)) \subseteq ToSet(s)
         /\ x = Control => Control \notin ToSet(Without(s, x))
<1> DEFINE i == CHOOSE n \in DOMAIN s : s[n] = x
           p == SubSeq(s, 1, i - 1)
           r == SubSeq(s, i + 1, Len(s))
<1>1. CASE x \notin ToSet(s)
  BY <1>1 DEF Without
<1>2. CASE x \in ToSet(s)
  <2>1. i \in DOMAIN s /\ s[i] = x /\ Without(s, x) = p \o r
    BY <1>2 DEF Without, ToSet, RemoveAt
  <2>2. Len(s) \in Nat /\ i \in 1 .. Len(s) /\ DOMAIN s = 1 .. Len(s)
    BY SMTT(30), <2>1
  <2> HIDE DEF i
  <2>3. 1 \in 1 .. Len(s) + 1 /\ i - 1 \in 0 .. Len(s)
        /\ i + 1 \in 1 .. Len(s) + 1 /\ Len(s) \in 0 .. Len(s)
    BY <2>2
  <2>4. /\ p \in Seq(Xfers) /\ Once(p)
        /\ \A n \in DOMAIN p : n + 1 - 1 \in 1 .. i - 1 /\ n + 1 - 1 \in DOMAIN s /\ p[n] = s[n + 1 - 1]
    BY <2>3, PartFacts
  <2> DEFINE from == i + 1
  <2>5. /\ r \in Seq(Xfers) /\ Once(r)
        /\ \A n \in DOMAIN r : /\ n + (i + 1) - 1 \in i + 1 .. Len(s)
                               /\ n + (i + 1) - 1 \in DOMAIN s /\ r[n] = s[n + (i + 1) - 1]
    <3>1. from \in 1 .. Len(s) + 1 /\ Len(s) \in 0 .. Len(s) /\ r = SubSeq(s, from, Len(s))
      BY <2>3
    <3> HIDE DEF from, r
    <3>2. /\ r \in Seq(Xfers) /\ Once(r)
          /\ \A n \in DOMAIN r : /\ n + from - 1 \in from .. Len(s)
                                 /\ n + from - 1 \in DOMAIN s /\ r[n] = s[n + from - 1]
      BY <3>1, PartFacts, Zenon
    <3> QED
      BY <3>2 DEF from
  <2> HIDE DEF p, r
  <2>6. \A e \in ToSet(p) : \E n \in 1 .. i - 1 : n \in DOMAIN s /\ e = s[n]
    BY <2>4 DEF ToSet
  <2>7. \A e \in ToSet(r) : \E n \in i + 1 .. Len(s) : n \in DOMAIN s /\ e = s[n]
    BY <2>5 DEF ToSet
  <2>8. ToSet(p) \union ToSet(r) \subseteq ToSet(s)
    BY <2>6, <2>7 DEF ToSet
  <2>9. Control \notin ToSet(p) \/ Control \notin ToSet(r)
    <3> SUFFICES ASSUME Control \in ToSet(p), Control \in ToSet(r) PROVE FALSE
      OBVIOUS
    <3>1. PICK n \in 1 .. i - 1 : n \in DOMAIN s /\ Control = s[n]
      BY <2>6
    <3>2. PICK m \in i + 1 .. Len(s) : m \in DOMAIN s /\ Control = s[m]
      BY <2>7
    <3>3. n # m
      BY <2>2, <3>1, <3>2
    <3> QED
      BY <3>1, <3>2, <3>3 DEF Once
  <2>10. x = Control => Control \notin ToSet(p) \union ToSet(r)
    <3> SUFFICES ASSUME s[i] = Control, i \in DOMAIN s, Control \in ToSet(p) \union ToSet(r) PROVE FALSE
      BY <2>1
    <3>1. \A n \in DOMAIN s : s[n] = Control => n = i
      BY DEF Once
    <3>2. \A n \in 1 .. i - 1 : n # i
      BY <2>2
    <3>3. \A n \in i + 1 .. Len(s) : n # i
      BY <2>2
    <3> QED
      BY <2>6, <2>7, <3>1, <3>2, <3>3
  <2>11. /\ p \o r \in Seq(Xfers) /\ Once(p \o r)
         /\ ToSet(p \o r) = ToSet(p) \union ToSet(r)
    BY <2>4, <2>5, <2>9, JoinedFacts
  <2> QED
    BY <2>1, <2>8, <2>10, <2>11
<1> QED
  BY <1>1, <1>2

LEMMA InsertAtFacts ==
  ASSUME NEW s \in Seq(Xfers), NEW i \in 1 .. Len(s) + 1, NEW x \in Xfers, Once(s),
         x = Control => Control \notin ToSet(s)
  PROVE  /\ InsertAt(s, i, x) \in Seq(Xfers) /\ Once(InsertAt(s, i, x))
         /\ ToSet(InsertAt(s, i, x)) \subseteq ToSet(s) \union {x}
<1> DEFINE p == SubSeq(s, 1, i - 1)
           r == SubSeq(s, i, Len(s))
<1>1. InsertAt(s, i, x) = (p \o <<x>>) \o r
  BY DEF InsertAt
<1>2. 1 \in 1 .. Len(s) + 1 /\ i - 1 \in 0 .. Len(s) /\ Len(s) \in 0 .. Len(s) /\ Len(s) \in Nat
  OBVIOUS
<1>4. /\ p \in Seq(Xfers) /\ Once(p)
      /\ \A n \in DOMAIN p : n + 1 - 1 \in 1 .. i - 1 /\ n + 1 - 1 \in DOMAIN s /\ p[n] = s[n + 1 - 1]
  BY <1>2, PartFacts
<1>5. /\ r \in Seq(Xfers) /\ Once(r)
      /\ \A n \in DOMAIN r : n + i - 1 \in i .. Len(s) /\ n + i - 1 \in DOMAIN s /\ r[n] = s[n + i - 1]
  BY <1>2, PartFacts
<1> HIDE DEF p, r
<1>6. \A e \in ToSet(p) : \E n \in 1 .. i - 1 : n \in DOMAIN s /\ e = s[n]
  BY <1>4 DEF ToSet
<1>7. \A e \in ToSet(r) : \E n \in i .. Len(s) : n \in DOMAIN s /\ e = s[n]
  BY <1>5 DEF ToSet
<1>8. ToSet(p) \union ToSet(r) \subseteq ToSet(s)
  BY <1>6, <1>7 DEF ToSet
<1>9. Control \notin ToSet(p) \/ Control \notin ToSet(r)
  <2> SUFFICES ASSUME Control \in ToSet(p), Control \in ToSet(r) PROVE FALSE
    OBVIOUS
  <2>1. PICK n \in 1 .. i - 1 : n \in DOMAIN s /\ Control = s[n]
    BY <1>6
  <2>2. PICK m \in i .. Len(s) : m \in DOMAIN s /\ Control = s[m]
    BY <1>7
  <2>3. n # m
    BY <1>2, <2>1, <2>2
  <2> QED
    BY <2>1, <2>2, <2>3 DEF Once
<1>10. <<x>> \in Seq(Xfers) /\ Once(<<x>>) /\ ToSet(<<x>>) = {x}
  BY DEF Once, ToSet
<1>11. /\ p \o <<x>> \in Seq(Xfers) /\ Once(p \o <<x>>) /\ ToSet(p \o <<x>>) = ToSet(p) \union {x}
  BY <1>4, <1>8, <1>10, JoinedFacts
<1>12. Control \notin ToSet(p \o <<x>>) \/ Control \notin ToSet(r)
  BY <1>8, <1>9, <1>11
<1>13. /\ (p \o <<x>>) \o r \in Seq(Xfers) /\ Once((p \o <<x>>) \o r)
       /\ ToSet((p \o <<x>>) \o r) = ToSet(p \o <<x>>) \union ToSet(r)
  BY <1>5, <1>11, <1>12, JoinedFacts
<1> QED
  BY <1>1, <1>8, <1>11, <1>13

LEMMA AppendFacts ==
  ASSUME NEW s \in Seq(Xfers), NEW x \in Xfers, Once(s), x = Control => Control \notin ToSet(s)
  PROVE  /\ Append(s, x) \in Seq(Xfers) /\ Once(Append(s, x))
         /\ ToSet(Append(s, x)) = ToSet(s) \union {x}
<1>1. <<x>> \in Seq(Xfers) /\ Once(<<x>>) /\ ToSet(<<x>>) = {x}
  BY DEF Once, ToSet
<1>2. Append(s, x) = s \o <<x>>
  OBVIOUS
<1> QED
  BY <1>1, <1>2, JoinedFacts

LEMMA TailFacts ==
  ASSUME NEW s \in Seq(Xfers), s # <<>>, Once(s)
  PROVE  /\ Head(s) \in Xfers /\ Head(s) \in ToSet(s) /\ Tail(s) \in Seq(Xfers) /\ Once(Tail(s))
         /\ ToSet(Tail(s)) \subseteq ToSet(s)
         /\ Head(s) = Control => Control \notin ToSet(Tail(s))
<1>1. /\ Head(s) = s[1] /\ Len(s) \in Nat /\ 1 \in 1 .. Len(s) /\ DOMAIN s = 1 .. Len(s)
      /\ Tail(s) \in Seq(Xfers) /\ Len(Tail(s)) = Len(s) - 1 /\ DOMAIN Tail(s) = 1 .. Len(s) - 1
      /\ \A n \in 1 .. Len(s) - 1 : Tail(s)[n] = s[n + 1]
  OBVIOUS
<1>2. ASSUME NEW n \in DOMAIN Tail(s)
      PROVE  n + 1 \in DOMAIN s /\ n + 1 # 1 /\ Tail(s)[n] = s[n + 1]
  BY <1>1
<1>3. Once(Tail(s))
  BY <1>1, <1>2 DEF Once
<1>4. ToSet(Tail(s)) \subseteq ToSet(s)
  BY <1>2 DEF ToSet
<1>5. Head(s) = Control => Control \notin ToSet(Tail(s))
  BY <1>1, <1>2 DEF Once, ToSet
<1>6. Head(s) \in ToSet(s) /\ Head(s) \in Xfers
  BY <1>1 DEF ToSet
<1> QED
  BY <1>1, <1>3, <1>4, <1>5, <1>6

LEMMA GivenFacts ==
  ASSUME NEW P \in SUBSET Xfers, NEW given \in SetToSeqs(P)
  PROVE  given \in Seq(Xfers) /\ Once(given) /\ ToSet(given) \subseteq P
<1>1. Cardinality(P) \in Nat
  BY FS_AddElement, FS_Subset, FS_CardinalityType DEF Xfers
<1>2. /\ given \in [1 .. Cardinality(P) -> P]
      /\ \A i, j \in 1 .. Cardinality(P) : i # j => given[i] # given[j]
  BY DEF SetToSeqs
<1>3. given \in Seq(Xfers) /\ DOMAIN given = 1 .. Cardinality(P)
  BY <1>1, <1>2
<1> QED
  BY <1>2, <1>3 DEF Once, ToSet

LEMMA InsertedFacts ==
  ASSUME flying \in Seq(Xfers), NEW x \in Xfers, Once(flying), x = Control => Control \notin ToSet(flying)
  PROVE  /\ Inserted(x) \in Seq(Xfers) /\ Once(Inserted(x))
         /\ ToSet(Inserted(x)) \subseteq ToSet(flying) \union {x}
<1> DEFINE later == {i \in DOMAIN flying : left[flying[i]] > left[x]}
           i == IF later = {} THEN Len(flying) + 1 ELSE Min(later)
<1>1. Len(flying) \in Nat /\ later \subseteq Nat /\ later \subseteq 1 .. Len(flying)
  OBVIOUS
<1>2. i \in 1 .. Len(flying) + 1
  <2>1. CASE later = {}
    BY <1>1, <2>1
  <2>2. CASE later # {}
    <3>1. Min(later) \in later
      BY <1>1, <2>2, MinIsMember
    <3> QED
      BY <1>1, <2>2, <3>1
  <2> QED
    BY <2>1, <2>2
<1>3. Inserted(x) = InsertAt(flying, i, x)
  BY DEF Inserted
<1> HIDE DEF i
<1> QED
  BY <1>2, <1>3, InsertAtFacts

-----------------------------------------------------------------------------
(* A step of one thread.                                                     *)

USE DEF Submission, LockedSubmission, HandlingPlaces, Cancelling, TimingOut, WithXfer,
        Submitting, Marked

\* What a thread that moves leaves behind: itself at the new place.
LEMMA MoveFacts ==
  ASSUME th = [u \in Threads |-> th[u]], NEW t \in Threads, NEW at, NEW x, NEW back, NEW st,
         Move(t, at, x, back, st)
  PROVE  /\ th' = [u \in Threads |-> th'[u]]
         /\ \A u \in Threads \ {t} : th'[u] = th[u]
         /\ th'[t].at = at
         /\ th'[t].x = IF at \in WithXfer THEN x ELSE None
         /\ th'[t].back = IF at \in WithXfer \union {"timeouts", "scan"} THEN back ELSE "out"
<1>1. th' = [u \in Threads |-> IF u = t THEN Place(at, x, back, st) ELSE th[u]]
  BY DEF Move
<1> QED
  BY <1>1 DEF Place

\* A thread moves on without a transfer.
LEMMA QuietStep ==
  ASSUME FInv, NEW t \in Threads, \A u \in Threads \ {t} : th'[u] = th[u],
         th'[t].x = None,
         th'[t].at \in {"enter", "try", "waiters", "check", "asleep", "awake", "return", "broadcast",
                        "taken", "locked", "poll", "unlock", "release", "reap", "disconnect",
                        "timeouts", "scan", "out", "finish"},
         th'[t].back \in {"return", "unlock", "out"},
         th'[t].at \in {"timeouts", "scan"} <=> th'[t].back # "out",
         th'[t].at = "out" => t = "reader" \/ ~alloc,
         th'[t].at = "finish" => t = "cmd" /\ done /\ alloc,
         th[t].at \notin LockedSubmission,
         th[t].at = "submit" => th[t].x # Control,
         th'[t].at = "scan" => fl' = t,
         \A u \in Threads \ {t} : th[u].at \in TimingOut => fl' = fl,
         Handler(t)' => ev' = t,
         \A u \in Threads \ {t} : Handler(u) => ev' = ev,
         th'[t].at = "reap" => ~Disconnects,
         th'[t].at = "disconnect" => Disconnects,
         UNCHANGED <<flags, flying, urb, doneq, done, alloc, removed, plugged, reapAfter, xl>>
  PROVE  FInv'
<1>1. t \in {"reader", "cmd"} /\ None # Control /\ None \notin Xfers
  BY DEF Threads, Xfers, None, Control
<1>2. Returns'
  BY SMTT(30), <1>1 DEF FInv, Returns, ReturnsOf
<1>3. LockOwners'
  <2>1. OwnsLocks(t)'
    BY <1>1 DEF OwnsLocks
  <2>2. \A u \in Threads \ {t} : OwnsLocks(u)'
    BY DEF FInv, LockOwners, OwnsLocks, Handler
  <2> QED
    BY <2>1, <2>2 DEF LockOwners
<1>4. Lists'
  BY DEF FInv, Lists, Once
<1>5. ControlLife'
  BY <1>1 DEF FInv, ControlLife, CmdLife, Knows, Gone, Idle, Handling, Threads
<1>6. DisconnectInv'
  BY <1>1 DEF FInv, DisconnectInv, OnThatKernel, Disconnects
<1> QED
  BY <1>2, <1>3, <1>4, <1>5, <1>6 DEF FInv

Tidy == FInv /\ th = [u \in Threads |-> th[u]]

\* The steps of a thread that has no transfer at hand.
LEMMA QuietKeeps ==
  ASSUME Tidy, NEW t \in Threads,
         \/ Return(t) \/ Enter(t) \/ TryLock(t) \/ SetActive(t) \/ Locked(t) \/ Unlock(t)
         \/ Release(t) \/ LockWaiters(t) \/ CheckHandler(t) \/ WaitTimesOut(t) \/ Awake(t)
         \/ PollTimesOut(t) \/ PollReady(t) \/ LockFlying(t)
  PROVE  Tidy'
<1> USE DEF At, locks, xfers, rest, Go
<1>1. /\ Returns /\ LockOwners /\ DisconnectInv /\ ControlLife
      /\ t \in {"reader", "cmd"} /\ None \notin Threads
  BY DEF Tidy, FInv, Threads, None
<1>2. CASE Return(t)
  <2>1. /\ \A u \in Threads \ {t} : th'[u] = th[u]
        /\ th'[t].at \in {"out", "enter", "finish"} /\ th'[t].x = None
        /\ th'[t].at \notin {"timeouts", "scan"} => th'[t].back = "out"
        /\ (th'[t].at = "out" => t = "reader" \/ ~alloc)
        /\ (th'[t].at = "finish" => t = "cmd" /\ done /\ alloc)
        /\ th[t].at = "return" /\ UNCHANGED <<locks, xfers, rest>>
        /\ th' = [u \in Threads |-> th'[u]]
    BY <1>1, <1>2, MoveFacts DEF Return, Waits, Completed, Tidy
  <2> QED
    BY <1>1, <2>1, QuietStep DEF Tidy, Handler
<1>3. CASE Enter(t)
  <2>1. /\ \A u \in Threads \ {t} : th'[u] = th[u]
        /\ th'[t].at \in {"timeouts", "try"} /\ th'[t].x = None
        /\ th'[t].at \notin {"timeouts", "scan"} => th'[t].back = "out"
        /\ th'[t].at = "timeouts" => th'[t].back = "return"
        /\ th' = [u \in Threads |-> th'[u]]
    BY <1>1, <1>3, MoveFacts DEF Enter, Tidy
  <2> QED
    BY <1>1, <1>3, <2>1, QuietStep DEF Enter, Tidy, LockOwners, OwnsLocks, Handler, Returns, ReturnsOf, DisconnectInv, OnThatKernel, Disconnects
<1>4. CASE TryLock(t)
  <2>1. /\ \A u \in Threads \ {t} : th'[u] = th[u]
        /\ th'[t].at \in {"taken", "waiters"} /\ th'[t].x = None
        /\ th'[t].at \notin {"timeouts", "scan"} => th'[t].back = "out"
        /\ th'[t].at = "taken" => ev = None /\ ev' = t
        /\ th' = [u \in Threads |-> th'[u]]
    BY <1>1, <1>4, MoveFacts DEF TryLock, Tidy
  <2> QED
    BY <1>1, <1>4, <2>1, QuietStep DEF TryLock, Tidy, LockOwners, OwnsLocks, Handler, Returns, ReturnsOf, DisconnectInv, OnThatKernel, Disconnects
<1>5. CASE SetActive(t)
  <2>1. /\ \A u \in Threads \ {t} : th'[u] = th[u]
        /\ th'[t].at \in {"locked"} /\ th'[t].x = None
        /\ th'[t].at \notin {"timeouts", "scan"} => th'[t].back = "out"
        /\ th[t].at = "taken"
        /\ th' = [u \in Threads |-> th'[u]]
    BY <1>1, <1>5, MoveFacts DEF SetActive, Tidy
  <2> QED
    BY <1>1, <1>5, <2>1, QuietStep DEF SetActive, Tidy, LockOwners, OwnsLocks, Handler, Returns, ReturnsOf, DisconnectInv, OnThatKernel, Disconnects
<1>6. CASE Locked(t)
  <2>1. /\ \A u \in Threads \ {t} : th'[u] = th[u]
        /\ th'[t].at \in {"unlock", "poll"} /\ th'[t].x = None
        /\ th'[t].at \notin {"timeouts", "scan"} => th'[t].back = "out"
        /\ th[t].at = "locked"
        /\ th' = [u \in Threads |-> th'[u]]
    BY <1>1, <1>6, MoveFacts DEF Locked, Tidy
  <2> QED
    BY <1>1, <1>6, <2>1, QuietStep DEF Locked, Tidy, LockOwners, OwnsLocks, Handler, Returns, ReturnsOf, DisconnectInv, OnThatKernel, Disconnects
<1>7. CASE Unlock(t)
  <2>1. /\ \A u \in Threads \ {t} : th'[u] = th[u]
        /\ th'[t].at \in {"release"} /\ th'[t].x = None
        /\ th'[t].at \notin {"timeouts", "scan"} => th'[t].back = "out"
        /\ th[t].at = "unlock"
        /\ th' = [u \in Threads |-> th'[u]]
    BY <1>1, <1>7, MoveFacts DEF Unlock, Tidy
  <2> QED
    BY <1>1, <1>7, <2>1, QuietStep DEF Unlock, Tidy, LockOwners, OwnsLocks, Handler, Returns, ReturnsOf, DisconnectInv, OnThatKernel, Disconnects
<1>8. CASE Release(t)
  <2>1. /\ \A u \in Threads \ {t} : th'[u] = th[u]
        /\ th'[t].at \in {"broadcast"} /\ th'[t].x = None
        /\ th'[t].at \notin {"timeouts", "scan"} => th'[t].back = "out"
        /\ th[t].at = "release"
        /\ th' = [u \in Threads |-> th'[u]]
    BY <1>1, <1>8, MoveFacts DEF Release, Tidy
  <2> QED
    BY <1>1, <1>8, <2>1, QuietStep DEF Release, Tidy, LockOwners, OwnsLocks, Handler, Returns, ReturnsOf, DisconnectInv, OnThatKernel, Disconnects
<1>9. CASE LockWaiters(t)
  <2>1. /\ \A u \in Threads \ {t} : th'[u] = th[u]
        /\ th'[t].at \in {"check"} /\ th'[t].x = None
        /\ th'[t].at \notin {"timeouts", "scan"} => th'[t].back = "out"
        /\ th[t].at = "waiters"
        /\ th' = [u \in Threads |-> th'[u]]
    BY <1>1, <1>9, MoveFacts DEF LockWaiters, Tidy
  <2> QED
    BY <1>1, <1>9, <2>1, QuietStep DEF LockWaiters, Tidy, LockOwners, OwnsLocks, Handler, Returns, ReturnsOf, DisconnectInv, OnThatKernel, Disconnects
<1>10. CASE CheckHandler(t)
  <2>1. /\ \A u \in Threads \ {t} : th'[u] = th[u]
        /\ th'[t].at \in {"return", "try", "asleep"} /\ th'[t].x = None
        /\ th'[t].at \notin {"timeouts", "scan"} => th'[t].back = "out"
        /\ th[t].at = "check"
        /\ th' = [u \in Threads |-> th'[u]]
    BY <1>1, <1>10, MoveFacts DEF CheckHandler, Tidy
  <2> QED
    BY <1>1, <1>10, <2>1, QuietStep DEF CheckHandler, Tidy, LockOwners, OwnsLocks, Handler, Returns, ReturnsOf, DisconnectInv, OnThatKernel, Disconnects
<1>11. CASE WaitTimesOut(t)
  <2>1. /\ \A u \in Threads \ {t} : th'[u] = th[u]
        /\ th'[t].at \in {"timeouts"} /\ th'[t].x = None
        /\ th'[t].at \notin {"timeouts", "scan"} => th'[t].back = "out"
        /\ th'[t].back = "return"
        /\ th' = [u \in Threads |-> th'[u]]
    BY <1>1, <1>11, MoveFacts DEF WaitTimesOut, Tidy
  <2> QED
    BY <1>1, <1>11, <2>1, QuietStep DEF WaitTimesOut, Tidy, LockOwners, OwnsLocks, Handler, Returns, ReturnsOf, DisconnectInv, OnThatKernel, Disconnects
<1>12. CASE Awake(t)
  <2>1. /\ \A u \in Threads \ {t} : th'[u] = th[u]
        /\ th'[t].at \in {"return"} /\ th'[t].x = None
        /\ th'[t].at \notin {"timeouts", "scan"} => th'[t].back = "out"
        /\ th[t].at = "awake"
        /\ th' = [u \in Threads |-> th'[u]]
    BY <1>1, <1>12, MoveFacts DEF Awake, Tidy
  <2> QED
    BY <1>1, <1>12, <2>1, QuietStep DEF Awake, Tidy, LockOwners, OwnsLocks, Handler, Returns, ReturnsOf, DisconnectInv, OnThatKernel, Disconnects
<1>13. CASE PollTimesOut(t)
  <2>1. /\ \A u \in Threads \ {t} : th'[u] = th[u]
        /\ th'[t].at \in {"timeouts"} /\ th'[t].x = None
        /\ th'[t].at \notin {"timeouts", "scan"} => th'[t].back = "out"
        /\ th'[t].back = "unlock" /\ th[t].at = "poll"
        /\ th' = [u \in Threads |-> th'[u]]
    BY <1>1, <1>13, MoveFacts DEF PollTimesOut, Tidy
  <2> QED
    BY <1>1, <1>13, <2>1, QuietStep DEF PollTimesOut, Tidy, LockOwners, OwnsLocks, Handler, Returns, ReturnsOf, DisconnectInv, OnThatKernel, Disconnects
<1>14. CASE PollReady(t)
  <2>1. /\ \A u \in Threads \ {t} : th'[u] = th[u]
        /\ th'[t].at \in {"reap"} /\ th'[t].x = None
        /\ th'[t].at \notin {"timeouts", "scan"} => th'[t].back = "out"
        /\ th[t].at = "poll" /\ plugged
        /\ th' = [u \in Threads |-> th'[u]]
    BY <1>1, <1>14, MoveFacts DEF PollReady, Tidy
  <2> QED
    BY <1>1, <1>14, <2>1, QuietStep DEF PollReady, Tidy, LockOwners, OwnsLocks, Handler, Returns, ReturnsOf, DisconnectInv, OnThatKernel, Disconnects
<1>15. CASE LockFlying(t)
  <2>1. /\ \A u \in Threads \ {t} : th'[u] = th[u]
        /\ th'[t].at \in {"scan"} /\ th'[t].x = None
        /\ th'[t].at \notin {"timeouts", "scan"} => th'[t].back = "out"
        /\ th[t].at = "timeouts" /\ th'[t].back = th[t].back /\ fl = None /\ fl' = t
        /\ th' = [u \in Threads |-> th'[u]]
    BY <1>1, <1>15, MoveFacts DEF LockFlying, Tidy
  <2> QED
    BY <1>1, <1>15, <2>1, QuietStep DEF LockFlying, Tidy, LockOwners, OwnsLocks, Handler, Returns, ReturnsOf, DisconnectInv, OnThatKernel, Disconnects
<1> QED
  BY <1>2, <1>3, <1>4, <1>5, <1>6, <1>7, <1>8, <1>9, <1>10, <1>11, <1>12, <1>13, <1>14, <1>15

\* Only thread t moves.
Alone(t) == \A u \in Threads \ {t} : th'[u] = th[u]

LEMMA ReturnsFrom ==
  ASSUME Returns, NEW t \in Threads, Alone(t), ReturnsOf(t)' PROVE Returns'
BY DEF Returns, ReturnsOf, Alone

LEMMA LockOwnersFrom ==
  ASSUME LockOwners, NEW t \in Threads, Alone(t), OwnsLocks(t)',
         ev' = ev \/ ev = t, fl' = fl \/ fl = t,
         \A x \in Xfers : xl'[x] = xl[x] \/ xl[x] = t \/ xl[x] = None,
         \A u \in Threads : th[u].at \in LockedSubmission => th[u].x \in Xfers
  PROVE  LockOwners'
<1>1. None \notin Threads
  BY DEF None, Threads
<1> QED
  BY <1>1 DEF LockOwners, OwnsLocks, Handler, Alone

LEMMA DisconnectFrom ==
  ASSUME DisconnectInv, NEW t \in Threads, Alone(t), OnThatKernel(t)',
         UNCHANGED <<removed, plugged, reapAfter>>,
         Marked' => Marked \/ Disconnects
  PROVE  DisconnectInv'
BY DEF DisconnectInv, OnThatKernel, Disconnects, Alone

LEMMA Context ==
  ASSUME Tidy, NEW t \in Threads
  PROVE  /\ Returns /\ LockOwners /\ Lists /\ ControlLife /\ DisconnectInv
         /\ t \in {"reader", "cmd"} /\ None \notin Threads /\ Threads = {"reader", "cmd"}
         /\ None \notin Xfers /\ Control \in Xfers
         /\ th = [u \in Threads |-> th[u]]
         /\ \A u \in Threads : th[u].at \in LockedSubmission => th[u].x \in Xfers
         /\ ReturnsOf(t) /\ OwnsLocks(t) /\ OnThatKernel(t) /\ CmdLife /\ Knows(t)
BY DEF Tidy, FInv, Threads, None, Returns, ReturnsOf, LockOwners, DisconnectInv, ControlLife, Xfers, Control

LEMMA Together ==
  ASSUME Tidy, NEW t \in Threads, Alone(t), th' = [u \in Threads |-> th'[u]],
         ReturnsOf(t)', OwnsLocks(t)', OnThatKernel(t)',
         ev' = ev \/ ev = t, fl' = fl \/ fl = t,
         \A x \in Xfers : xl'[x] = xl[x] \/ xl[x] = t \/ xl[x] = None,
         Lists', ControlLife', UNCHANGED <<removed, plugged, reapAfter>>,
         Marked' => Marked \/ Disconnects
  PROVE  Tidy'
<1>1. Returns' /\ LockOwners' /\ DisconnectInv'
  BY Context, ReturnsFrom, LockOwnersFrom, DisconnectFrom
<1> QED
  BY <1>1 DEF Tidy, FInv

\* Only the thread that handles events can have a transfer between reaping and callback.
LEMMA OneHandler ==
  ASSUME LockOwners, NEW t \in Threads, Handler(t), NEW u \in Threads, Handling(u) PROVE u = t
BY DEF LockOwners, OwnsLocks, Handler, Handling

\* A thread works on another transfer than cmd's, or on none.
LEMMA OtherTransfer ==
  ASSUME ControlLife, NEW t \in Threads, Alone(t),
         th[t].at \in WithXfer => th[t].x # Control,
         th'[t].at \in WithXfer => th'[t].x # Control,
         t = "cmd" => th[t].at # "out" /\ th'[t].at # "out" /\ th'[t].at # "finish",
         "IN_FLIGHT" \in flags'[Control] => "IN_FLIGHT" \in flags[Control],
         urb'[Control] = urb[Control], xl'[Control] = xl[Control],
         Control \in ToSet(flying') => Control \in ToSet(flying),
         (\E u \in Threads : th[u].at \in Cancelling) => flying' = flying,
         alloc' <=> alloc, done' <=> done
  PROVE  ControlLife'
<1>1. t \in {"reader", "cmd"} /\ Threads = {"reader", "cmd"}
  BY DEF Threads
<1>2. \A u \in Threads : Handling(u)' <=> Handling(u) /\ u # t
  BY <1>1 DEF Handling, Alone
<1>3. \A u \in Threads : Knows(u)'
  BY <1>1, <1>2 DEF ControlLife, Knows, Alone, Handling
<1>4. CmdLife'
  <2>1. CASE t = "cmd"
    BY <1>1, <1>2, <2>1 DEF ControlLife, CmdLife, Idle, Gone, Alone, Handling
  <2>2. CASE t # "cmd"
    BY <1>1, <1>2, <2>2 DEF ControlLife, CmdLife, Idle, Gone, Alone, Handling
  <2> QED
    BY <2>1, <2>2
<1> QED
  BY <1>3, <1>4 DEF ControlLife

-----------------------------------------------------------------------------
(* The actions.                                                              *)

LEMMA SubmitLockKeeps == ASSUME Tidy, NEW t \in Threads, SubmitLock(t) PROVE Tidy'
<1> DEFINE x == th[t].x
<1> USE DEF At, locks, xfers, rest, Go
<1>1. /\ th[t].at = "submit" /\ x \in Xfers
      /\ th'[t].at = "add" /\ th'[t].x = x /\ th'[t].back = th[t].back
      /\ Alone(t) /\ th' = [u \in Threads |-> th'[u]]
  <2>1. th[t].at = "submit" /\ x \in Xfers
    BY Context DEF SubmitLock, ReturnsOf
  <2>2. Move(t, "add", th[t].x, th[t].back, th[t].st)
    BY DEF SubmitLock
  <2> QED
    BY <2>1, <2>2, Context, MoveFacts DEF ReturnsOf, Alone
<1>3. ReturnsOf(t)'
  BY <1>1, Context DEF ReturnsOf
<1>4. OwnsLocks(t)' /\ OnThatKernel(t)' /\ UNCHANGED <<removed, plugged, reapAfter>>
  BY <1>1, Context DEF SubmitLock, OwnsLocks, Handler, OnThatKernel, Disconnects, ReturnsOf, Lists
<1>5. Lists'
  BY <1>1, Context DEF SubmitLock, Lists, Once, ReturnsOf, CmdLife, Knows, Handling
<1>6. ControlLife'
  <2>1. CASE x # Control
    BY <1>1, <2>1, Context, OtherTransfer DEF SubmitLock, Lists, OwnsLocks, LockOwners, ReturnsOf
  <2>2. CASE x = Control
    <3>1. CmdLife'
      BY ZenonT(40), <1>1, <2>2, Context DEF SubmitLock, CmdLife, Idle, Gone, Handling, Lists, ReturnsOf, OwnsLocks, Knows, Alone
    <3>2. ASSUME NEW u \in Threads PROVE Knows(u)'
      BY SMTT(30), <1>1, <2>2, Context DEF SubmitLock, CmdLife, Idle, Gone, Handling, Lists, ReturnsOf, OwnsLocks, LockOwners, Knows, ControlLife, Alone
    <3> QED
      BY <3>1, <3>2 DEF ControlLife
  <2> QED
    BY <2>1, <2>2
<1>7. /\ ev' = ev \/ ev = t
      /\ fl' = fl \/ fl = t
      /\ \A y \in Xfers : xl'[y] = xl[y] \/ xl[y] = t \/ xl[y] = None
      /\ Marked' => Marked \/ Disconnects
  BY <1>1, Context DEF SubmitLock, OwnsLocks, Lists
<1> QED
  BY <1>1, <1>3, <1>4, <1>5, <1>6, <1>7, Together

LEMMA AddToFlyingListKeeps == ASSUME Tidy, NEW t \in Threads, AddToFlyingList(t) PROVE Tidy'
<1> DEFINE x == th[t].x
<1> USE DEF At, locks, xfers, rest, Go
<1>1. /\ th[t].at = "add" /\ x \in Xfers
      /\ th'[t].at = "ioctl" /\ th'[t].x = x /\ th'[t].back = th[t].back
      /\ Alone(t) /\ th' = [u \in Threads |-> th'[u]]
  <2>1. th[t].at = "add" /\ x \in Xfers
    BY Context DEF AddToFlyingList, ReturnsOf
  <2>2. Move(t, "ioctl", th[t].x, th[t].back, th[t].st)
    BY DEF AddToFlyingList
  <2> QED
    BY <2>1, <2>2, Context, MoveFacts DEF ReturnsOf, Alone
<1>2. /\ flying' \in Seq(Xfers) /\ Once(flying') /\ ToSet(flying') \subseteq ToSet(flying) \union {x}
      /\ UNCHANGED <<xl, flags, urb, doneq>>
  <2>1. x = Control => Control \notin ToSet(flying)
    BY <1>1, Context DEF ReturnsOf, CmdLife, Idle, Gone
  <2>2. flying' = Inserted(x)
    BY DEF AddToFlyingList
  <2> QED
    BY <1>1, Context, <2>1, <2>2, InsertedFacts DEF AddToFlyingList, Lists
<1>3. ReturnsOf(t)'
  BY <1>1, Context DEF ReturnsOf
<1>4. OwnsLocks(t)' /\ OnThatKernel(t)' /\ UNCHANGED <<removed, plugged, reapAfter>>
  BY <1>1, Context DEF AddToFlyingList, OwnsLocks, Handler, OnThatKernel, Disconnects, ReturnsOf, Lists
<1>5. Lists'
  BY <1>1, <1>2, Context DEF AddToFlyingList, Lists, Once, ReturnsOf, CmdLife, Knows, Handling
<1>6. ControlLife'
  <2>1. CASE x # Control
    BY <1>1, <1>2, <2>1, Context, OtherTransfer DEF AddToFlyingList, Lists, OwnsLocks, LockOwners, ReturnsOf
  <2>2. CASE x = Control
    <3>1. CmdLife'
      <4>1. t = "cmd" /\ alloc /\ ~done /\ Gone /\ "IN_FLIGHT" \notin flags[Control]
        BY <1>1, <2>2, Context DEF CmdLife, Idle, ReturnsOf
      <4>2. \A u \in Threads : ~Handling(u)'
        BY <1>1, <4>1 DEF Gone, Handling, Alone
      <4>3. UNCHANGED <<alloc, done, xl, flags, urb>>
        BY <1>2 DEF AddToFlyingList
      <4> QED
        BY <1>1, <2>2, <4>1, <4>2, <4>3 DEF CmdLife, Idle, Gone
    <3>2. ASSUME NEW u \in Threads PROVE Knows(u)'
      <4>1. ~Handling(u)' /\ th'[u].at \notin Cancelling
        <5>1. Gone
          BY <1>1, <2>2, Context DEF CmdLife, Idle, ReturnsOf
        <5>2. u # t => th[u].at \notin Cancelling
          BY Context DEF AddToFlyingList, LockOwners, OwnsLocks
        <5> QED
          BY <1>1, <5>1, <5>2 DEF Gone, Handling, Alone
      <4> QED
        BY <4>1 DEF Knows
    <3> QED
      BY <3>1, <3>2 DEF ControlLife
  <2> QED
    BY <2>1, <2>2
<1>7. /\ ev' = ev \/ ev = t
      /\ fl' = fl \/ fl = t
      /\ \A y \in Xfers : xl'[y] = xl[y] \/ xl[y] = t \/ xl[y] = None
      /\ Marked' => Marked \/ Disconnects
  BY <1>1, <1>2, Context DEF AddToFlyingList, OwnsLocks, Lists
<1> QED
  BY <1>1, <1>3, <1>4, <1>5, <1>6, <1>7, Together

LEMMA SubmitToKernelKeeps == ASSUME Tidy, NEW t \in Threads, SubmitToKernel(t) PROVE Tidy'
<1> DEFINE x == th[t].x
<1> USE DEF At, locks, xfers, rest, Go
<1>1. /\ th[t].at = "ioctl" /\ x \in Xfers
      /\ th'[t].at \in {"flag", "unadd"} /\ th'[t].x = x /\ th'[t].back = th[t].back
      /\ Alone(t) /\ th' = [u \in Threads |-> th'[u]]
  <2>1. th[t].at = "ioctl" /\ x \in Xfers
    BY Context DEF SubmitToKernel, ReturnsOf
  <2>2. Move(t, "flag", th[t].x, th[t].back, th[t].st) \/ Move(t, "unadd", th[t].x, th[t].back, th[t].st)
    BY DEF SubmitToKernel
  <2> QED
    BY <2>1, <2>2, Context, MoveFacts DEF ReturnsOf, Alone
<1>3. ReturnsOf(t)'
  BY <1>1, Context DEF ReturnsOf
<1>4. OwnsLocks(t)' /\ OnThatKernel(t)' /\ UNCHANGED <<removed, plugged, reapAfter>>
  BY <1>1, Context DEF SubmitToKernel, OwnsLocks, Handler, OnThatKernel, Disconnects, ReturnsOf, Lists
<1>5. Lists'
  BY SMTT(30), <1>1, Context DEF SubmitToKernel, Lists, Once, ReturnsOf, CmdLife, Knows, Handling
<1>6. ControlLife'
  <2>1. CASE x # Control
    BY SMTT(30), <1>1, <2>1, Context, OtherTransfer DEF SubmitToKernel, Lists, OwnsLocks, LockOwners, ReturnsOf
  <2>2. CASE x = Control
    <3>1. CmdLife'
      <4>1. t = "cmd" /\ urb[Control] = "none" /\ ~done /\ alloc /\ "IN_FLIGHT" \notin flags[Control]
        BY <1>1, Context, <2>2 DEF ReturnsOf, CmdLife
      <4>2. \A u \in Threads : ~Handling(u) /\ ~Handling(u)'
        BY <1>1, Context, <2>2, <4>1 DEF CmdLife, Handling, Alone
      <4>3. UNCHANGED <<flying, doneq, xl, alloc, done>> /\ "IN_FLIGHT" \notin flags'[Control]
        BY <1>1, Context, <2>2, <4>1 DEF SubmitToKernel, Lists
      <4>4. th'[t].at = "unadd" => urb' = urb
        BY <1>1, MoveFacts, Context DEF SubmitToKernel
      <4> QED
        BY <1>1, Context, <2>2, <4>1, <4>2, <4>3, <4>4 DEF CmdLife, Idle
    <3>2. ASSUME NEW u \in Threads PROVE Knows(u)'
      <4>1. ~Handling(u)'
        BY <1>1, <2>2, Context DEF CmdLife, Handling, Alone, ReturnsOf
      <4>2. UNCHANGED flying
        BY DEF SubmitToKernel
      <4> QED
        BY <1>1, <4>1, <4>2, Context DEF Knows, Alone, ControlLife
    <3> QED
      BY <3>1, <3>2 DEF ControlLife
  <2> QED
    BY <2>1, <2>2
<1>7. /\ ev' = ev \/ ev = t
      /\ fl' = fl \/ fl = t
      /\ \A y \in Xfers : xl'[y] = xl[y] \/ xl[y] = t \/ xl[y] = None
      /\ Marked' => Marked \/ Disconnects
  BY <1>1, Context DEF SubmitToKernel, OwnsLocks, Lists
<1> QED
  BY <1>1, <1>3, <1>4, <1>5, <1>6, <1>7, Together

LEMMA HandleKeeps == ASSUME Tidy, NEW t \in Threads, Handle(t) PROVE Tidy'
<1> DEFINE x == th[t].x
<1> USE DEF At, locks, xfers, rest, Go
<1>1. /\ th[t].at = "handle" /\ x \in Xfers
      /\ th'[t].at \in {"classify", "remove"} /\ th'[t].x = x /\ th'[t].back = "reap"
      /\ Alone(t) /\ th' = [u \in Threads |-> th'[u]]
  <2>1. th[t].at = "handle" /\ x \in Xfers
    BY Context DEF Handle, ReturnsOf
  <2>2. Move(t, "classify", th[t].x, th[t].back, th[t].st) \/ (\E st : Move(t, "remove", th[t].x, "reap", st))
    BY DEF Handle
  <2> QED
    BY <2>1, <2>2, Context, MoveFacts DEF ReturnsOf, Alone
<1>3. ReturnsOf(t)'
  BY <1>1, Context DEF ReturnsOf
<1>4. OwnsLocks(t)' /\ OnThatKernel(t)' /\ UNCHANGED <<removed, plugged, reapAfter>>
  BY <1>1, Context DEF Handle, OwnsLocks, Handler, OnThatKernel, Disconnects, ReturnsOf, Lists
<1>5. Lists'
  BY <1>1, Context DEF Handle, Lists, Once, ReturnsOf, CmdLife, Knows, Handling
<1>6. ControlLife'
  <2>1. CASE x # Control
    BY <1>1, <2>1, Context, OtherTransfer DEF Handle, Lists, OwnsLocks, LockOwners, ReturnsOf
  <2>2. CASE x = Control
    <3>1. CmdLife'
      <4>1. xl[Control] = None /\ ~Submitting(LockedSubmission)
        BY <1>1, Context, <2>2 DEF Handle, LockOwners, OwnsLocks
      <4>2. Handling(t) /\ UNCHANGED <<flags, flying, urb, doneq, xl, alloc, done>>
        BY <1>1, <2>2 DEF Handle, Handling
      <4> QED
        BY <1>1, Context, <2>2, <4>1, <4>2 DEF CmdLife, Idle, Gone, Handling, Alone
    <3>2. ASSUME NEW u \in Threads PROVE Knows(u)'
      <4>1. UNCHANGED <<flying, urb>>
        BY DEF Handle
      <4>2. Handling(u)' => Handling(u) /\ (th'[u].at # "clear" => th[u].at # "clear")
        BY <1>1, <2>2 DEF Handling, Alone
      <4>3. CASE u = t
        BY <1>1, <2>2, <4>1, <4>2, <4>3, Context DEF Knows, Handling
      <4>4. CASE u # t
        BY <1>1, <4>1, <4>4, Context DEF Knows, Handling, Alone, ControlLife
      <4> QED
        BY <4>3, <4>4
    <3> QED
      BY <3>1, <3>2 DEF ControlLife
  <2> QED
    BY <2>1, <2>2
<1>7. /\ ev' = ev \/ ev = t
      /\ fl' = fl \/ fl = t
      /\ \A y \in Xfers : xl'[y] = xl[y] \/ xl[y] = t \/ xl[y] = None
      /\ Marked' => Marked \/ Disconnects
  BY <1>1, Context DEF Handle, OwnsLocks, Lists
<1> QED
  BY <1>1, <1>3, <1>4, <1>5, <1>6, <1>7, Together

LEMMA ClassifyKeeps == ASSUME Tidy, NEW t \in Threads, Classify(t) PROVE Tidy'
<1> DEFINE x == th[t].x
<1> USE DEF At, locks, xfers, rest, Go
<1>1. /\ th[t].at = "classify" /\ x \in Xfers
      /\ th'[t].at = "remove" /\ th'[t].x = x /\ th'[t].back = "reap"
      /\ Alone(t) /\ th' = [u \in Threads |-> th'[u]]
  <2>1. th[t].at = "classify" /\ x \in Xfers
    BY Context DEF Classify, ReturnsOf
  <2> QED
    BY <2>1, Context, MoveFacts DEF Classify, ReturnsOf, Alone
<1>3. ReturnsOf(t)'
  BY <1>1, Context DEF ReturnsOf
<1>4. OwnsLocks(t)' /\ OnThatKernel(t)' /\ UNCHANGED <<removed, plugged, reapAfter>>
  BY <1>1, Context DEF Classify, OwnsLocks, Handler, OnThatKernel, Disconnects, ReturnsOf, Lists
<1>5. Lists'
  BY <1>1, Context DEF Classify, Lists, Once, ReturnsOf, CmdLife, Knows, Handling
<1>6. ControlLife'
  <2>1. CASE x # Control
    BY <1>1, <2>1, Context, OtherTransfer DEF Classify, Lists, OwnsLocks, LockOwners, ReturnsOf
  <2>2. CASE x = Control
    <3>1. CmdLife'
      BY <1>1, <2>2, Context DEF Classify, CmdLife, Idle, Gone, Handling, Lists, ReturnsOf, OwnsLocks, Knows, Alone
    <3>2. ASSUME NEW u \in Threads PROVE Knows(u)'
      <4>1. UNCHANGED <<flying, urb>>
        BY DEF Classify
      <4>2. Handling(u)' => Handling(u) /\ (th'[u].at # "clear" => th[u].at # "clear")
        BY <1>1, <2>2 DEF Handling, Alone
      <4>3. CASE u = t
        BY <1>1, <2>2, <4>1, <4>2, <4>3, Context DEF Knows, Handling
      <4>4. CASE u # t
        BY <1>1, <4>1, <4>4, Context DEF Knows, Handling, Alone, ControlLife
      <4> QED
        BY <4>3, <4>4
    <3> QED
      BY <3>1, <3>2 DEF ControlLife
  <2> QED
    BY <2>1, <2>2
<1>7. /\ ev' = ev \/ ev = t
      /\ fl' = fl \/ fl = t
      /\ \A y \in Xfers : xl'[y] = xl[y] \/ xl[y] = t \/ xl[y] = None
      /\ Marked' => Marked \/ Disconnects
  BY <1>1, Context DEF Classify, OwnsLocks, Lists
<1> QED
  BY <1>1, <1>3, <1>4, <1>5, <1>6, <1>7, Together

LEMMA RemoveFlyingKeeps == ASSUME Tidy, NEW t \in Threads, RemoveFlying(t) PROVE Tidy'
<1> DEFINE x == th[t].x
<1> USE DEF At, locks, xfers, rest, Go
<1>1. /\ th[t].at = "remove" /\ x \in Xfers
      /\ th'[t].at = "callback" /\ th'[t].x = x /\ th'[t].back = th[t].back
      /\ Alone(t) /\ th' = [u \in Threads |-> th'[u]]
  <2>1. th[t].at = "remove" /\ x \in Xfers
    BY Context DEF RemoveFlying, ReturnsOf
  <2>2. Move(t, "callback", th[t].x, th[t].back, th[t].st)
    BY DEF RemoveFlying
  <2> QED
    BY <2>1, <2>2, Context, MoveFacts DEF ReturnsOf, Alone
<1>2. /\ flying' \in Seq(Xfers) /\ Once(flying') /\ ToSet(flying') \subseteq ToSet(flying)
      /\ (x = Control => Control \notin ToSet(flying')) /\ UNCHANGED <<xl, flags, urb, doneq>>
  BY <1>1, Context, WithoutFacts DEF RemoveFlying, Lists
<1>3. ReturnsOf(t)'
  BY <1>1, Context DEF ReturnsOf
<1>4. OwnsLocks(t)' /\ OnThatKernel(t)' /\ UNCHANGED <<removed, plugged, reapAfter>>
  BY <1>1, Context DEF RemoveFlying, OwnsLocks, Handler, OnThatKernel, Disconnects, ReturnsOf, Lists
<1>5. Lists'
  BY SMTT(30), <1>1, <1>2, Context DEF RemoveFlying, Lists, Once, ReturnsOf, CmdLife, Knows, Handling
<1>6. ControlLife'
  <2>1. CASE x # Control
    BY ZenonT(40), <1>1, <1>2, <2>1, Context, OtherTransfer DEF RemoveFlying, Lists, OwnsLocks, LockOwners, ReturnsOf
  <2>2. CASE x = Control
    <3>1. CmdLife'
      BY <1>1, <1>2, <2>2, Context DEF RemoveFlying, CmdLife, Idle, Gone, Handling, Lists, ReturnsOf, OwnsLocks, Knows, Alone
    <3>2. ASSUME NEW u \in Threads PROVE Knows(u)'
      BY ZenonT(40), <1>1, <1>2, <2>2, Context DEF RemoveFlying, CmdLife, Idle, Gone, Handling, Lists, ReturnsOf, OwnsLocks, LockOwners, Knows, ControlLife, Alone
    <3> QED
      BY <3>1, <3>2 DEF ControlLife
  <2> QED
    BY <2>1, <2>2
<1>7. /\ ev' = ev \/ ev = t
      /\ fl' = fl \/ fl = t
      /\ \A y \in Xfers : xl'[y] = xl[y] \/ xl[y] = t \/ xl[y] = None
      /\ Marked' => Marked \/ Disconnects
  BY <1>1, <1>2, Context DEF RemoveFlying, OwnsLocks, Lists
<1> QED
  BY <1>1, <1>3, <1>4, <1>5, <1>6, <1>7, Together

LEMMA ClearPrivKeeps == ASSUME Tidy, NEW t \in Threads, ClearPriv(t) PROVE Tidy'
<1> DEFINE x == th[t].x
<1> USE DEF At, locks, xfers, rest, Go
<1>1. /\ th[t].at = "clear" /\ x \in Xfers
      /\ th'[t].at = "remove" /\ th'[t].x = x /\ th'[t].back = th[t].back
      /\ Alone(t) /\ th' = [u \in Threads |-> th'[u]]
  <2>1. th[t].at = "clear" /\ x \in Xfers
    BY Context DEF ClearPriv, ReturnsOf
  <2>2. Move(t, "remove", th[t].x, th[t].back, th[t].st)
    BY DEF ClearPriv
  <2> QED
    BY <2>1, <2>2, Context, MoveFacts DEF ReturnsOf, Alone
<1>2. /\ doneq' \in Seq(Xfers) /\ Once(doneq') /\ ToSet(doneq') \subseteq ToSet(doneq)
      /\ (x = Control => Control \notin ToSet(doneq')) /\ UNCHANGED <<xl, flags, flying>>
      /\ urb' = [urb EXCEPT ![x] = "none"]
  BY <1>1, Context, WithoutFacts DEF ClearPriv, Lists
<1>3. ReturnsOf(t)'
  BY <1>1, Context DEF ReturnsOf
<1>4. OwnsLocks(t)' /\ OnThatKernel(t)' /\ UNCHANGED <<removed, plugged, reapAfter>>
  BY <1>1, Context DEF ClearPriv, OwnsLocks, Handler, OnThatKernel, Disconnects, ReturnsOf, Lists
<1>5. Lists'
  BY <1>1, <1>2, Context DEF ClearPriv, Lists, Once, ReturnsOf, CmdLife, Knows, Handling
<1>6. ControlLife'
  <2>1. CASE x # Control
    <3>1. /\ urb'[Control] = urb[Control] /\ UNCHANGED <<xl, flags, done, alloc, flying>>
          /\ th[t].x # Control /\ th'[t].x # Control
      BY <1>1, <1>2, <2>1, Context DEF ClearPriv, Lists
    <3> QED
      BY <1>1, <1>2, <2>1, <3>1, Context, OtherTransfer DEF Lists, OwnsLocks, LockOwners, ReturnsOf
  <2>2. CASE x = Control
    <3>1. CmdLife'
      BY ZenonT(40), <1>1, <1>2, <2>2, Context DEF ClearPriv, CmdLife, Idle, Gone, Handling, Lists, ReturnsOf, OwnsLocks, Knows, Alone
    <3>2. ASSUME NEW u \in Threads PROVE Knows(u)'
      <4>1. urb'[Control] = "none" /\ UNCHANGED flying
        BY Context, <1>2, <2>2 DEF Lists
      <4>2. CASE u = t
        BY <1>1, <4>1, <4>2 DEF Knows, Handling
      <4>3. CASE u # t
        BY <1>1, Context, <4>1, <4>3 DEF Knows, Handling, Alone, ControlLife
      <4> QED
        BY <4>2, <4>3
    <3> QED
      BY <3>1, <3>2 DEF ControlLife
  <2> QED
    BY <2>1, <2>2
<1>7. /\ ev' = ev \/ ev = t
      /\ fl' = fl \/ fl = t
      /\ \A y \in Xfers : xl'[y] = xl[y] \/ xl[y] = t \/ xl[y] = None
      /\ Marked' => Marked \/ Disconnects
  BY <1>1, <1>2, Context DEF ClearPriv, OwnsLocks, Lists
<1> QED
  BY <1>1, <1>3, <1>4, <1>5, <1>6, <1>7, Together

LEMMA CancelKeeps == ASSUME Tidy, NEW t \in Threads, Cancel(t) PROVE Tidy'
<1> DEFINE x == th[t].x
<1> USE DEF At, locks, xfers, rest, Go
<1>1. /\ th[t].at = "cancel" /\ x \in Xfers
      /\ th'[t].at \in {"scan", "mark"} /\ th'[t].x = (IF th'[t].at = "mark" THEN x ELSE None) /\ th'[t].back = th[t].back
      /\ Alone(t) /\ th' = [u \in Threads |-> th'[u]]
  <2>1. th[t].at = "cancel" /\ x \in Xfers
    BY Context DEF Cancel, ReturnsOf
  <2>2. Move(t, "scan", th[t].x, th[t].back, th[t].st) \/ Move(t, "mark", th[t].x, th[t].back, th[t].st)
    BY DEF Cancel
  <2> QED
    BY <2>1, <2>2, Context, MoveFacts DEF ReturnsOf, Alone
<1>3. ReturnsOf(t)'
  BY <1>1, Context DEF ReturnsOf
<1>4. OwnsLocks(t)' /\ OnThatKernel(t)' /\ UNCHANGED <<removed, plugged, reapAfter>>
  BY <1>1, Context DEF Cancel, OwnsLocks, Handler, OnThatKernel, Disconnects, ReturnsOf, Lists
<1>5. Lists'
  <2>1. CASE doneq' = doneq /\ urb' = urb
    BY ZenonT(40), Context, <2>1 DEF Cancel, Lists, Once
  <2>2. CASE /\ doneq' = Append(doneq, x) /\ urb[x] = "pending"
             /\ urb' = [urb EXCEPT ![x] = "killed"]
    <3>1. x = Control => Control \notin ToSet(doneq)
      BY <2>2 , Context DEF Lists
    <3>2. doneq' \in Seq(Xfers) /\ Once(doneq') /\ ToSet(doneq') = ToSet(doneq) \union {x}
      BY SMTT(30), <1>1, Context, <2>2, <3>1, AppendFacts DEF Lists
    <3> QED
      BY ZenonT(40), <1>1, Context, <2>2, <3>2 DEF Cancel, Lists, Once
  <2> QED
    BY ZenonT(40), <2>1, <2>2 DEF Cancel
<1>6. ControlLife'
  <2>1. CASE x # Control
    BY <1>1, <2>1, Context, OtherTransfer DEF Cancel, Lists, OwnsLocks, LockOwners, ReturnsOf
  <2>2. CASE x = Control
    <3>1. CmdLife'
      <4>1. ~Idle
        BY <1>1, <2>2, Context DEF CmdLife, Gone, Knows
      <4>2. \A u \in Threads : Handling(u)' <=> Handling(u)
        BY <1>1, Context DEF Handling, Alone
      <4>3. "IN_FLIGHT" \in flags'[Control] => "IN_FLIGHT" \in flags[Control]
        BY <1>1, <2>2, Context DEF Cancel, Lists
      <4>4. urb[Control] = "none" => urb'[Control] = "none"
        BY <1>1, <2>2, Context DEF Cancel, Lists
      <4>5. UNCHANGED <<alloc, done, xl>>
        BY DEF Cancel
      <4> QED
        BY <1>1, <4>1, <4>2, <4>3, <4>4, <4>5, Context DEF CmdLife, Idle, Alone
    <3>2. ASSUME NEW u \in Threads PROVE Knows(u)'
      <4>1. UNCHANGED flying /\ (urb[Control] = "none" => urb'[Control] = "none")
        BY <2>2, Context DEF Cancel, Lists
      <4>2. CASE u = t
        BY <1>1, <2>2, <4>1, <4>2, Context DEF Knows, Handling
      <4>3. CASE u # t
        BY <1>1, <4>1, <4>3, Context DEF Knows, Handling, Alone, ControlLife
      <4> QED
        BY <4>2, <4>3
    <3> QED
      BY <3>1, <3>2 DEF ControlLife
  <2> QED
    BY <2>1, <2>2
<1>7. /\ ev' = ev \/ ev = t
      /\ fl' = fl \/ fl = t
      /\ \A y \in Xfers : xl'[y] = xl[y] \/ xl[y] = t \/ xl[y] = None
      /\ Marked' => Marked \/ Disconnects
  BY <1>1, Context DEF Cancel, OwnsLocks, Lists
<1> QED
  BY <1>1, <1>3, <1>4, <1>5, <1>6, <1>7, Together

LEMMA MarkKeeps == ASSUME Tidy, NEW t \in Threads, Mark(t) PROVE Tidy'
<1> DEFINE x == th[t].x
<1> USE DEF At, locks, xfers, rest, Go
<1>1. /\ th[t].at = "mark" /\ x \in Xfers
      /\ th'[t].at = "scan" /\ th'[t].x = None /\ th'[t].back = th[t].back
      /\ Alone(t) /\ th' = [u \in Threads |-> th'[u]]
  <2>1. th[t].at = "mark" /\ x \in Xfers
    BY Context DEF Mark, ReturnsOf
  <2>2. Move(t, "scan", th[t].x, th[t].back, th[t].st)
    BY DEF Mark
  <2> QED
    BY <2>1, <2>2, Context, MoveFacts DEF ReturnsOf, Alone
<1>3. ReturnsOf(t)'
  BY <1>1, Context DEF ReturnsOf
<1>4. OwnsLocks(t)' /\ OnThatKernel(t)' /\ UNCHANGED <<removed, plugged, reapAfter>>
  BY <1>1, Context DEF Mark, OwnsLocks, Handler, OnThatKernel, Disconnects, ReturnsOf, Lists
<1>5. Lists'
  BY <1>1, Context DEF Mark, Lists, Once, ReturnsOf, CmdLife, Knows, Handling
<1>6. ControlLife'
  <2>1. CASE x # Control
    BY <1>1, <2>1, Context, OtherTransfer DEF Mark, Lists, OwnsLocks, LockOwners, ReturnsOf
  <2>2. CASE x = Control
    <3>1. CmdLife'
      <4>1. ~Idle
        BY <1>1, <2>2, Context DEF CmdLife, Gone, Knows
      <4>2. \A u \in Threads : Handling(u)' <=> Handling(u)
        BY <1>1, Context DEF Handling, Alone
      <4>3. UNCHANGED <<flying, urb, xl, done, alloc>>
            /\ ("IN_FLIGHT" \in flags'[Control] => "IN_FLIGHT" \in flags[Control])
        BY <2>2, Context DEF Mark, Lists
      <4> QED
        BY <1>1, <4>1, <4>2, <4>3, Context DEF CmdLife, Idle, Alone
    <3>2. ASSUME NEW u \in Threads PROVE Knows(u)'
      <4>1. UNCHANGED <<flying, urb>>
        BY DEF Mark
      <4>2. Handling(u)' => Handling(u) /\ (th'[u].at # "clear" => th[u].at # "clear")
        BY <1>1, <2>2 DEF Handling, Alone
      <4>3. CASE u = t
        BY <1>1, <2>2, <4>1, <4>2, <4>3, Context DEF Knows, Handling
      <4>4. CASE u # t
        BY <1>1, <4>1, <4>4, Context DEF Knows, Handling, Alone, ControlLife
      <4> QED
        BY <4>3, <4>4
    <3> QED
      BY <3>1, <3>2 DEF ControlLife
  <2> QED
    BY <2>1, <2>2
<1>7. /\ ev' = ev \/ ev = t
      /\ fl' = fl \/ fl = t
      /\ \A y \in Xfers : xl'[y] = xl[y] \/ xl[y] = t \/ xl[y] = None
      /\ Marked' => Marked \/ Disconnects
  BY <1>1, Context DEF Mark, OwnsLocks, Lists
<1> QED
  BY <1>1, <1>3, <1>4, <1>5, <1>6, <1>7, Together

LEMMA SetInFlightKeeps ==
  ASSUME Tidy, NEW t \in Threads, SetInFlight(t), ~Disappeared(th[t].x)
  PROVE  Tidy'
<1> DEFINE x == th[t].x
           back == th[t].back
<1> USE DEF At, locks, xfers, rest, Go
<1>1. th[t].at = "flag" /\ x \in Xfers /\ xl[x] = t /\ back \in {"start", "finish", "reap", "disconnect"}
      /\ (x = Control <=> back = "finish") /\ (back = "finish" => t = "cmd") /\ (back = "start" => t = "reader")
      /\ ((back = "reap" \/ back = "disconnect") => ev = t)
      /\ (back = "reap" => ~Disconnects) /\ (back = "disconnect" => Disconnects)
  BY Context DEF SetInFlight, ReturnsOf, OwnsLocks, Handler, OnThatKernel
<1>2. Submitted(t, TRUE) = IF back = "finish" THEN "return" ELSE back
  BY <1>1 DEF Submitted
<1>3. Move(t, Submitted(t, TRUE), x, back, th[t].st)
  BY DEF SetInFlight
<1>4. /\ xl' = [xl EXCEPT ![x] = None]
      /\ flags' = [flags EXCEPT ![x] = (@ \ {"SUBMITTING"}) \union {"IN_FLIGHT"}]
      /\ UNCHANGED <<ev, fl, flying, urb, doneq, done, alloc, plugged, removed, reapAfter>>
  BY DEF SetInFlight
<1>5. /\ Alone(t) /\ th' = [u \in Threads |-> th'[u]] /\ th'[t].x = None /\ th'[t].back = "out"
      /\ th'[t].at = IF back = "finish" THEN "return" ELSE back
  <2>1. CASE back = "finish"
    <3>1. Move(t, "return", x, back, th[t].st)
      BY <1>2, <1>3, <2>1
    <3> QED
      BY <2>1, <3>1, Context, MoveFacts DEF Alone
  <2>2. CASE back # "finish"
    <3>1. Move(t, back, x, back, th[t].st) /\ back \notin WithXfer \union {"timeouts", "scan"}
      BY <1>1, <1>2, <1>3, <2>2
    <3>2. /\ Alone(t) /\ th' = [u \in Threads |-> th'[u]] /\ th'[t].at = back
          /\ th'[t].x = IF back \in WithXfer THEN x ELSE None
          /\ th'[t].back = IF back \in WithXfer \union {"timeouts", "scan"} THEN back ELSE "out"
      BY <3>1, Context, MoveFacts DEF Alone
    <3> QED
      BY <2>2, <3>1, <3>2
  <2> QED
    BY <2>1, <2>2
<1>6. ReturnsOf(t)'
  BY <1>1, <1>5 DEF ReturnsOf
<1>7. OwnsLocks(t)' /\ OnThatKernel(t)'
  BY <1>1, <1>4, <1>5 DEF OwnsLocks, Handler, OnThatKernel, Disconnects
<1>8. Lists'
  BY <1>1, <1>4, Context DEF Lists, Once
<1>9. ControlLife'
  <2>1. CASE x # Control
    BY <1>1, <1>4, <1>5, <2>1, Context, OtherTransfer DEF Lists
  <2>2. CASE x = Control
    <3>1. t = "cmd" /\ ~done /\ alloc
      BY <1>1, <2>2, Context DEF CmdLife
    <3>2. \A u \in Threads : Handling(u)' <=> Handling(u)
      BY <1>1, <1>5 DEF Handling, Alone
    <3>3. CmdLife'
      BY <1>1, <1>4, <1>5, <2>2, <3>1, <3>2, Context DEF CmdLife, Idle, Lists
    <3>4. \A u \in Threads : Knows(u)'
      BY <1>1, <1>4, <1>5, <3>2, Context DEF Knows, ControlLife, Alone
    <3> QED
      BY <3>3, <3>4 DEF ControlLife
  <2> QED
    BY <2>1, <2>2
<1>10. \A y \in Xfers : xl'[y] = xl[y] \/ xl[y] = t \/ xl[y] = None
  BY <1>1, <1>4, Context DEF Lists
<1>11. Marked' => Marked \/ Disconnects
  BY <1>1, <1>4, Context DEF Lists
<1> QED
  BY <1>4, <1>5, <1>6, <1>7, <1>8, <1>9, <1>10, <1>11, Together

LEMMA SubmitFailedKeeps ==
  ASSUME Tidy, NEW t \in Threads, SubmitFailed(t)
  PROVE  Tidy'
<1> DEFINE x == th[t].x
           back == th[t].back
<1> USE DEF At, locks, xfers, rest, Go
<1>1. th[t].at = "unadd" /\ x \in Xfers /\ xl[x] = t /\ back \in {"start", "finish", "reap", "disconnect"}
      /\ (x = Control <=> back = "finish") /\ (back = "finish" => t = "cmd") /\ (back = "start" => t = "reader")
      /\ ((back = "reap" \/ back = "disconnect") => ev = t)
      /\ (back = "reap" => ~Disconnects) /\ (back = "disconnect" => Disconnects)
  BY Context DEF SubmitFailed, ReturnsOf, OwnsLocks, Handler, OnThatKernel
<1>2. Submitted(t, FALSE) = IF back = "start" THEN "out" ELSE back
  BY <1>1 DEF Submitted
<1>3. Move(t, Submitted(t, FALSE), x, back, th[t].st)
  BY DEF SubmitFailed
<1>4. /\ xl' = [xl EXCEPT ![x] = None] /\ fl = None
      /\ UNCHANGED <<ev, fl, flags, urb, doneq, done, alloc, plugged, removed, reapAfter>>
  BY DEF SubmitFailed
<1>44. /\ flying' \in Seq(Xfers) /\ Once(flying') /\ ToSet(flying') \subseteq ToSet(flying)
      /\ (x = Control => Control \notin ToSet(flying'))
  <2>1. flying' = Without(flying, x)
    BY DEF SubmitFailed
  <2> QED
    BY <1>1, <2>1, Context, WithoutFacts DEF Lists
<1>5. /\ Alone(t) /\ th' = [u \in Threads |-> th'[u]] /\ th'[t].x = None /\ th'[t].back = "out"
      /\ th'[t].at = IF back = "start" THEN "out" ELSE back
  <2>1. CASE back = "start"
    <3>1. Move(t, "out", x, back, th[t].st)
      BY <1>2, <1>3, <2>1
    <3> QED
      BY <2>1, <3>1, Context, MoveFacts DEF Alone
  <2>2. CASE back # "start"
    <3>1. Move(t, back, x, back, th[t].st) /\ back \notin WithXfer \union {"timeouts", "scan"}
      BY <1>1, <1>2, <1>3, <2>2
    <3>2. /\ Alone(t) /\ th' = [u \in Threads |-> th'[u]] /\ th'[t].at = back
          /\ th'[t].x = IF back \in WithXfer THEN x ELSE None
          /\ th'[t].back = IF back \in WithXfer \union {"timeouts", "scan"} THEN back ELSE "out"
      BY <3>1, Context, MoveFacts DEF Alone
    <3> QED
      BY <2>2, <3>1, <3>2
  <2> QED
    BY <2>1, <2>2
<1>6. ReturnsOf(t)'
  BY <1>1, <1>5 DEF ReturnsOf
<1>7. OwnsLocks(t)' /\ OnThatKernel(t)'
  BY <1>1, <1>4, <1>5 DEF OwnsLocks, Handler, OnThatKernel, Disconnects
<1>8. Lists'
  BY <1>1, <1>4, <1>44, Context DEF Lists, Once
<1>99. \A u \in Threads : th[u].at \notin Cancelling
  BY <1>4, Context DEF LockOwners, OwnsLocks
<1>9. ControlLife'
  <2>1. CASE x # Control
    BY <1>1, <1>4, <1>44, <1>5, <1>99, <2>1, Context, OtherTransfer DEF Lists
  <2>2. CASE x = Control
    <3>1. t = "cmd" /\ ~done /\ alloc /\ urb[Control] = "none" /\ \A u \in Threads : ~Handling(u)
      BY <1>1, <2>2, Context DEF CmdLife
    <3>2. \A u \in Threads : ~Handling(u)'
      BY <1>1, <1>5, <3>1 DEF Handling, Alone
    <3>3. CmdLife'
      BY <1>1, <1>4, <1>44, <1>5, <2>2, <3>1, <3>2, Context DEF CmdLife, Idle, Gone, Lists
    <3>4. \A u \in Threads : Knows(u)'
      BY <1>1, <1>5, <1>99, <3>2 DEF Knows, Alone
    <3> QED
      BY <3>3, <3>4 DEF ControlLife
  <2> QED
    BY <2>1, <2>2
<1>10. \A y \in Xfers : xl'[y] = xl[y] \/ xl[y] = t \/ xl[y] = None
  BY <1>1, <1>4, Context DEF Lists
<1>11. Marked' => Marked \/ Disconnects
  BY <1>1, <1>4, Context DEF Lists
<1> QED
  BY <1>4, <1>5, <1>6, <1>7, <1>8, <1>9, <1>10, <1>11, Together

LEMMA CallbackKeeps ==
  ASSUME Tidy, NEW t \in Threads, Callback(t)
  PROVE  Tidy'
<1> DEFINE x == th[t].x
           back == th[t].back
           again == x \in Streams /\ th[t].st \in {"COMPLETED", "TIMED_OUT"}
<1> USE DEF At, locks, xfers, rest, Go
<1>1. th[t].at = "callback" /\ x \in Xfers /\ back \in {"reap", "disconnect"} /\ Handler(t) /\ ev = t
      /\ (back = "reap" => ~Disconnects) /\ (back = "disconnect" => Disconnects)
  BY Context DEF Callback, ReturnsOf, OwnsLocks, Handler, OnThatKernel
<1>2. Move(t, IF again THEN "submit" ELSE back, x, back, th[t].st)
  BY DEF Callback
<1>3. again => x # Control
  BY DEF Control
<1>4. /\ flags' = [flags EXCEPT ![x] = {"COMPLETED"}] /\ done' = (done \/ x = Control)
      /\ UNCHANGED <<ev, fl, xl, flying, urb, doneq, alloc, plugged, removed, reapAfter>>
  BY DEF Callback
<1> HIDE DEF again
<1>5. /\ Alone(t) /\ th' = [u \in Threads |-> th'[u]]
      /\ th'[t].at = IF again THEN "submit" ELSE back
      /\ th'[t].x = IF again THEN x ELSE None
      /\ th'[t].back = IF again THEN back ELSE "out"
  <2>1. CASE again
    BY <1>1, <1>2, <2>1, Context, MoveFacts DEF Alone
  <2>2. CASE ~again
    BY <1>1, <1>2, <2>2, Context, MoveFacts DEF Alone
  <2> QED
    BY <2>1, <2>2
<1>6. ReturnsOf(t)'
  BY <1>1, <1>3, <1>5, Context DEF ReturnsOf
<1>7. OwnsLocks(t)' /\ OnThatKernel(t)'
  BY <1>1, <1>4, <1>5 DEF OwnsLocks, Handler, OnThatKernel, Disconnects
<1>8. Lists'
  BY <1>1, <1>4, Context DEF Lists, Once
<1>9. ControlLife'
  <2>1. CASE x # Control
    BY <1>1, <1>4, <1>5, <2>1, Context, OtherTransfer DEF Lists
  <2>2. CASE x = Control
    <3>1. Handling(t) /\ ~again
      BY <1>1, <1>3, <2>2 DEF Handling
    <3>2. ~Idle /\ ~Submitting(Submission) /\ alloc /\ Control \notin ToSet(flying) /\ urb[Control] = "none"
      BY <1>1, <3>1, Context DEF CmdLife, Idle, Gone, Knows
    <3>3. \A u \in Threads : ~Handling(u)'
      BY <1>1, <1>5, <3>1, Context, OneHandler DEF Handling, Alone
    <3>4. CmdLife'
      BY <1>1, <1>4, <1>5, <3>1, <3>2, <3>3, Context DEF CmdLife, Idle, Gone, Alone
    <3>5. \A u \in Threads : Knows(u)'
      BY <1>1, <1>4, <1>5, <3>3, Context DEF Knows, Alone, ControlLife
    <3> QED
      BY <3>4, <3>5 DEF ControlLife
  <2> QED
    BY <2>1, <2>2
<1>11. Marked' => Marked \/ Disconnects
  BY <1>1, <1>4, Context DEF Lists
<1> QED
  BY <1>4, <1>5, <1>6, <1>7, <1>8, <1>9, <1>11, Together

LEMMA ReapKeeps ==
  ASSUME Tidy, NEW t \in Threads, Reap(t)
  PROVE  Tidy'
<1> DEFINE x == Head(doneq)
<1> USE DEF At, locks, xfers, rest, Go
<1>1. th[t].at = "reap" /\ Handler(t) /\ ev = t /\ ~Disconnects
  BY Context DEF Reap, OwnsLocks, Handler, OnThatKernel
<1>2. CASE doneq = <<>>
  <2>1. /\ \A u \in Threads \ {t} : th'[u] = th[u]
        /\ th'[t].at = "unlock" /\ th'[t].x = None /\ th'[t].back = "out"
        /\ th' = [u \in Threads |-> th'[u]]
    BY <1>2, Context, MoveFacts DEF Reap
  <2> QED
    BY <1>1, <1>2, <2>1, Context, QuietStep DEF Reap, Tidy, LockOwners, OwnsLocks, Handler
<1>3. CASE doneq # <<>>
  <2>1. /\ doneq' = Tail(doneq) /\ urb' = [urb EXCEPT ![x] = "none"]
        /\ \E st : Move(t, "handle", x, "reap", st)
        /\ UNCHANGED <<ev, fl, xl, flags, flying, done, alloc, plugged, removed, reapAfter>>
    BY <1>3 DEF Reap
  <2>2. /\ x \in Xfers /\ doneq' \in Seq(Xfers) /\ Once(doneq') /\ ToSet(doneq') \subseteq ToSet(doneq)
        /\ (x = Control => Control \notin ToSet(doneq')) /\ x \in ToSet(doneq)
    BY <1>3, <2>1, Context, TailFacts DEF Lists
  <2>3. /\ Alone(t) /\ th' = [u \in Threads |-> th'[u]]
        /\ th'[t].at = "handle" /\ th'[t].x = x /\ th'[t].back = "reap"
    BY <2>1, Context, MoveFacts DEF Alone
  <2> HIDE DEF x
  <2>4. ReturnsOf(t)' /\ OwnsLocks(t)' /\ OnThatKernel(t)'
    BY <1>1, <2>1, <2>2, <2>3 DEF ReturnsOf, OwnsLocks, Handler, OnThatKernel, Disconnects
  <2>5. Lists'
    BY <2>1, <2>2, Context DEF Lists, Once
  <2>6. ControlLife'
    <3>1. CASE x # Control
      BY <1>1, <2>1, <2>3, <3>1, Context, OtherTransfer DEF Lists
    <3>2. CASE x = Control
      <4>1. urb[Control] # "none" /\ urb'[Control] = "none"
        BY <2>1, <2>2, <3>2, Context DEF Lists
      <4>2. ~Idle /\ ~Submitting({"ioctl", "unadd"})
        BY <4>1, Context DEF CmdLife, Gone
      <4>3. \A u \in Threads : Handling(u)' => u = t /\ th'[u].at = "handle"
        BY <1>1, <2>3, Context, OneHandler DEF Handling, Alone
      <4>4. CmdLife'
        BY <1>1, <2>1, <2>3, <4>2, <4>3, Context DEF CmdLife, Idle, Alone
      <4>5. \A u \in Threads : Knows(u)'
        BY <2>1, <2>3, <4>1, <4>3, Context DEF Knows, Alone, ControlLife
      <4> QED
        BY <4>4, <4>5 DEF ControlLife
    <3> QED
      BY <3>1, <3>2
  <2> QED
    BY <2>1, <2>3, <2>4, <2>5, <2>6, Together
<1> QED
  BY <1>2, <1>3

LEMMA SetGoneKeeps ==
  ASSUME Tidy, NEW t \in Threads, SetInFlight(t), Disappeared(th[t].x)
  PROVE  Tidy'
<1> DEFINE x == th[t].x
           back == th[t].back
<1> USE DEF At, locks, xfers, rest, Go
<1>1. th[t].at = "flag" /\ x \in Xfers /\ xl[x] = t /\ back \in {"start", "finish", "reap", "disconnect"}
      /\ (x = Control <=> back = "finish") /\ (back = "finish" => t = "cmd") /\ (back = "start" => t = "reader")
      /\ ((back = "reap" \/ back = "disconnect") => ev = t)
      /\ (back = "reap" => ~Disconnects) /\ (back = "disconnect" => Disconnects)
  BY Context DEF SetInFlight, ReturnsOf, OwnsLocks, Handler, OnThatKernel
<1>2. /\ flags' = [flags EXCEPT ![x] = (@ \ {"SUBMITTING"}) \union {}] /\ "DEVICE_DISAPPEARED" \in flags[x]
      /\ urb' = [urb EXCEPT ![x] = "none"] /\ doneq' = Without(doneq, x)
      /\ Move(t, "unadd", x, back, th[t].st)
      /\ UNCHANGED <<ev, fl, xl, flying, done, alloc, plugged, removed, reapAfter>>
  BY DEF SetInFlight, Disappeared
<1>3. /\ doneq' \in Seq(Xfers) /\ Once(doneq') /\ ToSet(doneq') \subseteq ToSet(doneq)
      /\ (x = Control => Control \notin ToSet(doneq'))
  BY <1>1, <1>2, Context, WithoutFacts DEF Lists
<1>5. /\ Alone(t) /\ th' = [u \in Threads |-> th'[u]] /\ th'[t].x = x /\ th'[t].back = back
      /\ th'[t].at = "unadd"
  BY <1>1, <1>2, Context, MoveFacts DEF Alone
<1>6. ReturnsOf(t)'
  BY <1>1, <1>5 DEF ReturnsOf
<1>7. OwnsLocks(t)' /\ OnThatKernel(t)'
  BY <1>1, <1>2, <1>5 DEF OwnsLocks, Handler, OnThatKernel, Disconnects
<1>8. Lists'
  BY <1>1, <1>2, <1>3, Context DEF Lists, Once
<1>9. ControlLife'
  <2>1. CASE x # Control
    BY <1>1, <1>2, <1>5, <2>1, Context, OtherTransfer DEF Lists
  <2>2. CASE x = Control
    <3>1. t = "cmd" /\ ~done /\ alloc /\ Disconnects
      BY <1>1, <1>2, <2>2, Context DEF CmdLife, DisconnectInv
    <3>2. ASSUME NEW u \in Threads PROVE ~Handling(u)
      <4>1. Handling(u) => th[u].at = "handle"
        BY <1>1, <2>2, <3>1, Context DEF CmdLife
      <4>2. th[u].at = "handle" => th[u].back = "reap"
        BY Context DEF Returns, ReturnsOf
      <4>3. th[u].back # "reap"
        BY <3>1, Context DEF DisconnectInv, OnThatKernel
      <4> QED
        BY <4>1, <4>2, <4>3
    <3>3. \A u \in Threads : ~Handling(u)'
      BY <1>1, <1>5, <3>2 DEF Handling, Alone
    <3>4. urb'[Control] = "none" /\ "IN_FLIGHT" \notin flags'[Control]
      BY <1>1, <1>2, <2>2, <3>1, Context DEF Lists, CmdLife
    <3>5. CmdLife'
      BY <1>1, <1>2, <1>5, <2>2, <3>1, <3>3, <3>4, Context DEF CmdLife, Idle
    <3>6. \A u \in Threads : Knows(u)'
      BY <1>1, <1>2, <1>5, <3>3, Context DEF Knows, Alone, ControlLife
    <3> QED
      BY <3>5, <3>6 DEF ControlLife
  <2> QED
    BY <2>1, <2>2
<1>11. Marked' => Marked \/ Disconnects
  BY <1>1, <1>2, Context DEF Lists
<1> QED
  BY <1>2, <1>5, <1>6, <1>7, <1>8, <1>9, <1>11, Together

LEMMA DisconnectKeeps ==
  ASSUME Tidy, NEW t \in Threads, Disconnect(t)
  PROVE  Tidy'
<1> DEFINE inFlight == {i \in DOMAIN flying : "IN_FLIGHT" \in flags[flying[i]]}
           first == IF inFlight = {} THEN Len(flying) + 1 ELSE Min(inFlight)
           x == flying[first]
<1> USE DEF At, locks, xfers, rest, Go
<1>1. th[t].at = "disconnect" /\ Handler(t) /\ ev = t /\ Disconnects
  BY Context DEF Disconnect, OwnsLocks, Handler, OnThatKernel
<1>2. /\ UNCHANGED <<ev, fl, xl, flying, urb, doneq, done, alloc, plugged, removed, reapAfter>>
      /\ DOMAIN flags' = Xfers
      /\ "IN_FLIGHT" \in flags'[Control] <=> "IN_FLIGHT" \in flags[Control]
      /\ IF inFlight = {} THEN Move(t, "unlock", th[t].x, th[t].back, th[t].st)
         ELSE Move(t, "clear", x, "disconnect", "NO_DEVICE")
  BY Context DEF Disconnect
<1> HIDE DEF first
<1>3. CASE inFlight = {}
  <2>1. /\ Alone(t) /\ th' = [u \in Threads |-> th'[u]]
        /\ th'[t].at = "unlock" /\ th'[t].x = None /\ th'[t].back = "out"
    BY <1>2, <1>3, Context, MoveFacts DEF Alone
  <2>2. ReturnsOf(t)' /\ OwnsLocks(t)' /\ OnThatKernel(t)'
    BY <1>1, <1>2, <2>1, Context DEF ReturnsOf, OwnsLocks, Handler, OnThatKernel, Disconnects
  <2>3. Lists'
    BY <1>2, Context DEF Lists, Once
  <2>4. ControlLife'
    BY <1>1, <1>2, <2>1, Context, OtherTransfer
  <2> QED
    BY <1>1, <1>2, <2>1, <2>2, <2>3, <2>4, Together
<1>4. CASE inFlight # {}
  <2>1. x \in Xfers /\ x \in ToSet(flying) /\ "IN_FLIGHT" \in flags[x]
    <3>1. flying \in Seq(Xfers) /\ inFlight \subseteq Nat /\ inFlight \subseteq DOMAIN flying
      BY Context DEF Lists
    <3>2. first \in inFlight
      BY <1>4, <3>1, MinIsMember DEF first
    <3> QED
      BY <3>1, <3>2 DEF ToSet
  <2>2. /\ Alone(t) /\ th' = [u \in Threads |-> th'[u]]
        /\ th'[t].at = "clear" /\ th'[t].x = x /\ th'[t].back = "disconnect"
    BY <1>2, <1>4, Context, MoveFacts DEF Alone
  <2> HIDE DEF x
  <2>3. ReturnsOf(t)' /\ OwnsLocks(t)' /\ OnThatKernel(t)'
    BY <1>1, <1>2, <2>1, <2>2, Context DEF ReturnsOf, OwnsLocks, Handler, OnThatKernel, Disconnects
  <2>4. Lists'
    BY <1>2, Context DEF Lists, Once
  <2>5. ControlLife'
    <3>1. CASE x # Control
      BY <1>1, <1>2, <2>2, <3>1, Context, OtherTransfer
    <3>2. CASE x = Control
      <4>1. ~Idle /\ ~Submitting(LockedSubmission)
        BY <2>1, <3>2, Context DEF CmdLife, Gone, Lists
      <4>2. \A u \in Threads : Handling(u)' => u = t
        BY <1>1, <2>2, Context, OneHandler DEF Handling, Alone
      <4>3. CmdLife'
        BY <1>1, <1>2, <2>2, <4>1, <4>2, Context DEF CmdLife, Idle, Alone
      <4>4. \A u \in Threads : Knows(u)'
        BY <1>1, <1>2, <2>2, <4>2, Context DEF Knows, Alone, ControlLife
      <4> QED
        BY <4>3, <4>4 DEF ControlLife
    <3> QED
      BY <3>1, <3>2
  <2> QED
    BY <1>1, <1>2, <2>2, <2>3, <2>4, <2>5, Together
<1> QED
  BY <1>3, <1>4

LEMMA ScanKeeps ==
  ASSUME Tidy, NEW t \in Threads, Scan(t)
  PROVE  Tidy'
<1> DEFINE x == NextTimeout
           back == th[t].back
<1> USE DEF At, locks, xfers, rest, Go
<1>1. th[t].at = "scan" /\ fl = t /\ back \in {"return", "unlock"} /\ (back = "unlock" => ev = t)
  BY Context DEF Scan, OwnsLocks, ReturnsOf, Handler
<1>2. CASE ~Expired
  <2>1. /\ \A u \in Threads \ {t} : th'[u] = th[u]
        /\ th' = [u \in Threads |-> th'[u]]
        /\ th'[t].at = back /\ th'[t].x = None /\ th'[t].back = "out"
    <3>1. Move(t, back, th[t].x, back, th[t].st) /\ back \notin WithXfer \union {"timeouts", "scan"}
      BY <1>1, <1>2 DEF Scan
    <3>2. /\ \A u \in Threads \ {t} : th'[u] = th[u]
          /\ th' = [u \in Threads |-> th'[u]] /\ th'[t].at = back
          /\ th'[t].x = IF back \in WithXfer THEN th[t].x ELSE None
          /\ th'[t].back = IF back \in WithXfer \union {"timeouts", "scan"} THEN back ELSE "out"
      BY <3>1, Context, MoveFacts
    <3> QED
      BY <3>1, <3>2
  <2>2. fl' = None /\ UNCHANGED <<ev, flags, flying, urb, doneq, done, alloc, removed, plugged, reapAfter, xl>>
    BY <1>2 DEF Scan
  <2>3. \A u \in Threads \ {t} : th[u].at \notin TimingOut
    BY <1>1, Context DEF LockOwners, OwnsLocks
  <2> QED
    BY <1>1, <2>1, <2>2, <2>3, QuietStep DEF Tidy, Handler
<1>3. CASE Expired
  <2>1. /\ UNCHANGED <<ev, fl, xl, flying, urb, doneq, done, alloc, plugged, removed, reapAfter>>
        /\ flags' = [flags EXCEPT ![x] = @ \union {"TIMEOUT_HANDLED"}]
        /\ Move(t, "cancel", x, back, "COMPLETED")
    BY <1>3 DEF Scan
  <2>2. x \in Xfers /\ x \in ToSet(flying)
    <3>1. flying \in Seq(Xfers) /\ Unhandled \subseteq Nat /\ Unhandled \subseteq DOMAIN flying
      BY Context DEF Lists, Unhandled
    <3>2. Unhandled # {}
      BY <1>3 DEF Expired
    <3>3. Min(Unhandled) \in Unhandled
      BY <3>1, <3>2, MinIsMember
    <3>4. PICK i \in DOMAIN flying : i = Min(Unhandled)
      BY <3>1, <3>3
    <3>5. x = flying[i]
      BY <3>4 DEF NextTimeout
    <3> HIDE DEF x
    <3> QED
      BY <3>1, <3>4, <3>5 DEF ToSet
  <2> HIDE DEF x
  <2>3. /\ Alone(t) /\ th' = [u \in Threads |-> th'[u]]
        /\ th'[t].at = "cancel" /\ th'[t].x = x /\ th'[t].back = back
    BY <2>1, Context, MoveFacts DEF Alone
  <2>4. ReturnsOf(t)' /\ OwnsLocks(t)' /\ OnThatKernel(t)'
    BY <1>1, <2>1, <2>2, <2>3, Context DEF ReturnsOf, OwnsLocks, Handler, OnThatKernel, Disconnects
  <2>5. Lists'
    BY <2>1, <2>2, Context DEF Lists, Once
  <2>6. ControlLife'
    <3>1. CASE x # Control
      BY <1>1, <2>1, <2>3, <3>1, Context, OtherTransfer DEF Lists
    <3>2. CASE x = Control
      <4>1. ~Idle
        BY <2>2, <3>2, Context DEF CmdLife, Gone
      <4>2. \A u \in Threads : Handling(u)' <=> Handling(u)
        BY <1>1, <2>3, Context DEF Handling, Alone
      <4>3. "IN_FLIGHT" \in flags'[Control] => "IN_FLIGHT" \in flags[Control]
        BY <2>1, <3>2, Context DEF Lists
      <4>4. CmdLife'
        BY <1>1, <2>1, <2>3, <4>1, <4>2, <4>3, Context DEF CmdLife, Idle, Alone
      <4>5. \A u \in Threads : Knows(u)'
        BY <1>1, <2>1, <2>2, <2>3, <3>2, <4>2, Context DEF Knows, Alone, ControlLife
      <4> QED
        BY <4>4, <4>5 DEF ControlLife
    <3> QED
      BY <3>1, <3>2
  <2>7. "DEVICE_DISAPPEARED" \in flags'[Control] => "DEVICE_DISAPPEARED" \in flags[Control]
    BY <2>1, <2>2, Context DEF Lists
  <2> QED
    BY <1>1, <2>1, <2>3, <2>4, <2>5, <2>6, <2>7, Together
<1> QED
  BY <1>2, <1>3

LEMMA BroadcastKeeps ==
  ASSUME Tidy, NEW t \in Threads, Broadcast(t)
  PROVE  Tidy'
<1> USE DEF At, locks, xfers, rest
<1>1. th[t].at = "broadcast"
  BY DEF Broadcast
<1>2. ASSUME NEW u \in Threads
      PROVE  \/ th'[u] = th[u]
             \/ /\ th'[u].at \in {"return", "awake"} /\ th'[u].x = None /\ th'[u].back = "out"
                /\ th[u].at \in {"broadcast", "asleep"}
  BY <1>1 DEF Broadcast, Place
<1>3. th' = [u \in Threads |-> th'[u]]
  BY DEF Broadcast
<1>4. UNCHANGED <<ev, fl, xl, flags, flying, urb, doneq, done, alloc, plugged, removed, reapAfter>>
  BY DEF Broadcast
<1>5. ASSUME NEW u \in Threads PROVE ReturnsOf(u)' /\ OwnsLocks(u)' /\ OnThatKernel(u)'
  BY <1>2, <1>4, Context DEF Returns, ReturnsOf, LockOwners, OwnsLocks, Handler, DisconnectInv, OnThatKernel, Disconnects
<1>6. \A u \in Threads : (Handling(u)' <=> Handling(u)) /\ Knows(u)'
  BY <1>2, <1>4, Context DEF Handling, Knows, ControlLife
<1>7. CmdLife'
  BY <1>2, <1>4, <1>6, Context DEF CmdLife, Idle, Gone
<1>8. Lists'
  BY <1>4, Context DEF Lists, Once
<1>9. DisconnectInv'
  BY <1>4, <1>5, Context DEF DisconnectInv, Disconnects
<1> QED
  BY <1>3, <1>5, <1>6, <1>7, <1>8, <1>9 DEF Tidy, FInv, Returns, LockOwners, ControlLife

LEMMA PollGoneKeeps ==
  ASSUME Tidy, NEW t \in Threads, PollGone(t)
  PROVE  Tidy'
<1> USE DEF At, locks, xfers, Go
<1>1. th[t].at = "poll" /\ Handler(t) /\ ev = t /\ ~plugged
  BY Context DEF PollGone, OwnsLocks, Handler
<1>2. /\ UNCHANGED <<ev, fl, xl, flags, flying, urb, doneq, done, alloc, plugged, reapAfter>>
      /\ removed' = TRUE
  BY DEF PollGone
<1>3. /\ Alone(t) /\ th' = [u \in Threads |-> th'[u]] /\ th'[t].x = None /\ th'[t].back = "out"
      /\ th'[t].at = IF reapAfter THEN "reap" ELSE "disconnect"
  <2>1. CASE reapAfter
    <3>1. Move(t, "reap", th[t].x, th[t].back, th[t].st)
      BY <2>1 DEF PollGone, AfterGone
    <3> QED
      BY <2>1, <3>1, Context, MoveFacts DEF Alone
  <2>2. CASE ~reapAfter
    <3>1. Move(t, "disconnect", th[t].x, th[t].back, th[t].st)
      BY <2>2 DEF PollGone, AfterGone
    <3> QED
      BY <2>2, <3>1, Context, MoveFacts DEF Alone
  <2> QED
    BY <2>1, <2>2
<1>4. \A u \in Threads \ {t} : ~Handler(u)
  BY <1>1, Context DEF LockOwners, OwnsLocks
<1>5. Returns' /\ LockOwners'
  <2>1. ReturnsOf(t)' /\ OwnsLocks(t)'
    BY <1>1, <1>2, <1>3, Context DEF ReturnsOf, OwnsLocks, Handler
  <2> QED
    BY <1>2, <1>3, <2>1, Context, ReturnsFrom, LockOwnersFrom
<1>6. Lists'
  BY <1>2, Context DEF Lists, Once
<1>7. ControlLife'
  BY <1>1, <1>2, <1>3, Context, OtherTransfer
<1>8. DisconnectInv'
  BY <1>1, <1>2, <1>3, <1>4, Context DEF DisconnectInv, OnThatKernel, Disconnects, Handler, Alone
<1> QED
  BY <1>3, <1>5, <1>6, <1>7, <1>8 DEF Tidy, FInv

LEMMA StartStreamKeeps == ASSUME Tidy, StartStream PROVE Tidy'
<1> DEFINE t == "reader"
<1> USE DEF At, locks, xfers, Go
<1>1. t \in Threads /\ th[t].at = "start"
  BY DEF StartStream, Threads
<1>2. UNCHANGED <<ev, fl, xl, flags, flying, urb, doneq, done, alloc, removed, plugged, reapAfter>>
  BY DEF StartStream
<1>3. Alone(t) /\ th' = [u \in Threads |-> th'[u]] /\ th'[t].at \in {"out", "submit"}
      /\ (th'[t].at = "out" => th'[t].x = None /\ th'[t].back = "out")
      /\ (th'[t].at = "submit" => th'[t].x \in Streams /\ th'[t].back = "start")
  <2>1. CASE Move(t, "out", th[t].x, th[t].back, th[t].st)
    BY <1>1, <2>1, Context, MoveFacts DEF Alone
  <2>2. ASSUME NEW x \in Streams, Move(t, "submit", x, "start", "COMPLETED")
        PROVE  <1>3!:
    BY <1>1, <2>2, Context, MoveFacts DEF Alone
  <2> QED
    BY <2>1, <2>2 DEF StartStream
<1>4. ReturnsOf(t)' /\ OwnsLocks(t)' /\ OnThatKernel(t)'
  BY <1>1, <1>2, <1>3, Context DEF ReturnsOf, OwnsLocks, Handler, OnThatKernel, Disconnects, Control, Xfers
<1>5. Lists'
  BY <1>1, <1>2, Context DEF Lists, Once
<1>6. ControlLife'
  BY <1>1, <1>2, <1>3, Context, OtherTransfer DEF Control
<1> QED
  BY <1>1, <1>2, <1>3, <1>4, <1>5, <1>6, Together

LEMMA ReadOnKeeps == ASSUME Tidy, ReadOn PROVE Tidy'
<1> DEFINE t == "reader"
<1> USE DEF At, locks, xfers, rest, Go
<1>1. t \in Threads /\ th[t].at = "out" /\ Move(t, "enter", th[t].x, th[t].back, th[t].st)
  BY DEF ReadOn, Threads
<1>2. UNCHANGED <<ev, fl, xl, flags, flying, urb, doneq, done, alloc, removed, plugged, reapAfter>>
  BY DEF ReadOn
<1>3. Alone(t) /\ th' = [u \in Threads |-> th'[u]] /\ th'[t].at = "enter" /\ th'[t].x = None
      /\ th'[t].back = "out"
  BY <1>1, Context, MoveFacts DEF Alone
<1> QED
  BY <1>1, <1>2, <1>3, Context, QuietStep DEF Tidy, Alone, Handler

LEMMA StopHandlesKeeps == ASSUME Tidy, StopHandles PROVE Tidy'
<1> DEFINE t == "cmd"
<1> USE DEF At, locks, xfers, rest, Go
<1>1. t \in Threads /\ th[t].at = "out" /\ Move(t, "enter", th[t].x, th[t].back, th[t].st)
  BY DEF StopHandles, Threads
<1>2. UNCHANGED <<ev, fl, xl, flags, flying, urb, doneq, done, alloc, removed, plugged, reapAfter>>
  BY DEF StopHandles
<1>3. Alone(t) /\ th' = [u \in Threads |-> th'[u]] /\ th'[t].at = "enter" /\ th'[t].x = None
      /\ th'[t].back = "out"
  BY <1>1, Context, MoveFacts DEF Alone
<1> QED
  BY <1>1, <1>2, <1>3, Context, QuietStep DEF Tidy, Alone, Handler

LEMMA StartControlKeeps == ASSUME Tidy, StartControl PROVE Tidy'
<1> DEFINE t == "cmd"
<1> USE DEF At, locks, xfers, rest, Go
<1>1. t \in Threads /\ th[t].at = "out" /\ Move(t, "submit", Control, "finish", "COMPLETED")
  BY DEF StartControl, Threads
<1>2. alloc' = TRUE /\ UNCHANGED <<ev, fl, xl, flags, flying, urb, doneq, done, removed, plugged, reapAfter>>
  BY DEF StartControl
<1>3. Alone(t) /\ th' = [u \in Threads |-> th'[u]] /\ th'[t].at = "submit" /\ th'[t].x = Control
      /\ th'[t].back = "finish"
  BY <1>1, Context, MoveFacts DEF Alone
<1>4. ReturnsOf(t)' /\ OwnsLocks(t)' /\ OnThatKernel(t)'
  BY <1>1, <1>2, <1>3, Context DEF ReturnsOf, OwnsLocks, Handler, OnThatKernel, Disconnects
<1>5. Lists'
  BY <1>1, <1>2, Context DEF Lists, Once
<1>6. ControlLife'
  <2>1. ~done /\ Gone
    BY <1>1, Context DEF CmdLife, Idle
  <2>2. \A u \in Threads : ~Handling(u)'
    BY <1>1, <1>3, <2>1 DEF Gone, Handling, Alone
  <2>3. CmdLife'
    BY <1>1, <1>2, <1>3, <2>1, <2>2, Context DEF CmdLife, Idle, Gone
  <2>4. \A u \in Threads : Knows(u)'
    BY <1>2, <1>3, <2>2, Context DEF Knows, Alone, ControlLife
  <2> QED
    BY <2>3, <2>4 DEF ControlLife
<1> QED
  BY <1>1, <1>2, <1>3, <1>4, <1>5, <1>6, Together

LEMMA FinishControlKeeps == ASSUME Tidy, FinishControl PROVE Tidy'
<1> DEFINE t == "cmd"
<1> USE DEF At, locks, xfers, rest, Go
<1>1. t \in Threads /\ th[t].at = "finish" /\ Move(t, "out", th[t].x, th[t].back, th[t].st)
  BY DEF FinishControl, Threads
<1>2. /\ alloc' = FALSE /\ done' = FALSE
      /\ UNCHANGED <<ev, fl, xl, flags, flying, urb, doneq, removed, plugged, reapAfter>>
  BY DEF FinishControl
<1>3. Alone(t) /\ th' = [u \in Threads |-> th'[u]] /\ th'[t].at = "out" /\ th'[t].x = None
      /\ th'[t].back = "out"
  BY <1>1, Context, MoveFacts DEF Alone
<1>4. ReturnsOf(t)' /\ OwnsLocks(t)' /\ OnThatKernel(t)'
  BY <1>1, <1>2, <1>3, Context DEF ReturnsOf, OwnsLocks, Handler, OnThatKernel, Disconnects
<1>5. Lists'
  BY <1>1, <1>2, Context DEF Lists, Once
<1>6. ControlLife'
  <2>1. Gone
    BY <1>1, Context DEF CmdLife, Idle
  <2>2. \A u \in Threads : ~Handling(u)'
    BY <1>1, <1>3, <2>1 DEF Gone, Handling, Alone
  <2>3. CmdLife'
    BY <1>1, <1>2, <1>3, <2>1, <2>2, Context DEF CmdLife, Idle, Gone
  <2>4. \A u \in Threads : Knows(u)'
    BY <1>2, <1>3, <2>2, Context DEF Knows, Alone, ControlLife
  <2> QED
    BY <2>3, <2>4 DEF ControlLife
<1> QED
  BY <1>1, <1>2, <1>3, <1>4, <1>5, <1>6, Together

\* The threads stand still; a transfer that is pending in the kernel is completed.
LEMMA KernelStep ==
  ASSUME Tidy, UNCHANGED <<th, ev, fl, xl, flags, flying, done, alloc, removed, reapAfter>>,
         removed => (plugged' = plugged),
         Lists',
         \/ urb'[Control] = urb[Control]
         \/ (urb[Control] = "pending" /\ urb'[Control] # "none")
  PROVE  Tidy'
<1>1. Returns' /\ LockOwners'
  BY Context DEF Tidy, FInv, Returns, ReturnsOf, LockOwners, OwnsLocks, Handler
<1>2. ControlLife'
  BY DEF Tidy, FInv, ControlLife, CmdLife, Knows, Gone, Idle, Handling
<1>3. DisconnectInv'
  BY DEF Tidy, FInv, DisconnectInv, OnThatKernel, Disconnects
<1> QED
  BY <1>1, <1>2, <1>3 DEF Tidy, FInv

LEMMA KernelCompletesKeeps == ASSUME Tidy, NEW x \in Xfers, KernelCompletes(x) PROVE Tidy'
<1> USE DEF locks, rest
<1>1. /\ urb[x] = "pending" /\ urb' = [urb EXCEPT ![x] = "done"] /\ doneq' = Append(doneq, x)
      /\ UNCHANGED <<th, ev, fl, xl, flags, flying, done, alloc, removed, plugged, reapAfter>>
  BY DEF KernelCompletes
<1>2. Lists
  BY DEF Tidy, FInv
<1>3. x = Control => Control \notin ToSet(doneq)
  BY <1>1, <1>2 DEF Lists
<1>4. doneq' \in Seq(Xfers) /\ Once(doneq') /\ ToSet(doneq') = ToSet(doneq) \union {x}
  BY <1>1, <1>2, <1>3, AppendFacts DEF Lists
<1>5. Lists'
  BY SMTT(30), <1>1, <1>2, <1>4 DEF Lists, Once
<1> QED
  BY <1>1, <1>2, <1>5, KernelStep DEF Lists

LEMMA UnplugKeeps == ASSUME Tidy, Unplug PROVE Tidy'
<1> USE DEF locks
<1>1. /\ plugged /\ urb' = [x \in Xfers |-> IF x \in Pending THEN "done" ELSE urb[x]]
      /\ UNCHANGED <<th, ev, fl, xl, flags, flying, done, alloc, removed, reapAfter>>
  BY DEF Unplug
<1>2. Lists /\ ~removed /\ Control \in Xfers
  BY <1>1 DEF Tidy, FInv, DisconnectInv, Xfers
<1>3. PICK given \in SetToSeqs(Pending) : doneq' = doneq \o given
  BY DEF Unplug
<1>4. Pending \subseteq Xfers /\ given \in Seq(Xfers) /\ Once(given) /\ ToSet(given) \subseteq Pending
  BY GivenFacts DEF Pending
<1>5. Control \in Pending => Control \notin ToSet(doneq)
  BY <1>2 DEF Lists, Pending
<1>6. doneq' \in Seq(Xfers) /\ Once(doneq') /\ ToSet(doneq') \subseteq ToSet(doneq) \union ToSet(given)
  BY <1>2, <1>3, <1>4, <1>5, JoinedFacts DEF Lists
<1>7. Lists'
  BY <1>1, <1>2, <1>4, <1>6 DEF Lists, Once, Pending
<1> QED
  BY <1>1, <1>2, <1>7, KernelStep DEF Pending

LEMMA TickKeeps == ASSUME Tidy, Tick \/ UNCHANGED vars PROVE Tidy'
<1>1. UNCHANGED <<th, ev, fl, xl, flags, flying, urb, doneq, done, alloc, removed, plugged, reapAfter>>
  BY DEF Tick, vars, locks, rest
<1>2. Lists'
  BY <1>1 DEF Tidy, FInv, Lists, Once
<1> QED
  BY <1>1, <1>2, KernelStep

LEMMA InitTidy == ASSUME Init PROVE Tidy
<1> USE DEF Init
<1>1. Threads = {"reader", "cmd"} /\ Control \in Xfers /\ None \notin Threads
  BY DEF Threads, Xfers, None
<1>2. \A t \in Threads : th[t].at \in {"start", "out"} /\ th[t].x = None /\ th[t].back = "out"
      /\ (th[t].at = "start" <=> t = "reader")
  BY <1>1
<1>3. Returns
  BY <1>1, <1>2 DEF Returns, ReturnsOf
<1>4. LockOwners
  BY <1>1, <1>2 DEF LockOwners, OwnsLocks, Handler
<1>5. Lists
  BY <1>1 DEF Lists, Once, ToSet
<1>6. ControlLife
  BY <1>1, <1>2 DEF ControlLife, CmdLife, Idle, Gone, Handling, Knows, ToSet
<1>7. DisconnectInv
  BY <1>1, <1>2 DEF DisconnectInv, OnThatKernel, Disconnects
<1>8. th = [t \in Threads |-> th[t]]
  OBVIOUS
<1> QED
  BY <1>3, <1>4, <1>5, <1>6, <1>7, <1>8 DEF Tidy, FInv

LEMMA TidyFreed == ASSUME Tidy PROVE FreedIsGone
<1>1. CmdLife /\ \A t \in Threads : Knows(t)
  BY DEF Tidy, FInv, ControlLife
<1> QED
  BY <1>1 DEF FreedIsGone, CmdLife, Idle, Gone, Handling, Knows, Threads

LEMMA NextTidy == Tidy /\ [Next]_vars => Tidy'
<1> SUFFICES ASSUME Tidy, [Next]_vars PROVE Tidy'
  OBVIOUS
<1>1. ASSUME NEW t \in Threads, Step(t) PROVE Tidy'
  <2>1. SetInFlight(t) => Tidy'
    BY SetInFlightKeeps, SetGoneKeeps
  <2> QED
    BY <1>1, <2>1, SubmitLockKeeps, AddToFlyingListKeeps, SubmitToKernelKeeps, SubmitFailedKeeps,
       QuietKeeps, BroadcastKeeps, PollGoneKeeps, ReapKeeps, HandleKeeps, ClassifyKeeps,
       RemoveFlyingKeeps, CallbackKeeps, DisconnectKeeps, ClearPrivKeeps, ScanKeeps,
       CancelKeeps, MarkKeeps
    DEF Step
<1> QED
  BY <1>1, StartStreamKeeps, ReadOnKeeps, StopHandlesKeeps, StartControlKeeps, FinishControlKeeps,
     KernelCompletesKeeps, UnplugKeeps, TickKeeps
  DEF Next

\* Once libusb_control_transfer has freed its transfer, nobody has it: it is not
\* listed, the kernel does not know it, its lock is free, and no thread is between
\* reaping and calling back, or cancelling, it.
THEOREM NobodyHasFreed == Spec => []FreedIsGone
<1>1. Init => Tidy
  BY InitTidy
<1> QED
  BY <1>1, NextTidy, TidyFreed, PTL DEF Spec

=============================================================================
