------------------------- MODULE RunnerServiceProofs -------------------------
(* RInv is an invariant of BinaryRunnerService, and with it each device's listeners hear         *)
(* onClosed once, the fields of the service agree with the devices where nothing is on its way,  *)
(* and StreamActivity's button shows whether the service runs (proofs for all Devices).          *)
EXTENDS RunnerServiceInv, SequenceTheorems, TLAPS

USE DeviceAssumption

-------------------------------------------------------------------------------
(* Messages.                                                                                     *)

(* What a message carries.                                                                       *)
LEMMA Kinds ==
    ASSUME NEW m \in Messages
    PROVE  /\ m[1] \in {"start", "register", "connected", "toggle", "permission"}
           /\ m[1] = "start" => m = <<"start">>
           /\ m[1] = "register" => m = <<"register">>
           /\ m[1] = "connected" => m[2] \in Devices /\ m = <<"connected", m[2]>>
           /\ m[1] = "toggle" => m[2] \in BOOLEAN /\ m = <<"toggle", m[2]>>
<1>1. CASE m \in {<<"start">>, <<"register">>}
    BY <1>1
<1>2. CASE \E d \in Devices : m = <<"connected", d>>
    BY <1>2
<1>3. CASE \E on \in BOOLEAN : m = <<"toggle", on>>
    BY <1>3
<1>4. CASE \E d \in Devices, granted \in BOOLEAN : m = <<"permission", d, granted>>
    BY <1>4
<1> QED
    BY <1>1, <1>2, <1>3, <1>4 DEF Messages

(* What the handlers and users post are messages.                                                *)
LEMMA AreMessages ==
    /\ <<"start">> \in Messages /\ <<"register">> \in Messages
    /\ \A d \in Devices : <<"connected", d>> \in Messages
    /\ \A on \in BOOLEAN : <<"toggle", on>> \in Messages
    /\ \A d \in Devices, granted \in BOOLEAN : <<"permission", d, granted>> \in Messages
BY DEF Messages

(* The first message is taken.                                                                   *)
LEMMA Taken ==
    ASSUME NEW q \in Seq(Messages), q # <<>>, NEW r, r = Tail(q)
    PROVE  /\ r \in Seq(Messages) /\ Head(q) \in Messages /\ Head(q) = q[1]
           /\ Len(q) \in Nat \ {0} /\ DOMAIN q = 1..Len(q)
           /\ Len(r) = Len(q) - 1 /\ DOMAIN r = 1..Len(q) - 1
           /\ \A i \in DOMAIN r : i + 1 \in DOMAIN q /\ r[i] = q[i + 1]
           /\ \A i \in DOMAIN q : i = 1 \/ (i - 1 \in DOMAIN r /\ r[i - 1] = q[i])
<1>1. /\ Len(q) \in Nat /\ DOMAIN q = 1..Len(q) /\ Len(q) # 0
    BY EmptySeq
<1>2. /\ r \in Seq(Messages) /\ Len(r) = Len(q) - 1
      /\ \A i \in 1..Len(r) : r[i] = q[i + 1]
    BY HeadTailProperties
<1>3. DOMAIN r = 1..Len(q) - 1
    BY <1>2
<1>4. \A i \in 1..Len(q) - 1 : i + 1 \in 1..Len(q)
    BY <1>1
<1>5. ASSUME NEW i \in 1..Len(q), i # 1
      PROVE  i - 1 \in 1..Len(q) - 1 /\ (i - 1) + 1 = i
    BY <1>1, <1>5
<1>6. ASSUME NEW i \in 1..Len(q), i # 1
      PROVE  i - 1 \in 1..Len(q) - 1 /\ r[i - 1] = q[i]
    <2>1. i - 1 \in 1..Len(r) /\ (i - 1) + 1 = i
        BY <1>2, <1>5, <1>6
    <2> QED
        BY <1>2, <2>1
<1>7. Head(q) = q[1] /\ q[1] \in Messages
    BY <1>1
<1> QED
    BY <1>1, <1>2, <1>3, <1>4, <1>6, <1>7

(* A message is posted.                                                                          *)
LEMMA Added ==
    ASSUME NEW q \in Seq(Messages), NEW m \in Messages, NEW r, r = Append(q, m)
    PROVE  /\ r \in Seq(Messages)
           /\ Len(q) \in Nat /\ DOMAIN q = 1..Len(q)
           /\ Len(r) = Len(q) + 1 /\ DOMAIN r = 1..Len(q) + 1
           /\ r[Len(q) + 1] = m
           /\ \A i \in DOMAIN q : i \in DOMAIN r /\ r[i] = q[i]
           /\ \A i \in DOMAIN r : i = Len(q) + 1 \/ (i \in DOMAIN q)
BY AppendProperties

(* A queue behind another one.                                                                   *)
LEMMA Joint ==
    ASSUME NEW S, NEW a \in Seq(S), NEW b \in Seq(S)
    PROVE  /\ a \o b \in Seq(S) /\ Len(a \o b) = Len(a) + Len(b)
           /\ \A i \in 1..Len(a) : (a \o b)[i] = a[i]
           /\ \A i \in 1..Len(b) : (a \o b)[Len(a) + i] = b[i]
OBVIOUS

(* One message is taken out.                                                                     *)
LEMMA CutOut ==
    ASSUME NEW S, NEW s \in Seq(S), NEW r \in 1..Len(s)
    PROVE  /\ RemoveAt(s, r) \in Seq(S) /\ Len(RemoveAt(s, r)) = Len(s) - 1
           /\ \A i \in 1..r - 1 : RemoveAt(s, r)[i] = s[i]
           /\ \A i \in r..Len(s) - 1 : RemoveAt(s, r)[i] = s[i + 1]
<1> DEFINE n == Len(s)  a == SubSeq(s, 1, r - 1)  b == SubSeq(s, r + 1, n)
<1>1. n \in Nat /\ r \in 1..n /\ \A i \in 1..n : s[i] \in S
    OBVIOUS
<1> HIDE DEF n
<1>2. /\ a \in Seq(S) /\ Len(a) = r - 1 /\ \A i \in 1..r - 1 : a[i] = s[i]
    <2>1. \A i \in 1..r - 1 : s[i] \in S
        BY <1>1
    <2>2. 1 \in Int /\ r - 1 \in Int
        BY <1>1
    <2> QED
        BY <1>1, <2>1, <2>2, SubSeqProperties
<1>3. /\ b \in Seq(S) /\ Len(b) = n - r /\ \A i \in 1..n - r : b[i] = s[r + i]
    <2>1. \A i \in r + 1..n : s[i] \in S
        BY <1>1
    <2>2. r + 1 \in Int /\ n \in Int
        BY <1>1
    <2>3. /\ b \in Seq(S) /\ Len(b) = (IF r + 1 <= n THEN n - (r + 1) + 1 ELSE 0)
          /\ \A i \in 1..n - (r + 1) + 1 : b[i] = s[(r + 1) + i - 1]
        BY <2>1, <2>2, SubSeqProperties
    <2> HIDE DEF b
    <2>4. Len(b) = n - r
        BY <1>1, <2>3
    <2>5. ASSUME NEW i \in 1..n - r PROVE b[i] = s[r + i]
        <3>1. i \in 1..n - (r + 1) + 1 /\ (r + 1) + i - 1 = r + i
            BY <1>1
        <3> QED
            BY <2>3, <3>1
    <2> QED
        BY <2>3, <2>4, <2>5
<1> HIDE DEF a, b
<1> DEFINE q == a \o b
<1>4. /\ q \in Seq(S) /\ Len(q) = Len(a) + Len(b)
      /\ \A i \in 1..Len(a) : q[i] = a[i]
      /\ \A i \in 1..Len(b) : q[Len(a) + i] = b[i]
    <2>1. a \in Seq(S) /\ b \in Seq(S)
        BY <1>2, <1>3
    <2> QED
        BY <2>1, Joint DEF q
<1>5. RemoveAt(s, r) = q
    BY DEF RemoveAt, a, b, n
<1> HIDE DEF q
<1>6. Len(q) = n - 1
    BY SMTT(30), <1>1, <1>2, <1>3, <1>4
<1>7. ASSUME NEW i \in 1..r - 1 PROVE q[i] = s[i]
    BY <1>2, <1>4
<1>8. ASSUME NEW i \in r..n - 1 PROVE q[i] = s[i + 1]
    <2>1. i - (r - 1) \in 1..n - r /\ (r - 1) + (i - (r - 1)) = i /\ r + (i - (r - 1)) = i + 1
        BY <1>1
    <2>2. q[(r - 1) + (i - (r - 1))] = b[i - (r - 1)]
        BY SMTT(30), <1>2, <1>3, <1>4, <2>1
    <2>3. b[i - (r - 1)] = s[r + (i - (r - 1))]
        BY <1>3, <2>1
    <2> QED
        BY <2>1, <2>2, <2>3
<1> QED
    BY <1>4, <1>5, <1>6, <1>7, <1>8 DEF n

(* StreamActivity unbinds: nothing else is taken away, and the others keep their order.          *)
LEMMA Unbinding ==
    ASSUME mainq \in Seq(Messages), RegisterInv, NEW q, q = Unbound
    PROVE  /\ q \in Seq(Messages) /\ DOMAIN q = 1..Len(q) /\ Len(q) \in Nat
           /\ DOMAIN mainq = 1..Len(mainq) /\ Len(mainq) \in Nat
           /\ \A i \in DOMAIN q : q[i] # <<"register">>
           /\ \E r \in Nat \ {0} :
                /\ \A i \in DOMAIN q : \/ i < r /\ i \in DOMAIN mainq /\ q[i] = mainq[i]
                                       \/ i >= r /\ i + 1 \in DOMAIN mainq /\ q[i] = mainq[i + 1]
                /\ \A i \in DOMAIN mainq : \/ i < r /\ i \in DOMAIN q
                                           \/ i = r /\ mainq[i] = <<"register">>
                                           \/ i > r /\ i - 1 \in DOMAIN q
<1>1. Len(mainq) \in Nat /\ DOMAIN mainq = 1..Len(mainq)
    OBVIOUS
<1>2. CASE \A i \in DOMAIN mainq : mainq[i] # <<"register">>
    <2>1. q = mainq
        BY <1>2 DEF Unbound
    <2>2. Len(mainq) + 1 \in Nat \ {0} /\ \A i \in DOMAIN mainq : i < Len(mainq) + 1
        BY <1>1
    <2> QED
        BY <1>1, <1>2, <2>1, <2>2
<1>3. CASE \E i \in DOMAIN mainq : mainq[i] = <<"register">>
    <2> DEFINE r == CHOOSE i \in DOMAIN mainq : mainq[i] = <<"register">>
    <2>1. r \in DOMAIN mainq /\ mainq[r] = <<"register">> /\ q = RemoveAt(mainq, r)
        BY <1>3 DEF Unbound
    <2> HIDE DEF r
    <2>2. r \in Nat \ {0} /\ r \in 1..Len(mainq)
        BY <1>1, <2>1
    <2>3. /\ q \in Seq(Messages) /\ Len(q) = Len(mainq) - 1
          /\ \A i \in 1..r - 1 : q[i] = mainq[i]
          /\ \A i \in r..Len(mainq) - 1 : q[i] = mainq[i + 1]
        <3> DEFINE cut == RemoveAt(mainq, r)
        <3>1. /\ cut \in Seq(Messages) /\ Len(cut) = Len(mainq) - 1
              /\ \A i \in 1..r - 1 : cut[i] = mainq[i]
              /\ \A i \in r..Len(mainq) - 1 : cut[i] = mainq[i + 1]
            BY <2>2, CutOut
        <3> HIDE DEF cut
        <3>2. q = cut
            BY <2>1 DEF cut
        <3> QED
            BY <3>1, <3>2
    <2>4. Len(q) \in Nat /\ DOMAIN q = 1..Len(q) /\ DOMAIN q = 1..Len(mainq) - 1
        BY <2>3
    <2>5. ASSUME NEW i \in DOMAIN q
          PROVE  \/ i < r /\ i \in DOMAIN mainq /\ q[i] = mainq[i]
                 \/ i >= r /\ i + 1 \in DOMAIN mainq /\ q[i] = mainq[i + 1]
        BY <1>1, <2>2, <2>3, <2>4
    <2>6. ASSUME NEW i \in DOMAIN mainq
          PROVE  \/ i < r /\ i \in DOMAIN q
                 \/ i = r /\ mainq[i] = <<"register">>
                 \/ i > r /\ i - 1 \in DOMAIN q
        BY <1>1, <2>1, <2>2, <2>4
    <2>7. ASSUME NEW i \in DOMAIN q PROVE q[i] # <<"register">>
        <3>1. \A k \in DOMAIN mainq : mainq[k] = <<"register">> => k = r
            BY <2>1 DEF RegisterInv, Once
        <3>2. i \in Int
            BY <1>1, <2>4
        <3>3. i + 1 # r \/ i < r
            BY <2>2, <3>2
        <3> QED
            BY <2>2, <2>5, <3>1, <3>2, <3>3
    <2> QED
        BY <1>1, <2>2, <2>3, <2>4, <2>5, <2>6, <2>7
<1> QED
    BY <1>2, <1>3

-------------------------------------------------------------------------------
(* Types.                                                                                        *)

(* The fields of the types that a step may change one by one.                                    *)
PlaceType(p) ==
    /\ p \in [Threads -> DriverPlaces \cup {"idle"}]
    /\ p[Main] \in StartPlaces \cup {"idle"}
    /\ \A d \in Devices : p[d] \in DriverPlaces

(* A thread goes to one of its places.                                                           *)
LEMMA GotoType ==
    ASSUME TypeInv, NEW t \in Threads, NEW place,
           t = Main => place \in StartPlaces \cup {"idle"},
           t # Main => place \in DriverPlaces,
           Goto(t, place)
    PROVE  PlaceType(pc')
BY DEF TypeInv, PlaceType, Goto, Threads, DriverPlaces

(* An exception leads to the catch block, or ends the process.                                   *)
LEMMA NullPointerType == ASSUME TypeInv, NEW t \in Threads, NullPointer(t) PROVE PlaceType(pc')
<1>1. CASE UNCHANGED pc
    BY <1>1 DEF TypeInv, PlaceType
<1>2. CASE t # Main /\ Goto(t, "tell")
    <2>1. "tell" \in DriverPlaces
        BY DEF DriverPlaces
    <2> QED
        BY <1>2, <2>1, GotoType
<1> QED
    BY <1>1, <1>2 DEF NullPointer

(* startWithDevice returns.                                                                      *)
LEMMA ReturnType == ASSUME TypeInv, NEW t \in Threads, Return(t) PROVE PlaceType(pc')
BY GotoType DEF Return, DriverPlaces

(* The steps of startWithDevice keep the types.                                                  *)
LEMMA WithDeviceType ==
    ASSUME TypeInv, NEW t \in Threads, StartWithDevice(t) PROVE TypeInv'
<1>1. CASE Poll(t)
    <2>1. PlaceType(pc')
        BY <1>1, GotoType DEF Poll, StartPlaces, DriverPlaces
    <2>2. thisDev' \in Devices \cup {None} /\ workQueue' \in Seq(Devices)
        <3>1. workQueue # <<>> => Head(workQueue) \in Devices /\ Tail(workQueue) \in Seq(Devices)
            BY HeadTailProperties DEF TypeInv
        <3> QED
            BY <1>1, <3>1 DEF Poll, TypeInv
    <2> QED
        BY <1>1, <2>1, <2>2 DEF Poll, TypeInv, PlaceType, device, permission, screen
<1>2. CASE Announce(t)
    <2>1. PlaceType(pc')
        <3>1. CASE NullPointer(t)
            BY <3>1, NullPointerType
        <3>2. CASE \E p \in {"tellstop", "clear", "tellrun", "add"} : Goto(t, p)
            BY <3>2, GotoType DEF StartPlaces, DriverPlaces
        <3> QED
            BY <1>2, <3>1, <3>2 DEF Announce
    <2>2. isRunning' \in BOOLEAN /\ toggle' \in BOOLEAN /\ mainq' \in Seq(Messages)
        <3>1. \A on \in BOOLEAN : Append(mainq, <<"toggle", on>>) \in Seq(Messages)
            <4> SUFFICES ASSUME NEW on \in BOOLEAN
                         PROVE  Append(mainq, <<"toggle", on>>) \in Seq(Messages)
                OBVIOUS
            <4>1. <<"toggle", on>> \in Messages /\ mainq \in Seq(Messages)
                BY AreMessages DEF TypeInv
            <4> QED
                BY <4>1
        <3> DEFINE on == pc[t] \in {"run", "tellrun"}
        <3>2. on \in BOOLEAN
            OBVIOUS
        <3>3. \/ UNCHANGED <<isRunning, toggle, mainq>>
              \/ isRunning' = on /\ UNCHANGED <<toggle, mainq>>
              \/ /\ UNCHANGED isRunning
                 /\ toggle' = IF callback /\ t = Main THEN on ELSE toggle
                 /\ mainq' = IF callback /\ t # Main THEN Append(mainq, <<"toggle", on>>) ELSE mainq
            BY <1>2 DEF Announce
        <3> HIDE DEF on
        <3>4. isRunning' \in BOOLEAN /\ toggle' \in BOOLEAN
            BY <3>2, <3>3 DEF TypeInv
        <3>5. mainq' \in Seq(Messages)
            BY <3>1, <3>2, <3>3 DEF TypeInv
        <3> QED
            BY <3>4, <3>5
    <2> QED
        BY <1>2, <2>1, <2>2 DEF Announce, TypeInv, PlaceType
<1>3. CASE Clear(t)
    <2>1. PlaceType(pc')
        BY <1>3, ReturnType DEF Clear
    <2> QED
        BY <1>3, <2>1 DEF Clear, TypeInv, PlaceType, device, permission, screen
<1>4. CASE Listen(t)
    <2>1. PlaceType(pc')
        <3>1. CASE NullPointer(t)
            BY <3>1, NullPointerType
        <3>2. CASE Goto(t, "open")
            BY <3>2, GotoType DEF StartPlaces, DriverPlaces
        <3> QED
            BY <1>4, <3>1, <3>2 DEF Listen
    <2>2. listeners' \in [Devices -> Seq(Names)]
        <3>1. \A d \in Devices : Append(listeners[d], "service") \in Seq(Names)
            BY DEF TypeInv, Names
        <3>2. \/ listeners' = listeners
              \/ thisDev \in Devices
                 /\ \E s \in Seq(Names) : listeners' = [listeners EXCEPT ![thisDev] = s]
            BY <1>4, <3>1 DEF Listen, TypeInv
        <3> QED
            BY <3>2 DEF TypeInv
    <2> QED
        BY <1>4, <2>1, <2>2 DEF Listen, TypeInv, PlaceType, service, screen
<1>5. CASE OpenAsync(t)
    <2>1. PlaceType(pc')
        <3>1. CASE NullPointer(t)
            BY <3>1, NullPointerType
        <3>2. CASE UNCHANGED pc
            BY <3>2 DEF TypeInv, PlaceType
        <3>3. CASE thisDev # None /\ pc[thisDev] = "none" /\ pc[t] = "open"
                   /\ pc' = [pc EXCEPT ![thisDev] = "obtain", ![t] = IF t = Main THEN "idle"
                                                          ELSE "tell"]
            <4>1. thisDev \in Devices /\ thisDev # t
                BY <3>3 DEF TypeInv
            <4> QED
                BY <3>3, <4>1 DEF TypeInv, PlaceType, Threads, DriverPlaces, Opened
        <3> QED
            BY <1>5, <3>1, <3>2, <3>3 DEF OpenAsync
    <2> QED
        BY <1>5, <2>1 DEF OpenAsync, TypeInv, PlaceType, service, screen
<1> QED
    BY <1>1, <1>2, <1>3, <1>4, <1>5 DEF StartWithDevice

(* obtainFdFor returns, with a connection or without.                                            *)
LEMMA WithResultType ==
    ASSUME TypeInv, NEW d \in Devices, NEW result, WithResult(d, result) PROVE PlaceType(pc')
<1>1. d # Main /\ d \in Threads
    BY DEF Threads
<1>2. \E p \in {"opening", "tell"} : Goto(d, p)
    BY DEF WithResult, CaughtPlace
<1> QED
    BY <1>1, <1>2, GotoType DEF DriverPlaces, Opened

(* The listeners that announceOnClosed takes and tells.                                          *)
LEMMA TellType ==
    ASSUME TypeInv, NEW d \in Devices, AnnounceOnClosed(d)
    PROVE  /\ listeners' \in [Devices -> Seq(Names)]
           /\ heard' \in [Devices -> [Names -> Nat]]
           /\ answered' \in [Devices -> {"none", "awaited", "open", "closed"}]
<1>1. CASE listeners[d] = <<>>
    BY <1>1 DEF AnnounceOnClosed, TypeInv
<1>2. CASE listeners[d] # <<>>
    <2>1. /\ listeners[d] \in Seq(Names)
          /\ Head(listeners[d]) \in Names /\ Tail(listeners[d]) \in Seq(Names)
        BY <1>2, HeadTailProperties DEF TypeInv
    <2>2. listeners' = [listeners EXCEPT ![d] = Tail(listeners[d])]
        BY <1>2 DEF AnnounceOnClosed, Polled
    <2> DEFINE l == Head(listeners[d])
    <2>3. heard' = [heard EXCEPT ![d][l] = heard[d][l] + 1]
        BY <1>2 DEF AnnounceOnClosed
    <2>4. \/ answered' = answered
          \/ \E a \in {answered[d], "closed"} : answered' = [answered EXCEPT ![d] = a]
        BY <1>2 DEF AnnounceOnClosed
    <2> HIDE DEF l
    <2>5. heard' \in [Devices -> [Names -> Nat]]
        BY <2>1, <2>3 DEF TypeInv, l
    <2> QED
        BY <2>1, <2>2, <2>4, <2>5 DEF TypeInv
<1> QED
    BY <1>1, <1>2

(* The steps of a driver thread keep them, too.                                                  *)
LEMMA DriverType ==
    ASSUME TypeInv, NEW d \in Devices, Driver(d) \/ Serving(d) PROVE TypeInv'
<1> d \in Threads /\ d # Main
    BY DEF Threads
<1>1. CASE Obtain(d)
    <2>1. PlaceType(pc')
        BY <1>1, WithResultType, GotoType DEF Obtain, DriverPlaces, Opened
    <2> QED
        BY <1>1, <2>1 DEF Obtain, TypeInv, PlaceType, service, screen
<1>2. CASE Get(d)
    <2>1. PlaceType(pc')
        BY <1>2, GotoType DEF Get, DriverPlaces, Opened
    <2> QED
        BY <1>2, <2>1 DEF Get, TypeInv, PlaceType, device, permission, service, screen
<1>3. CASE Woken(d)
    <2>1. PlaceType(pc')
        BY <1>3, WithResultType DEF Woken
    <2> QED
        BY <1>3, <2>1 DEF Woken, TypeInv, PlaceType, service, screen
<1>4. CASE Opening(d)
    <2>1. \E p \in {"announce", "tell"} : Goto(d, p)
        BY <1>4 DEF Opening, CaughtPlace
    <2>2. PlaceType(pc')
        BY <2>1, GotoType DEF DriverPlaces, Opened
    <2> QED
        BY <1>4, <2>2 DEF Opening, TypeInv, PlaceType, service, screen
<1>5. CASE AnnounceOnOpen(d)
    <2>1. PlaceType(pc')
        BY <1>5, GotoType DEF AnnounceOnOpen, DriverPlaces, Opened
    <2>2. answered' \in [Devices -> {"none", "awaited", "open", "closed"}]
        <3>1. \E a \in {answered[d], "open"} : answered' = [answered EXCEPT ![d] = a]
            BY <1>5 DEF AnnounceOnOpen
        <3> QED
            BY <3>1 DEF TypeInv
    <2> QED
        BY <1>5, <2>1, <2>2 DEF AnnounceOnOpen, TypeInv, PlaceType
<1>6. CASE AnnounceOnClosed(d)
    <2>1. UNCHANGED pc \/ \E p \in {"done", "onClosed"} : Goto(d, p)
        BY <1>6 DEF AnnounceOnClosed
    <2>2. PlaceType(pc')
        <3>1. CASE UNCHANGED pc
            BY <3>1 DEF TypeInv, PlaceType
        <3> QED
            BY <2>1, <3>1, GotoType DEF DriverPlaces
    <2> QED
        BY <1>6, <2>2, TellType DEF AnnounceOnClosed, TypeInv, PlaceType, service
<1>7. CASE NameOfClosed(d)
    <2>1. PlaceType(pc')
        BY <1>7, NullPointerType, GotoType DEF NameOfClosed, DriverPlaces
    <2> QED
        BY <1>7, <2>1 DEF NameOfClosed, TypeInv, PlaceType, service, screen
<1>8. CASE ForgetClosed(d)
    <2>1. PlaceType(pc')
        BY <1>8, GotoType DEF ForgetClosed, DriverPlaces, StartPlaces
    <2> QED
        BY <1>8, <2>1 DEF ForgetClosed, TypeInv, PlaceType, device, permission, screen
<1>9. CASE StartWithDevice(d)
    BY <1>9, WithDeviceType
<1>10. CASE Serving(d)
    <2>1. PlaceType(pc')
        BY <1>10, GotoType DEF Serving, DriverPlaces
    <2> QED
        BY <1>10, <2>1 DEF Serving, TypeInv, PlaceType, device, permission, service, screen
<1> QED
    BY <1>1, <1>2, <1>3, <1>4, <1>5, <1>6, <1>7, <1>8, <1>9, <1>10 DEF Driver

(* What is left when the first message is taken.                                                 *)
LEMMA AfterTaken ==
    ASSUME NEW q \in Seq(Messages), q # <<>>, NEW r, r = Tail(q), NEW x
    PROVE  /\ Holds(r, x) => Holds(q, x)
           /\ Once(q, x) => Once(r, x)
           /\ Holds(q, x) /\ Head(q) # x => Holds(r, x)
           /\ Posts(r) => Posts(q)
           /\ Posts(q) /\ Head(q)[1] # "toggle" => Posts(r)
           /\ PostsOff(q) => PostsOff(r)
           /\ Head(q)[1] = "toggle" => Posts(q) /\ (PostsOff(q) => Head(q) = <<"toggle", FALSE>>)
           /\ NoneAfter(q, 0) => NoneAfter(r, 0) /\ ~Starting(Head(q))
           /\ NoneAfter(q, 1) => NoneAfter(r, 0)
           /\ \A d \in Devices : StartConnect(q, d) => Head(q) = <<"start">> /\ Connect(r, d)
           /\ \A d \in Devices : Connect(q, d) => Head(q) = <<"connected", d>> /\ NoneAfter(r, 0)
           /\ StartComes(q) => \/ ~Starting(Head(q)) /\ StartComes(r)
                               \/ Head(q) = <<"start">> /\ NoneAfter(r, 0)
<1>1. /\ r \in Seq(Messages) /\ Head(q) \in Messages /\ Head(q) = q[1]
      /\ Len(q) \in Nat \ {0} /\ DOMAIN q = 1..Len(q)
      /\ Len(r) = Len(q) - 1 /\ DOMAIN r = 1..Len(q) - 1
      /\ \A i \in DOMAIN r : i + 1 \in DOMAIN q /\ r[i] = q[i + 1]
      /\ \A i \in DOMAIN q : i = 1 \/ (i - 1 \in DOMAIN r /\ r[i - 1] = q[i])
    BY Taken
<1>2. 1 \in DOMAIN q /\ \A i \in DOMAIN q : i \in Int /\ i > 0
    BY <1>1
<1>3. \A i \in DOMAIN r : i \in Int /\ i > 0 /\ i + 1 > 1 /\ i + 1 # 1
    BY <1>1
<1>4. Holds(r, x) => Holds(q, x)
    BY <1>1 DEF Holds
<1>5. Once(q, x) => Once(r, x)
    <2> SUFFICES ASSUME Once(q, x), NEW i \in DOMAIN r, NEW j \in DOMAIN r, r[i] = x, r[j] = x
                 PROVE  i = j
        BY DEF Once
    <2>1. i + 1 = j + 1
        BY <1>1 DEF Once
    <2> QED
        BY <1>3, <2>1
<1>6. Holds(q, x) /\ Head(q) # x => Holds(r, x)
    BY <1>1 DEF Holds
<1>7. /\ Posts(r) => Posts(q)
      /\ Posts(q) /\ Head(q)[1] # "toggle" => Posts(r)
    <2>1. ASSUME NEW i \in DOMAIN r, r[i][1] = "toggle" PROVE Posts(q)
        <3>1. i + 1 \in DOMAIN q /\ q[i + 1][1] = "toggle"
            BY <1>1, <2>1
        <3> QED
            BY <3>1 DEF Posts
    <2>2. ASSUME NEW i \in DOMAIN q, q[i][1] = "toggle", Head(q)[1] # "toggle" PROVE Posts(r)
        <3>1. i - 1 \in DOMAIN r /\ r[i - 1] = q[i]
            BY <1>1, <2>2
        <3> QED
            BY <2>2, <3>1 DEF Posts
    <2> QED
        BY <2>1, <2>2 DEF Posts
<1>8. /\ PostsOff(q) => PostsOff(r)
      /\ Head(q)[1] = "toggle" => Posts(q) /\ (PostsOff(q) => Head(q) = <<"toggle", FALSE>>)
    <2>1. PostsOff(q) => PostsOff(r)
        <3> SUFFICES ASSUME PostsOff(q), NEW i \in DOMAIN r, r[i][1] = "toggle"
                     PROVE  r[i] = <<"toggle", FALSE>>
            BY DEF PostsOff
        <3>1. i + 1 \in DOMAIN q /\ r[i] = q[i + 1]
            BY <1>1
        <3> QED
            BY <3>1 DEF PostsOff
    <2>2. Head(q)[1] = "toggle" => Posts(q)
        BY <1>1, <1>2 DEF Posts
    <2>3. Head(q)[1] = "toggle" /\ PostsOff(q) => Head(q) = <<"toggle", FALSE>>
        BY <1>1, <1>2 DEF PostsOff
    <2> QED
        BY <2>1, <2>2, <2>3
<1>9. /\ NoneAfter(q, 0) => NoneAfter(r, 0) /\ ~Starting(Head(q))
      /\ NoneAfter(q, 1) => NoneAfter(r, 0)
    <2>1. NoneAfter(q, 0) => ~Starting(Head(q)) /\ NoneAfter(q, 1)
        <3>1. \A i \in DOMAIN q : i > 1 => i > 0
            BY <1>2
        <3>2. 1 > 0
            OBVIOUS
        <3> QED
            BY <1>1, <1>2, <3>1, <3>2 DEF NoneAfter
    <2>2. NoneAfter(q, 1) => NoneAfter(r, 0)
        BY <1>1, <1>3 DEF NoneAfter
    <2> QED
        BY <2>1, <2>2
<1>10. ASSUME NEW d \in Devices, StartConnect(q, d)
       PROVE  Head(q) = <<"start">> /\ Connect(r, d)
    <2>1. Len(q) >= 2 /\ NoneAfter(q, 2) /\ q[1] = <<"start">> /\ q[2] = <<"connected", d>>
        BY <1>10 DEF StartConnect
    <2>2. 1 \in DOMAIN r /\ Len(r) >= 1
        BY <1>1, <2>1
    <2>3. r[1] = q[2]
        BY <1>1, <2>2
    <2>4. NoneAfter(r, 1)
        <3> SUFFICES ASSUME NEW i \in DOMAIN r, i > 1 PROVE ~Starting(r[i])
            BY DEF NoneAfter
        <3>1. i + 1 > 2
            BY <1>3
        <3> QED
            BY <1>1, <2>1, <3>1 DEF NoneAfter
    <2> QED
        BY <1>1, <2>1, <2>2, <2>3, <2>4 DEF Connect
<1>11. ASSUME NEW d \in Devices, Connect(q, d)
       PROVE  Head(q) = <<"connected", d>> /\ NoneAfter(r, 0)
    BY <1>1, <1>9, <1>11 DEF Connect
<1>12. StartComes(q) => \/ ~Starting(Head(q)) /\ StartComes(r)
                        \/ Head(q) = <<"start">> /\ NoneAfter(r, 0)
    <2> SUFFICES ASSUME NEW i \in DOMAIN q, q[i] = <<"start">>,
                        \A j \in DOMAIN q \ {i} : ~Starting(q[j])
                 PROVE  \/ ~Starting(Head(q)) /\ StartComes(r)
                        \/ Head(q) = <<"start">> /\ NoneAfter(r, 0)
        BY DEF StartComes
    <2>1. CASE i = 1
        <3>1. \A j \in DOMAIN r : ~Starting(r[j])
            BY <1>1, <1>3, <2>1
        <3> QED
            BY <1>1, <2>1, <3>1 DEF NoneAfter
    <2>2. CASE i # 1
        <3>1. i - 1 \in DOMAIN r /\ r[i - 1] = <<"start">>
            BY <1>1, <2>2
        <3>2. ASSUME NEW j \in DOMAIN r \ {i - 1} PROVE ~Starting(r[j])
            <4>1. j + 1 # i /\ j + 1 \in DOMAIN q /\ r[j] = q[j + 1]
                BY <1>1, <1>2, <1>3, <3>2
            <4> QED
                BY <4>1
        <3>3. ~Starting(Head(q))
            BY <1>1, <1>2, <2>2
        <3> QED
            BY <3>1, <3>2, <3>3 DEF StartComes
    <2> QED
        BY <2>1, <2>2
<1> QED
    BY <1>4, <1>5, <1>6, <1>7, <1>8, <1>9, <1>10, <1>11, <1>12

(* What a posted message changes.                                                                *)
LEMMA AfterAdded ==
    ASSUME NEW q \in Seq(Messages), NEW m \in Messages, NEW r, r = Append(q, m), NEW x
    PROVE  /\ Holds(r, x) <=> Holds(q, x) \/ m = x
           /\ Once(q, x) /\ (m # x \/ ~Holds(q, x)) => Once(r, x)
           /\ Posts(r) <=> Posts(q) \/ m[1] = "toggle"
           /\ PostsOff(q) /\ (m[1] = "toggle" => m = <<"toggle", FALSE>>) => PostsOff(r)
           /\ ~Starting(m) => /\ NoneAfter(q, 0) => NoneAfter(r, 0)
                              /\ StartComes(q) => StartComes(r)
           /\ NoneAfter(q, 0) /\ m = <<"start">> => StartComes(r)
<1>1. /\ Len(q) \in Nat /\ DOMAIN q = 1..Len(q)
      /\ Len(r) = Len(q) + 1 /\ DOMAIN r = 1..Len(q) + 1
      /\ r[Len(q) + 1] = m
      /\ \A i \in DOMAIN q : i \in DOMAIN r /\ r[i] = q[i]
      /\ \A i \in DOMAIN r : i = Len(q) + 1 \/ (i \in DOMAIN q)
    BY Added
<1> DEFINE n == Len(q) + 1
<1>2. /\ n \in DOMAIN r /\ n \notin DOMAIN q /\ r[n] = m
      /\ \A i \in DOMAIN q : i \in DOMAIN r /\ r[i] = q[i]
      /\ \A i \in DOMAIN r : i = n \/ (i \in DOMAIN q)
      /\ \A i \in DOMAIN q : i > 0
    BY <1>1
<1> HIDE DEF n
<1>3. Holds(r, x) <=> Holds(q, x) \/ m = x
    BY <1>2 DEF Holds
<1>4. Once(q, x) /\ (m # x \/ ~Holds(q, x)) => Once(r, x)
    BY <1>2 DEF Once, Holds
<1>5. Posts(r) <=> Posts(q) \/ m[1] = "toggle"
    BY <1>2 DEF Posts
<1>6. PostsOff(q) /\ (m[1] = "toggle" => m = <<"toggle", FALSE>>) => PostsOff(r)
    BY <1>2 DEF PostsOff
<1>7. ~Starting(m) /\ NoneAfter(q, 0) => NoneAfter(r, 0)
    BY <1>2 DEF NoneAfter
<1>8. ~Starting(m) /\ StartComes(q) => StartComes(r)
    BY <1>2 DEF StartComes
<1>9. NoneAfter(q, 0) /\ m = <<"start">> => StartComes(r)
    <2> SUFFICES ASSUME NoneAfter(q, 0), m = <<"start">> PROVE StartComes(r)
        OBVIOUS
    <2>1. \A j \in DOMAIN r \ {n} : ~Starting(r[j])
        BY <1>2 DEF NoneAfter
    <2> QED
        BY <1>2, <2>1 DEF StartComes
<1> QED
    BY <1>3, <1>4, <1>5, <1>6, <1>7, <1>8, <1>9

(* A message that starts nothing does not come before the connection.                            *)
LEMMA ConnectAdded ==
    ASSUME NEW q \in Seq(Messages), NEW m \in Messages, ~Starting(m), NEW r, r = Append(q, m),
           NEW d \in Devices
    PROVE  /\ StartConnect(q, d) => StartConnect(r, d)
           /\ Connect(q, d) => Connect(r, d)
<1>1. /\ Len(q) \in Nat /\ DOMAIN q = 1..Len(q)
      /\ Len(r) = Len(q) + 1 /\ DOMAIN r = 1..Len(q) + 1
      /\ r[Len(q) + 1] = m
      /\ \A i \in DOMAIN q : i \in DOMAIN r /\ r[i] = q[i]
      /\ \A i \in DOMAIN r : i = Len(q) + 1 \/ (i \in DOMAIN q)
    BY Added
<1>2. Len(q) >= 1 => 1 \in DOMAIN q /\ Len(r) >= 1
    BY <1>1
<1>3. Len(q) >= 2 => 1 \in DOMAIN q /\ 2 \in DOMAIN q /\ Len(r) >= 2
    BY <1>1
<1>4. /\ NoneAfter(q, 1) => NoneAfter(r, 1)
      /\ NoneAfter(q, 2) => NoneAfter(r, 2)
    BY <1>1 DEF NoneAfter
<1> QED
    BY <1>1, <1>2, <1>3, <1>4 DEF StartConnect, Connect

(* What is left when StreamActivity has unbound.                                                 *)
LEMMA AfterUnbound ==
    ASSUME mainq \in Seq(Messages), RegisterInv, NEW q, q = Unbound, NEW d
    PROVE  /\ ~Holds(q, <<"register">>)
           /\ Posts(q) <=> Posted
           /\ PostsOff(mainq) => PostsOff(q)
           /\ NoneAfter(mainq, 0) => NoneAfter(q, 0)
           /\ StartConnect(mainq, d) => StartConnect(q, d)
           /\ Connect(mainq, d) => Connect(q, d)
           /\ StartComes(mainq) => StartComes(q)
<1>1. /\ q \in Seq(Messages) /\ DOMAIN q = 1..Len(q) /\ Len(q) \in Nat
      /\ DOMAIN mainq = 1..Len(mainq) /\ Len(mainq) \in Nat
      /\ \A i \in DOMAIN q : q[i] # <<"register">>
    BY Unbinding
<1>2. PICK r \in Nat \ {0} :
        /\ \A i \in DOMAIN q : \/ i < r /\ i \in DOMAIN mainq /\ q[i] = mainq[i]
                               \/ i >= r /\ i + 1 \in DOMAIN mainq /\ q[i] = mainq[i + 1]
        /\ \A i \in DOMAIN mainq : \/ i < r /\ i \in DOMAIN q
                                   \/ i = r /\ mainq[i] = <<"register">>
                                   \/ i > r /\ i - 1 \in DOMAIN q
    BY Unbinding
(* Where the i-th message of q was in mainq.                                                     *)
<1> DEFINE was(i) == IF i < r THEN i ELSE i + 1
<1>3. ASSUME NEW i \in DOMAIN q
      PROVE  /\ was(i) \in DOMAIN mainq /\ q[i] = mainq[was(i)]
             /\ was(i) \in Int /\ was(i) >= i /\ i \in Int
    BY <1>1, <1>2
<1>4. ASSUME NEW i \in DOMAIN mainq, mainq[i] # <<"register">>
      PROVE  \E j \in DOMAIN q : was(j) = i
    <2>1. CASE i < r /\ i \in DOMAIN q
        BY <2>1
    <2>2. CASE i > r /\ i - 1 \in DOMAIN q
        <3>1. was(i - 1) = i
            BY <1>1, <2>2
        <3> QED
            BY <2>2, <3>1
    <2> QED
        BY <1>2, <1>4, <2>1, <2>2
<1>5. \A i, j \in DOMAIN q : was(i) = was(j) => i = j
    <2> SUFFICES ASSUME NEW i \in DOMAIN q, NEW j \in DOMAIN q, was(i) = was(j) PROVE i = j
        OBVIOUS
    <2>1. i \in Int /\ j \in Int
        BY <1>1
    <2> QED
        BY <1>2, <2>1
<1>6. ASSUME NEW i \in DOMAIN mainq, \/ mainq[i][1] \in {"toggle", "start", "connected"}
      PROVE  \E j \in DOMAIN q : was(j) = i
    BY <1>4, <1>6
<1> HIDE DEF was
<1>7. ~Holds(q, <<"register">>)
    BY <1>1 DEF Holds
<1>8. Posts(q) <=> Posted
    BY <1>3, <1>6 DEF Posts, Posted
<1>9. PostsOff(mainq) => PostsOff(q)
    BY <1>3 DEF PostsOff
<1>10. ASSUME NEW k \in Nat, NoneAfter(mainq, k) PROVE NoneAfter(q, k)
    <2> SUFFICES ASSUME NEW i \in DOMAIN q, i > k PROVE ~Starting(q[i])
        BY DEF NoneAfter
    <2>1. was(i) > k
        BY <1>3
    <2> QED
        BY <1>3, <1>10, <2>1 DEF NoneAfter
<1>11. StartComes(mainq) => StartComes(q)
    <2> SUFFICES ASSUME NEW i \in DOMAIN mainq, mainq[i] = <<"start">>,
                        \A j \in DOMAIN mainq \ {i} : ~Starting(mainq[j])
                 PROVE  StartComes(q)
        BY DEF StartComes
    <2>1. PICK j \in DOMAIN q : was(j) = i
        BY <1>6
    <2>2. q[j] = <<"start">>
        BY <1>3, <2>1
    <2>3. \A l \in DOMAIN q \ {j} : ~Starting(q[l])
        BY <1>3, <1>5, <2>1
    <2> QED
        BY <2>2, <2>3 DEF StartComes
(* The first messages are not unbound, and stay the first.                                       *)
<1>12. ASSUME Len(mainq) >= 1, Starting(mainq[1])
       PROVE  Len(q) >= 1 /\ q[1] = mainq[1] /\ r > 1
    <2>1. 1 \in DOMAIN mainq
        BY <1>1, <1>12
    <2>2. mainq[1] # <<"register">>
        BY <1>12 DEF Starting
    <2>3. 1 < r /\ 1 \in DOMAIN q
        BY <1>1, <1>2, <2>1, <2>2
    <2> QED
        BY <1>1, <1>2, <2>3
<1>13. ASSUME Len(mainq) >= 2, Starting(mainq[1]), Starting(mainq[2])
       PROVE  Len(q) >= 2 /\ q[1] = mainq[1] /\ q[2] = mainq[2]
    <2>1. 2 \in DOMAIN mainq /\ Len(mainq) >= 1
        BY <1>1, <1>13
    <2>2. mainq[2] # <<"register">> /\ r > 1
        BY <1>12, <1>13, <2>1 DEF Starting
    <2>3. 2 < r /\ 2 \in DOMAIN q
        BY <1>1, <1>2, <2>1, <2>2
    <2> QED
        BY <1>1, <1>2, <1>12, <1>13, <2>1, <2>3
<1>14. /\ StartConnect(mainq, d) => StartConnect(q, d)
       /\ Connect(mainq, d) => Connect(q, d)
    <2>1. Starting(<<"start">>) /\ Starting(<<"connected", d>>)
        BY DEF Starting
    <2>2. /\ NoneAfter(mainq, 1) => NoneAfter(q, 1)
          /\ NoneAfter(mainq, 2) => NoneAfter(q, 2)
        BY <1>10
    <2>3. Connect(mainq, d) => Connect(q, d)
        BY <1>12, <2>1, <2>2 DEF Connect
    <2>4. StartConnect(mainq, d) => StartConnect(q, d)
        BY <1>13, <2>1, <2>2 DEF StartConnect
    <2> QED
        BY <2>3, <2>4
<1>15. NoneAfter(mainq, 0) => NoneAfter(q, 0)
    BY <1>10
<1> QED
    BY <1>7, <1>8, <1>9, <1>11, <1>14, <1>15

(* So do the handlers of the main thread,                                                        *)
LEMMA HandleType == ASSUME TypeInv, HandleMessage PROVE TypeInv'
<1> DEFINE m == Head(mainq)
<1>1. mainq # <<>> /\ mainq \in Seq(Messages) /\ UNCHANGED overlap
    BY DEF HandleMessage, TypeInv
<1>2. m \in Messages /\ Tail(mainq) \in Seq(Messages)
    BY <1>1, HeadTailProperties
<1> HIDE DEF m
<1>3. CASE OnStartCommand
    <2>1. PlaceType(pc')
        BY <1>3, GotoType DEF OnStartCommand, StartPlaces, Threads
    <2> QED
        BY <1>1, <1>2, <1>3, <2>1 DEF OnStartCommand, TypeInv, PlaceType, device, service, screen
<1>4. CASE m[1] = "connected" /\ OnServiceConnected(m[2])
    <2>1. m[2] \in Devices
        BY <1>2, <1>4, Kinds
    <2>2. workQueue' \in Seq(Devices)
        <3>1. workQueue' = Append(workQueue, m[2]) /\ workQueue \in Seq(Devices)
            BY <1>4 DEF OnServiceConnected, TypeInv
        <3> QED
            BY <2>1, <3>1, AppendProperties
    <2>3. mainq' \in Seq(Messages)
        <3>1. mainq' = Tail(mainq) \/ mainq' = Append(Tail(mainq), <<"start">>)
            BY <1>4 DEF OnServiceConnected
        <3> QED
            BY <1>2, <3>1, AreMessages, Added
    <2> QED
        BY <1>1, <1>4, <2>2, <2>3 DEF OnServiceConnected, TypeInv, screen
<1>5. CASE RegisterCallback
    BY <1>1, <1>2, <1>5 DEF RegisterCallback, TypeInv, device, permission
<1>6. CASE m[1] = "toggle" /\ SetChecked(m[2])
    <2>1. m[2] \in BOOLEAN
        BY <1>2, <1>6, Kinds
    <2> QED
        BY <1>1, <1>2, <1>6, <2>1 DEF SetChecked, TypeInv, device, permission, service
<1>7. CASE OnReceive(m[2], m[3])
    <2>1. PlaceType(pc')
        <3>1. PICK s : pc' = [t \in Threads |-> IF t \in s /\ pc[t] = "wait" THEN "woken"
                                                          ELSE pc[t]]
            BY <1>7 DEF OnReceive
        <3>2. "woken" \in DriverPlaces /\ "wait" \notin StartPlaces \cup {"idle"} /\ Main \in
            Threads
            BY DEF DriverPlaces, Opened, StartPlaces, Threads
        <3> QED
            BY <3>1, <3>2 DEF TypeInv, PlaceType, Threads
    <2> QED
        BY <1>1, <1>2, <1>7, <2>1 DEF OnReceive, TypeInv, PlaceType, service, screen
<1> QED
    BY <1>3, <1>4, <1>5, <1>6, <1>7 DEF HandleMessage, m

(* and what users do.                                                                            *)
LEMMA UserType ==
    ASSUME TypeInv, RegisterInv,
           \/ \E d \in Devices : StartServer(d) \/ Answer(d)
           \/ LeaveActivity \/ OnResume \/ OnPause \/ Click
    PROVE  TypeInv'
<1>1. ASSUME NEW d \in Devices, StartServer(d) PROVE TypeInv'
    <2>1. mainq' = Unbound \o << <<"start">>, <<"connected", d>> >>
        BY <1>1 DEF StartServer
    <2>2. Unbound \in Seq(Messages)
        BY Unbinding DEF TypeInv
    <2>3. << <<"start">>, <<"connected", d>> >> \in Seq(Messages)
        BY AreMessages
    <2>4. mainq' \in Seq(Messages)
        BY <2>1, <2>2, <2>3, ConcatProperties
    <2>5. listeners' = [listeners EXCEPT ![d] = Append(listeners[d], "activity")]
          /\ Append(listeners[d], "activity") \in Seq(Names)
        BY <1>1 DEF StartServer, TypeInv, Names
    <2> QED
        BY <1>1, <2>4, <2>5 DEF StartServer, TypeInv, service
<1>2. ASSUME NEW d \in Devices, Answer(d) PROVE TypeInv'
    <2>1. PICK granted \in BOOLEAN : mainq' = Append(mainq, <<"permission", d, granted>>)
        BY <1>2 DEF Answer
    <2>2. mainq' \in Seq(Messages)
        BY <2>1, AreMessages, AppendProperties DEF TypeInv
    <2> QED
        BY <1>2, <2>2 DEF Answer, TypeInv, service, screen
<1>3. CASE LeaveActivity
    BY <1>3 DEF LeaveActivity, TypeInv, device, permission, service
<1>4. CASE OnResume
    <2>1. mainq' \in Seq(Messages)
        BY <1>4, AreMessages, AppendProperties DEF OnResume, TypeInv
    <2> QED
        BY <1>4, <2>1 DEF OnResume, TypeInv, device, permission, service
<1>5. CASE OnPause
    <2>1. mainq' \in Seq(Messages)
        BY <1>5, Unbinding DEF OnPause, TypeInv
    <2> QED
        BY <1>5, <2>1 DEF OnPause, TypeInv, device, permission, service
<1>6. CASE Click
    BY <1>6 DEF Click, TypeInv, permission, service
<1> QED
    BY <1>1, <1>2, <1>3, <1>4, <1>5, <1>6

-------------------------------------------------------------------------------
(* The activity's listener.                                                                      *)

(* Where the activity is among the listeners.                                                    *)
Acts(s) == {i \in DOMAIN s : s[i] = "activity"}

(* Where a device's listeners, what they have heard and the activity's answer stay.              *)
SameEars(d) ==
    listeners'[d] = listeners[d] /\ heard'[d] = heard[d]
        /\ (answered'[d] = "none" => answered[d] = "none")

(* A listener is added behind the others.                                                        *)
LEMMA AppendedActs ==
    ASSUME NEW s \in Seq(Names)
    PROVE  /\ Acts(Append(s, "service")) = Acts(s)
           /\ Acts(s) = {} => \A i, j \in Acts(Append(s, "activity")) : i = j
<1>1. /\ Len(s) \in Nat /\ DOMAIN s = 1..Len(s)
      /\ \A x \in Names : /\ DOMAIN Append(s, x) = 1..Len(s) + 1 /\ Append(s, x)[Len(s) + 1] = x
                          /\ \A i \in 1..Len(s) : Append(s, x)[i] = s[i]
    BY AppendProperties
<1>2. "activity" \in Names /\ "service" \in Names
    BY DEF Names
<1> QED
    BY <1>1, <1>2 DEF Acts

(* announceOnClosed takes the first.                                                             *)
LEMMA TakenActs ==
    ASSUME NEW s \in Seq(Names), s # <<>>, \A i, j \in Acts(s) : i = j
    PROVE  /\ \A i, j \in Acts(Tail(s)) : i = j
           /\ Acts(s) = {} => Acts(Tail(s)) = {}
           /\ Head(s) = "activity" => Acts(s) # {} /\ Acts(Tail(s)) = {}
<1>1. /\ Len(s) \in Nat /\ Len(s) # 0 /\ DOMAIN s = 1..Len(s)
      /\ Tail(s) \in Seq(Names) /\ Len(Tail(s)) = Len(s) - 1
      /\ \A i \in 1..Len(Tail(s)) : Tail(s)[i] = s[i + 1]
      /\ Head(s) = s[1]
    BY HeadTailProperties, EmptySeq
<1>2. DOMAIN Tail(s) = 1..Len(s) - 1
    BY <1>1
<1>3. \A i \in 1..Len(s) - 1 : Tail(s)[i] = s[i + 1] /\ i + 1 \in 1..Len(s)
    BY <1>1
<1>4. \A i \in Acts(Tail(s)) : i \in Int /\ i + 1 \in Acts(s) /\ i + 1 # 1
    BY <1>1, <1>2, <1>3 DEF Acts
<1>5. Head(s) = "activity" => 1 \in Acts(s)
    BY <1>1 DEF Acts
<1>6. ASSUME NEW i \in Acts(Tail(s)), NEW j \in Acts(Tail(s)) PROVE i = j
    <2>1. i + 1 = j + 1 /\ i \in Int /\ j \in Int
        BY <1>4
    <2> QED
        BY <2>1
<1> QED
    BY <1>4, <1>5, <1>6

(* A step that leaves the listeners alone keeps ActivityInv.                                     *)
LEMMA EarsKept ==
    ASSUME ActivityInv, \A d \in Devices : SameEars(d)
    PROVE  ActivityInv'
BY DEF ActivityInv, SameEars

(* Every step keeps ActivityInv, also when openings overlap.                                     *)
LEMMA ActivityStep == ASSUME TypeInv, ActivityInv, [Next]_vars PROVE ActivityInv'
<1> USE DEF Acts
<1>1. ASSUME NEW t \in Threads, Listen(t) PROVE ActivityInv'
    <2>1. CASE listeners' = listeners
        BY <1>1, <2>1, EarsKept DEF SameEars, Listen
    <2>2. CASE thisDev \in Devices
               /\ listeners' = [listeners EXCEPT ![thisDev] = Append(listeners[thisDev], "service")]
        <3>1. \A d \in Devices : /\ Acts(listeners'[d]) = Acts(listeners[d])
                                 /\ heard'[d] = heard[d] /\ answered'[d] = answered[d]
            <4> HIDE DEF Acts
            <4> QED
                BY <1>1, <2>2, AppendedActs DEF Listen, TypeInv
        <3> QED
            BY <3>1 DEF ActivityInv
    <2> QED
        BY <1>1, <2>1, <2>2 DEF Listen, TypeInv
<1>2. ASSUME NEW d \in Devices, AnnounceOnClosed(d) PROVE ActivityInv'
    <2>1. CASE listeners[d] = <<>>
        BY <1>2, <2>1, EarsKept DEF SameEars, AnnounceOnClosed
    <2>2. CASE listeners[d] # <<>>
        <3> DEFINE l == Head(listeners[d])
        <3>1. /\ listeners' = [listeners EXCEPT ![d] = Tail(listeners[d])]
              /\ heard' = [heard EXCEPT ![d][l] = heard[d][l] + 1]
              /\ l = "activity" => \E a \in {answered[d], "closed"} :
                                     /\ answered' = [answered EXCEPT ![d] = a]
                                     /\ answered[d] = "none" \/ a # "none"
              /\ l # "activity" => answered' = answered
            BY <1>2, <2>2 DEF AnnounceOnClosed, Polled
        <3>2. l \in Names /\ listeners[d] \in Seq(Names)
            BY <2>2, HeadTailProperties DEF TypeInv
        <3> DEFINE old == Acts(listeners[d])  new == Acts(Tail(listeners[d]))
        <3>3. /\ \A i, j \in new : i = j
              /\ old = {} => new = {}
              /\ l = "activity" => old # {} /\ new = {}
            <4>1. \A i, j \in Acts(listeners[d]) : i = j
                BY DEF ActivityInv
            <4> HIDE DEF Acts
            <4> QED
                BY <2>2, <3>2, <4>1, TakenActs
        <3>4. /\ heard'[d]["activity"] = heard[d]["activity"] + (IF l = "activity" THEN 1 ELSE 0)
              /\ listeners'[d] = Tail(listeners[d])
            BY <3>1, <3>2 DEF TypeInv, Names
        <3>5. \A e \in Devices \ {d} : SameEars(e)
            BY <3>1 DEF SameEars, TypeInv
        <3>6. /\ heard[d]["activity"] \in Nat
              /\ answered'[d] = "none" => answered[d] = "none"
            BY <3>1 DEF TypeInv, Names
        <3>7. /\ \A i, j \in old : i = j
              /\ heard[d]["activity"] <= 1
              /\ heard[d]["activity"] = 1 => old = {}
              /\ answered[d] = "none" => old = {} /\ heard[d]["activity"] = 0
            BY DEF ActivityInv
        <3> DEFINE k == heard[d]["activity"]  k2 == heard'[d]["activity"]
        <3>8. /\ k2 <= 1
              /\ k2 = 1 => new = {}
              /\ answered'[d] = "none" => new = {} /\ k2 = 0
            <4> HIDE DEF l, old, new
            <4> QED
                BY <3>3, <3>4, <3>6, <3>7
        <3> HIDE DEF l
        <3>9. \A i, j \in Acts(listeners'[d]) : i = j
            BY <3>3, <3>4
        <3>10. Acts(listeners'[d]) = new
            BY <3>4
        <3> HIDE DEF new, old, k, k2
        <3>11. ASSUME NEW e \in Devices
               PROVE  /\ \A i, j \in Acts(listeners'[e]) : i = j
                      /\ heard'[e]["activity"] <= 1
                      /\ heard'[e]["activity"] = 1 => Acts(listeners'[e]) = {}
                      /\ answered'[e] = "none" => Acts(listeners'[e]) = {} /\
                          heard'[e]["activity"] = 0
            <4>1. CASE e = d
                BY <3>8, <3>9, <3>10, <4>1 DEF k2
            <4>2. CASE e # d
                BY <3>5, <4>2 DEF SameEars, ActivityInv
            <4> QED
                BY <4>1, <4>2
        <3> QED
            BY <3>11 DEF ActivityInv
    <2> QED
        BY <2>1, <2>2
<1>3. ASSUME NEW d \in Devices, StartServer(d) PROVE ActivityInv'
    <2>1. /\ listeners' = [listeners EXCEPT ![d] = Append(listeners[d], "activity")]
          /\ answered' = [answered EXCEPT ![d] = "awaited"] /\ answered[d] = "none"
          /\ heard' = heard
        BY <1>3 DEF StartServer
    <2>2. Acts(listeners[d]) = {} /\ heard[d]["activity"] = 0
        BY <2>1 DEF ActivityInv
    <2>3. \A i, j \in Acts(Append(listeners[d], "activity")) : i = j
        <3> HIDE DEF Acts
        <3> QED
            BY <2>2, AppendedActs DEF TypeInv
    <2>4. \A e \in Devices \ {d} : SameEars(e)
        BY <2>1 DEF SameEars, TypeInv
    <2>5. listeners'[d] = Append(listeners[d], "activity") /\ answered'[d] = "awaited"
        BY <2>1 DEF TypeInv
    <2>6. ASSUME NEW e \in Devices
          PROVE  /\ \A i, j \in Acts(listeners'[e]) : i = j
                 /\ heard'[e]["activity"] <= 1
                 /\ heard'[e]["activity"] = 1 => Acts(listeners'[e]) = {}
                 /\ answered'[e] = "none" => Acts(listeners'[e]) = {} /\ heard'[e]["activity"] = 0
        <3>1. CASE e = d
            BY <2>1, <2>2, <2>3, <2>5, <3>1
        <3>2. CASE e # d
            BY <2>4, <3>2 DEF SameEars, ActivityInv
        <3> QED
            BY <3>1, <3>2
    <2> QED
        BY <2>6 DEF ActivityInv
<1>4. ASSUME NEW d \in Devices, AnnounceOnOpen(d) PROVE ActivityInv'
    <2>1. \A e \in Devices : SameEars(e)
        BY <1>4 DEF AnnounceOnOpen, SameEars, TypeInv
    <2> QED
        BY <2>1, EarsKept
<1>5. CASE UNCHANGED <<listeners, heard, answered>>
    BY <1>5, EarsKept DEF SameEars
<1>6. CASE HandleMessage
    BY <1>5, <1>6 DEF HandleMessage, OnStartCommand, OnServiceConnected, RegisterCallback,
        SetChecked,
        OnReceive, device
<1>7. ASSUME NEW t \in Threads, StartWithDevice(t) PROVE ActivityInv'
    BY <1>1, <1>5, <1>7 DEF StartWithDevice, Poll, Announce, Clear, OpenAsync, device
<1>8. ASSUME NEW d \in Devices, Driver(d) \/ Serving(d) PROVE ActivityInv'
    <2>1. d \in Threads
        BY DEF Threads
    <2> QED
        BY <1>2, <1>4, <1>5, <1>7, <1>8, <2>1
           DEF Driver, Serving, Obtain, Get, Woken, Opening, NameOfClosed, ForgetClosed, device
<1>9. CASE LeaveActivity \/ OnResume \/ OnPause \/ Click \/ \E d \in Devices : Answer(d)
    BY <1>5, <1>9 DEF LeaveActivity, OnResume, OnPause, Click, Answer, device
<1>10. CASE Rest \/ UNCHANGED vars
    BY <1>5, <1>10 DEF Rest, vars, device
<1>11. Main \in Threads
    BY DEF Threads
<1> QED
    BY <1>3, <1>6, <1>7, <1>8, <1>9, <1>10, <1>11 DEF Next

(* Nothing runs at first.                                                                        *)
LEMMA InitR == Init => RInv
<1> SUFFICES ASSUME Init PROVE RInv
    OBVIOUS
<1>1. TypeInv
    <2>1. pc \in [Threads -> DriverPlaces \cup {"idle"}] /\ pc[Main] = "idle"
          /\ \A d \in Devices : pc[d] = "none"
        BY DEF Init, Threads, DriverPlaces
    <2>2. /\ listeners \in [Devices -> Seq(Names)]
          /\ heard \in [Devices -> [Names -> Nat]]
          /\ answered \in [Devices -> {"none", "awaited", "open", "closed"}]
        BY DEF Init, Names
    <2>3. mainq \in Seq(Messages) /\ workQueue \in Seq(Devices)
        BY DEF Init
    <2> QED
        BY <2>1, <2>2, <2>3 DEF Init, TypeInv, DriverPlaces
<1>2. ActivityInv
    <2>1. \A d \in Devices : listeners[d] = <<>> /\ heard[d]["activity"] = 0
        BY DEF Init
    <2> QED
        BY <2>1 DEF ActivityInv
<1>3. RegisterInv
    BY DEF Init, RegisterInv, Registering, Holds, Once
<1>4. AloneInv
    <2>1. AtEase
        BY DEF Init, AtEase, Stopped, NoneAfter, PostsOff, WillShowOff, Threads
    <2>2. \A d \in Devices : Quiet(d)
        BY DEF Init, Quiet, Threads
    <2> QED
        BY <2>1, <2>2 DEF AloneInv
<1>5. \A d \in Devices : heard[d]["service"] = 0
    BY DEF Init
<1> QED
    BY <1>1, <1>2, <1>3, <1>4, <1>5 DEF RInv

-------------------------------------------------------------------------------
(* Connections of StreamActivity.                                                                *)

(* The connection of StreamActivity.                                                             *)
reg == <<"register">>

(* StreamActivity binds once and unbinds before it binds again.                                  *)
LEMMA RegisterStep == ASSUME TypeInv, RegisterInv, [Next]_vars PROVE RegisterInv'
<1> USE DEF RegisterInv, Registering
<1>0. mainq \in Seq(Messages)
    BY DEF TypeInv
<1>1. ASSUME UNCHANGED overlap, UNCHANGED mainq, UNCHANGED resumed PROVE RegisterInv'
    BY <1>1
<1>2. ASSUME UNCHANGED overlap, UNCHANGED resumed,
             NEW m \in Messages, m # reg, mainq' = Append(mainq, m)
      PROVE  RegisterInv'
    BY <1>0, <1>2, AfterAdded DEF reg
<1>3. ASSUME UNCHANGED overlap, UNCHANGED resumed, mainq # <<>>, mainq' = Tail(mainq)
      PROVE  RegisterInv'
    BY <1>0, <1>3, AfterTaken
<1>4. CASE HandleMessage
    <2>1. mainq # <<>> /\ UNCHANGED overlap /\ UNCHANGED resumed
        BY <1>4 DEF HandleMessage, OnStartCommand, OnServiceConnected, RegisterCallback, SetChecked,
            OnReceive, screen
    <2>2. mainq' = Tail(mainq) \/ mainq' = Append(Tail(mainq), <<"start">>)
        BY <1>4 DEF HandleMessage, OnStartCommand, OnServiceConnected, RegisterCallback, SetChecked,
            OnReceive
    <2>3. CASE mainq' = Append(Tail(mainq), <<"start">>)
        <3> DEFINE q == Tail(mainq)
        <3>1. q \in Seq(Messages)
            BY <1>0, <2>1, Taken
        <3>2. /\ Holds(q, reg) => Holds(mainq, reg)
              /\ Once(mainq, reg) => Once(q, reg)
            BY <1>0, <2>1, AfterTaken
        <3>3. <<"start">> # reg /\ <<"start">> \in Messages
            BY AreMessages DEF reg
        <3> HIDE DEF q
        <3>4. /\ Holds(mainq', reg) => Holds(q, reg)
              /\ Once(q, reg) => Once(mainq', reg)
            BY ZenonT(40), <2>3, <3>1, <3>3, AfterAdded DEF q
        <3> QED
            BY <2>1, <3>2, <3>4 DEF reg
    <2> QED
        BY <1>3, <2>1, <2>2, <2>3
<1>5. ASSUME NEW t \in Threads, StartWithDevice(t) PROVE RegisterInv'
    <2>1. UNCHANGED overlap /\ UNCHANGED resumed
        BY <1>5 DEF StartWithDevice, Poll, Announce, Clear, Listen, OpenAsync, screen
    <2>2. UNCHANGED mainq \/ \E on \in BOOLEAN : mainq' = Append(mainq, <<"toggle", on>>)
        <3>1. CASE Announce(t)
            <4> DEFINE on == pc[t] \in {"run", "tellrun"}
            <4>1. on \in BOOLEAN
                OBVIOUS
            <4>2. UNCHANGED mainq \/ mainq' = Append(mainq, <<"toggle", on>>)
                BY <3>1 DEF Announce
            <4> QED
                BY <4>1, <4>2
        <3> QED
            BY <1>5, <3>1 DEF StartWithDevice, Poll, Clear, Listen, OpenAsync
    <2>3. \A on \in BOOLEAN : <<"toggle", on>> \in Messages /\ <<"toggle", on>> # reg
        BY AreMessages DEF reg
    <2> QED
        BY <1>1, <1>2, <2>1, <2>2, <2>3
<1>6. ASSUME NEW d \in Devices, Driver(d) \/ Serving(d) PROVE RegisterInv'
    <2>1. d \in Threads
        BY DEF Threads
    <2> QED
        BY <1>1, <1>5, <1>6, <2>1 DEF Driver, Serving, Obtain, Get, Woken, Opening, AnnounceOnOpen,
            AnnounceOnClosed, NameOfClosed, ForgetClosed, screen
<1>7. ASSUME NEW d \in Devices, StartServer(d) PROVE RegisterInv'
    <2>1. resumed' = FALSE /\ mainq' = Unbound \o << <<"start">>, <<"connected", d>> >>
        BY <1>7 DEF StartServer
    <2> DEFINE q == Unbound  two == << <<"start">>, <<"connected", d>> >>
    <2>2. q \in Seq(Messages) /\ Len(q) \in Nat /\ DOMAIN q = 1..Len(q)
          /\ \A i \in DOMAIN q : q[i] # reg
        BY <1>0, Unbinding DEF reg
    <2>3. two \in Seq(Messages) /\ Len(two) = 2 /\ \A i \in 1..2 : two[i] # reg
        BY AreMessages DEF reg
    <2> HIDE DEF q, two
    <2> DEFINE r == q \o two
    <2>4. /\ r \in Seq(Messages) /\ Len(r) = Len(q) + 2
          /\ \A i \in 1..Len(q) : r[i] = q[i]
          /\ \A i \in 1..2 : r[Len(q) + i] = two[i]
        <3>1. /\ q \o two \in Seq(Messages) /\ Len(q \o two) = Len(q) + Len(two)
              /\ \A i \in 1..Len(q) : (q \o two)[i] = q[i]
              /\ \A i \in 1..Len(two) : (q \o two)[Len(q) + i] = two[i]
            <4>1. q \in Seq(Messages) /\ two \in Seq(Messages)
                BY <2>2, <2>3
            <4> QED
                BY <4>1, Joint
        <3> QED
            BY <2>3, <3>1
    <2> HIDE DEF r
    <2>5. ASSUME NEW i \in DOMAIN r PROVE r[i] # reg
        <3>1. i \in 1..Len(q) + 2 /\ i \in Int
            BY <2>2, <2>4
        <3>2. CASE i \in 1..Len(q)
            BY <2>2, <2>4, <3>2
        <3>3. CASE i - Len(q) \in 1..2
            <4>1. r[Len(q) + (i - Len(q))] = two[i - Len(q)]
                BY <2>4, <3>3
            <4>2. Len(q) + (i - Len(q)) = i
                BY <2>2, <3>1
            <4> QED
                BY <2>3, <3>3, <4>1, <4>2
        <3> QED
            BY <2>2, <3>1, <3>2, <3>3
    <2>6. mainq' = r
        BY <2>1 DEF r, q, two
    <2> QED
        BY <2>1, <2>5, <2>6 DEF Holds, Once, reg
<1>8. CASE OnResume
    <2>1. mainq' = Append(mainq, reg) /\ resumed' /\ ~resumed /\ ~overlap /\ UNCHANGED overlap
        BY <1>8 DEF OnResume, reg
    <2> QED
        BY <1>0, <2>1, AreMessages, AfterAdded DEF reg
<1>9. CASE OnPause
    <2>1. mainq' = Unbound /\ resumed' = FALSE
        BY <1>9 DEF OnPause
    <2>2. \A i \in DOMAIN mainq' : mainq'[i] # reg
        BY <1>0, <2>1, Unbinding DEF reg
    <2> QED
        BY <2>1, <2>2 DEF Holds, Once, reg
<1>10. ASSUME NEW d \in Devices, Answer(d) PROVE RegisterInv'
    <2>1. PICK granted \in BOOLEAN : mainq' = Append(mainq, <<"permission", d, granted>>)
        BY <1>10 DEF Answer
    <2>2. <<"permission", d, granted>> \in Messages /\ <<"permission", d, granted>> # reg
        BY AreMessages DEF reg
    <2> QED
        BY <1>2, <1>10, <2>1, <2>2 DEF Answer, screen
<1>11. CASE LeaveActivity \/ Click \/ Rest \/ UNCHANGED vars
    BY <1>1, <1>11 DEF LeaveActivity, Click, Rest, vars, screen
<1>12. Main \in Threads
    BY DEF Threads
<1> QED
    BY <1>4, <1>5, <1>6, <1>7, <1>8, <1>9, <1>10, <1>11, <1>12 DEF Next

(* Every step keeps the types.                                                                   *)
LEMMA TypeStep == ASSUME TypeInv, RegisterInv, [Next]_vars PROVE TypeInv'
<1>1. CASE Rest \/ UNCHANGED vars
    BY <1>1 DEF Rest, vars, TypeInv, device, permission, service, screen
<1>2. Main \in Threads
    BY DEF Threads
<1> QED
    BY <1>1, <1>2, HandleType, UserType, WithDeviceType, DriverType DEF Next

-------------------------------------------------------------------------------
(* One device at a time.                                                                         *)

(* d is on its way, and no other.                                                                *)
Alone(d) == Way(d) /\ \A e \in Devices \ {d} : Quiet(e)

(* What the invariants say of a step when openings do not overlap.                               *)
Before == TypeInv /\ RegisterInv /\ ~overlap /\ Live

(* A device the step is not about.                                                               *)
Same(e) ==
    /\ pc'[e] = pc[e] /\ answered'[e] = answered[e] /\ listeners'[e] = listeners[e]
    /\ heard'[e]["service"] = heard[e]["service"]

(* The way of d goes on, the others are quiet as before.                                         *)
LEMMA StillAlone ==
    ASSUME NEW d \in Devices, \A e \in Devices \ {d} : Quiet(e) /\ Same(e), Way(d)'
    PROVE  AloneInv'
BY DEF Quiet, Same, AloneInv

(* Nothing runs, still.                                                                          *)
LEMMA StillEase ==
    ASSUME \A e \in Devices : Quiet(e) /\ Same(e), AtEase'
    PROVE  AloneInv'
BY DEF Quiet, Same, AloneInv

(* Where the main thread is on the way of a device, and where the device's own.                  *)
LEMMA WayPlaces ==
    ASSUME NEW d \in Devices, Way(d)
    PROVE  /\ pc[Main] # "idle" => pc[d] = "none" /\ (Coming(d) \/ Queued(d) \/ Launched(d))
           /\ pc[d] # "none" => pc[Main] = "idle" /\ (Running(d) \/ Ending(d))
BY DEF Way, Coming, Queued, Launched, Running, Ending, Asked, Opened

(* A step of the main thread inside startWithDevice.                                             *)
LEMMA MainPlaces ==
    ASSUME AloneInv, pc[Main] # "idle"
    PROVE  \E d \in Devices : Alone(d) /\ (Coming(d) \/ Queued(d) \/ Launched(d))
BY WayPlaces DEF AloneInv, AtEase, Alone

(* A step of the thread of a device.                                                             *)
LEMMA DriverPlacesOf ==
    ASSUME AloneInv, NEW d \in Devices, pc[d] \notin {"none", "done"}
    PROVE  Alone(d) /\ (Running(d) \/ Ending(d))
<1>1. ~Quiet(d)
    BY DEF Quiet
<1>2. PICK e \in Devices : Way(e) /\ \A f \in Devices \ {e} : Quiet(f)
    BY <1>1 DEF AloneInv
<1>3. e = d
    BY <1>1, <1>2
<1> QED
    BY <1>2, <1>3, WayPlaces DEF Alone

(* The service listens behind the activity.                                                      *)
LEMMA TwoEars == ASSUME NEW a, NEW b PROVE Append(<<a>>, b) = <<a, b>>
<1> DEFINE s == Append(<<a>>, b)  t == <<a, b>>
<1>1. <<a>> \in Seq({a, b}) /\ Len(<<a>>) = 1 /\ <<a>>[1] = a
    OBVIOUS
<1>2. s \in Seq({a, b}) /\ Len(s) = 2 /\ s[1] = a /\ s[2] = b
    BY <1>1, AppendProperties
<1>3. t \in Seq({a, b}) /\ Len(t) = 2 /\ t[1] = a /\ t[2] = b
    OBVIOUS
<1> HIDE DEF s, t
<1>4. \A i \in 1..Len(s) : s[i] = t[i]
    BY <1>2, <1>3
<1>5. s = t
    BY <1>2, <1>3, <1>4, SeqEqual
<1> QED
    BY <1>5 DEF s, t

(* A step of the main thread leaves the devices alone.                                           *)
LEMMA MainSame ==
    ASSUME TypeInv, NEW place, Goto(Main, place), UNCHANGED <<answered, listeners, heard>>
    PROVE  pc'[Main] = place /\ \A e \in Devices : Same(e)
BY DEF Same, Goto, TypeInv, Threads

(* startWithDevice on the main thread: the queue is read,                                        *)
LEMMA PollMain == ASSUME Before, AloneInv, Poll(Main) PROVE AloneInv'
<1>1. pc[Main] = "poll" /\ Main \in Threads
    BY DEF Poll, Threads
<1>2. PICK d \in Devices : Alone(d) /\ (Coming(d) \/ Queued(d) \/ Launched(d))
    BY <1>1, MainPlaces
<1>3. UNCHANGED <<answered, listeners, heard>> /\ \E p \in {"run", "stop"} : Goto(Main, p)
    BY DEF Poll, device
<1>4. \A e \in Devices : Same(e)
    BY <1>3, MainSame DEF Before
<1>5. Way(d)'
    <2>1. CASE Coming(d)
        <3>1. Goto(Main, "stop") /\ UNCHANGED <<workQueue, thisDev, mainq, held, isRunning,
            resumed>>
            BY <2>1 DEF Poll, Coming, screen
        <3>2. pc'[Main] = "stop"
            BY <1>3, <3>1, MainSame DEF Before
        <3>3. Coming(d)'
            BY <1>1, <1>4, <2>1, <3>1, <3>2 DEF Coming, Asked, Stopped, Registering, Posted, Same
        <3> QED
            BY <3>3 DEF Way
    <2>2. CASE Queued(d)
        <3>1. workQueue = <<d>> /\ Head(workQueue) = d /\ Tail(workQueue) = <<>> /\ workQueue # <<>>
            BY <2>2 DEF Queued
        <3>2. /\ Goto(Main, "run") /\ workQueue' = <<>> /\ thisDev' = d
              /\ UNCHANGED <<mainq, held, isRunning, resumed, callback, toggle>>
            BY <3>1 DEF Poll, screen
        <3>3. pc'[Main] = "run"
            BY <1>3, <3>2, MainSame DEF Before
        <3>4. Launched(d)'
            BY <1>1, <1>4, <2>2, <3>2, <3>3
               DEF Launched, Queued, Asked, Stopped, Registering, Posted, Same, Shows, Listens
        <3> QED
            BY <3>4 DEF Way
    <2>3. CASE Launched(d)
        BY <1>1, <2>3 DEF Launched
    <2> QED
        BY <1>2, <2>1, <2>2, <2>3
<1> QED
    BY <1>2, <1>4, <1>5, StillAlone DEF Alone

(* the callbacks are told that the service runs or stops,                                        *)
LEMMA AnnounceMain == ASSUME Before, AloneInv, Announce(Main) PROVE AloneInv'
<1>1. pc[Main] \in {"stop", "tellstop", "run", "tellrun"} /\ Main \in Threads
    BY DEF Announce, Threads
<1>2. PICK d \in Devices : Alone(d) /\ (Coming(d) \/ Queued(d) \/ Launched(d))
    BY <1>1, MainPlaces
<1>3. UNCHANGED <<answered, listeners, heard, thisDev, workQueue, callback, held, resumed>>
    BY DEF Announce
<1>4. pc[Main] = "run" => thisDev \in Devices /\ thisDev # None
    BY <1>1, <1>2 DEF Coming, Queued, Launched
<1>5. UNCHANGED mainq
    BY <1>4 DEF Announce
<1>6. CASE pc[Main] = "stop"
    <2>1. Goto(Main, "tellstop") /\ isRunning' = FALSE
        <3> DEFINE on == pc[Main] \in {"run", "tellrun"}
        <3>1. on = FALSE
            BY <1>6
        <3>2. Goto(Main, "tellstop") /\ isRunning' = on
            BY <1>6 DEF Announce, AnnounceOrder
        <3> HIDE DEF on
        <3> QED
            BY <3>1, <3>2
    <2>2. pc'[Main] = "tellstop" /\ \A e \in Devices : Same(e)
        BY <1>3, <2>1, MainSame DEF Before
    <2>3. Coming(d)
        BY <1>2, <1>6 DEF Queued, Launched
    <2>4. Coming(d)'
        BY <1>3, <1>5, <1>6, <2>1, <2>2, <2>3 DEF Coming, Asked, Stopped, Registering, Posted, Same
    <2> QED
        BY <1>2, <2>2, <2>4, StillAlone DEF Alone, Way
<1>7. CASE pc[Main] = "tellstop"
    <2>1. Goto(Main, "clear") /\ UNCHANGED isRunning
        BY <1>7 DEF Announce, AnnounceOrder
    <2>2. pc'[Main] = "clear" /\ \A e \in Devices : Same(e)
        BY <1>3, <2>1, MainSame DEF Before
    <2>3. Coming(d)
        BY <1>2, <1>7 DEF Queued, Launched
    <2>4. Coming(d)'
        BY <1>3, <1>5, <1>7, <2>1, <2>2, <2>3 DEF Coming, Asked, Stopped, Registering, Posted, Same
    <2> QED
        BY <1>2, <2>2, <2>4, StillAlone DEF Alone, Way
<1>8. CASE pc[Main] = "run"
    <2>1. Goto(Main, "tellrun") /\ isRunning' = TRUE /\ UNCHANGED toggle
        BY <1>4, <1>8 DEF Announce, AnnounceOrder
    <2>2. pc'[Main] = "tellrun" /\ \A e \in Devices : Same(e)
        BY <1>3, <2>1, MainSame DEF Before
    <2>3. Launched(d)
        BY <1>2, <1>8 DEF Queued, Coming
    <2>4. Launched(d)'
        BY <1>3, <1>5, <1>8, <2>1, <2>2, <2>3
           DEF Launched, Asked, Registering, Posted, Same, Listens, Shows
    <2> QED
        BY <1>2, <2>2, <2>4, StillAlone DEF Alone, Way
<1>9. CASE pc[Main] = "tellrun"
    <2>1. Goto(Main, "add") /\ UNCHANGED isRunning /\ toggle' = IF callback THEN TRUE ELSE toggle
        BY <1>9 DEF Announce, AnnounceOrder
    <2>2. pc'[Main] = "add" /\ \A e \in Devices : Same(e)
        BY <1>3, <2>1, MainSame DEF Before
    <2>3. Launched(d)
        BY <1>2, <1>9 DEF Queued, Coming
    <2>4. Shows(TRUE)'
        BY <1>3, <1>5, <2>1, <2>3 DEF Launched, Listens, Shows, Registering
    <2>5. Launched(d)'
        BY <1>3, <1>5, <1>9, <2>1, <2>2, <2>3, <2>4
           DEF Launched, Asked, Registering, Posted, Same, Listens
    <2> QED
        BY <1>2, <2>2, <2>5, StillAlone DEF Alone, Way
<1> QED
    BY <1>1, <1>6, <1>7, <1>8, <1>9

(* and the service listens to the device and starts its thread, or is stopped.                   *)
LEMMA RestMain ==
    ASSUME Before, AloneInv, Clear(Main) \/ Listen(Main) \/ OpenAsync(Main)
    PROVE AloneInv'
<1>1. pc[Main] \in {"clear", "add", "open"} /\ Main \in Threads
    BY DEF Clear, Listen, OpenAsync, Threads
<1>2. PICK d \in Devices : Alone(d) /\ (Coming(d) \/ Queued(d) \/ Launched(d))
    BY <1>1, MainPlaces
<1>3. CASE Clear(Main)
    <2>1. /\ pc[Main] = "clear" /\ Goto(Main, "idle")
          /\ UNCHANGED <<mainq, answered, listeners, heard, isRunning, thisDev, workQueue, held,
                         resumed>>
        BY <1>3 DEF Clear, Return, device, screen
    <2>2. pc'[Main] = "idle" /\ \A e \in Devices : Same(e)
        BY <2>1, MainSame DEF Before
    <2>3. Coming(d)
        BY <1>2, <2>1 DEF Queued, Launched
    <2>4. Coming(d)'
        BY <2>1, <2>2, <2>3 DEF Coming, Asked, Stopped, Registering, Posted, Same
    <2> QED
        BY <1>2, <2>2, <2>4, StillAlone DEF Alone, Way
<1>4. CASE Listen(Main)
    <2>1. pc[Main] = "add" /\ Launched(d)
        BY <1>2, <1>4 DEF Listen, Queued, Coming
    <2>2. thisDev = d /\ thisDev # None
        BY <2>1 DEF Launched
    <2>3. /\ listeners' = [listeners EXCEPT ![d] = Append(listeners[d], "service")]
          /\ Goto(Main, "open")
          /\ UNCHANGED <<mainq, answered, heard, isRunning, thisDev, workQueue, callback, held,
                         resumed, toggle>>
        BY <1>4, <2>2 DEF Listen, service, screen
    <2>4. pc'[Main] = "open" /\ \A e \in Devices : pc'[e] = pc[e]
        BY <2>3 DEF Before, TypeInv, Goto, Threads
    <2>5. \A e \in Devices \ {d} : Same(e)
        BY <2>3, <2>4 DEF Same, Before, TypeInv
    <2>6. listeners'[d] = <<"activity", "service">>
        <3>1. listeners[d] = <<"activity">>
            BY <2>1 DEF Launched
        <3>2. listeners'[d] = Append(listeners[d], "service")
            BY <2>3 DEF Before, TypeInv
        <3> QED
            BY <3>1, <3>2, TwoEars
    <2>7. Launched(d)'
        BY <2>1, <2>3, <2>4, <2>6 DEF Launched, Asked, Registering, Posted, Listens, Shows
    <2> QED
        BY <1>2, <2>5, <2>7, StillAlone DEF Alone, Way
<1>5. CASE OpenAsync(Main)
    <2>1. pc[Main] = "open" /\ Launched(d)
        BY <1>2, <1>5 DEF OpenAsync, Queued, Coming
    <2>2. thisDev = d /\ thisDev # None /\ pc[d] = "none" /\ d # Main
        BY <2>1 DEF Launched, Asked
    <2>3. /\ pc' = [pc EXCEPT ![d] = "obtain", ![Main] = "idle"]
          /\ UNCHANGED <<mainq, answered, heard, listeners, isRunning, thisDev, workQueue,
                         callback, held,
                         resumed, toggle>>
        BY <1>5, <2>2 DEF OpenAsync, service, screen
    <2>4. pc'[Main] = "idle" /\ pc'[d] = "obtain" /\ \A e \in Devices \ {d} : pc'[e] = pc[e]
        BY <2>2, <2>3 DEF Before, TypeInv, Threads
    <2>5. \A e \in Devices \ {d} : Same(e)
        BY <2>3, <2>4 DEF Same
    <2>6. Running(d)'
        BY <2>1, <2>3, <2>4 DEF Running, Launched, Asked, Registering, Posted, Shows, Opened
    <2> QED
        BY <1>2, <2>5, <2>6, StillAlone DEF Alone, Way
<1> QED
    BY <1>3, <1>4, <1>5

-------------------------------------------------------------------------------
(* The thread of a device.                                                                       *)

(* A step of d's thread leaves the others alone.                                                 *)
LEMMA DriverSame ==
    ASSUME TypeInv, NEW d \in Devices, NEW place, Goto(d, place),
           UNCHANGED <<answered, listeners, heard>>
    PROVE  pc'[d] = place /\ pc'[Main] = pc[Main] /\ \A e \in Devices \ {d} : Same(e)
BY DEF Same, Goto, TypeInv, Threads

(* It goes on, up to the listeners, and changes nothing else the main thread relies on.          *)
LEMMA GoesOn ==
    ASSUME Before, NEW d \in Devices, Alone(d), Running(d), pc[d] \in Opened,
           NEW place \in Opened \cup {"tell"}, Goto(d, place),
           UNCHANGED <<mainq, answered, listeners, heard, isRunning, thisDev, workQueue, callback,
                       wl, held, resumed, toggle>>
    PROVE  AloneInv'
<1>1. pc'[d] = place /\ pc'[Main] = pc[Main] /\ \A e \in Devices \ {d} : Same(e)
    BY DriverSame DEF Before
<1>2. heard[d]["service"] = 0 /\ listeners[d] = <<"activity", "service">>
    BY DEF Running, Opened
<1>3. Running(d)'
    BY <1>1, <1>2 DEF Running, Registering, Posted, Shows
<1> QED
    BY <1>1, <1>3, StillAlone DEF Alone, Way

(* openAsync of the device that runs, up to announceOnClosed, but for announceOnOpen.            *)
LEMMA DriverOpens ==
    ASSUME Before, AloneInv, NEW d \in Devices,
           Obtain(d) \/ Get(d) \/ Woken(d) \/ Opening(d) \/ Serving(d)
    PROVE  AloneInv'
<1>1. pc[d] \in {"obtain", "get", "woken", "opening", "serving"}
    BY DEF Obtain, Get, Woken, Opening, Serving
<1>2. Alone(d) /\ Running(d) /\ pc[d] \in Opened
    BY <1>1, DriverPlacesOf DEF Ending, Opened
<1>3. UNCHANGED <<mainq, answered, listeners, heard, isRunning, thisDev, workQueue, callback,
                  wl, held, resumed, toggle>>
    BY DEF Obtain, Get, Woken, Opening, Serving, device, permission, service, screen
<1>4. \E place \in Opened \cup {"tell"} : Goto(d, place)
    <2>1. ASSUME NEW result, WithResult(d, result) PROVE \E p \in {"opening", "tell"} : Goto(d, p)
        BY <2>1 DEF WithResult, CaughtPlace
    <2>2. \E p \in {"get", "wait", "opening", "announce", "tell"} : Goto(d, p)
        BY <2>1 DEF Obtain, Get, Woken, Opening, Serving, CaughtPlace
    <2> QED
        BY <2>2 DEF Opened
<1> QED
    BY <1>2, <1>3, <1>4, GoesOn

(* announceOnOpen: the wake lock that is acquired is of thisSdrDevice.                           *)
LEMMA DriverIsOpen ==
    ASSUME Before, AloneInv, NEW d \in Devices, AnnounceOnOpen(d) PROVE AloneInv'
<1>1. pc[d] = "announce"
    BY DEF AnnounceOnOpen
<1>2. Alone(d) /\ Running(d)
    BY <1>1, DriverPlacesOf DEF Ending
<1>3. /\ answered' = [answered EXCEPT ![d] = IF answered[d] = "awaited" THEN "open"
                                                          ELSE answered[d]]
      /\ Goto(d, "serving") /\ wl' = d /\ held' = held \cup {d}
      /\ UNCHANGED <<mainq, listeners, heard, isRunning, thisDev, workQueue, callback, resumed,
                     toggle>>
    BY DEF AnnounceOnOpen
<1>4. /\ answered'[d] = IF answered[d] = "awaited" THEN "open" ELSE answered[d]
      /\ \A e \in Devices \ {d} : answered'[e] = answered[e]
    BY <1>3 DEF Before, TypeInv
<1>5. pc'[d] = "serving" /\ pc'[Main] = pc[Main] /\ \A e \in Devices \ {d} : pc'[e] = pc[e]
    BY <1>3 DEF Before, TypeInv, Goto, Threads
<1>6. \A e \in Devices \ {d} : Same(e)
    BY <1>3, <1>4, <1>5 DEF Same
<1>7. answered'[d] # "none" /\ held' \subseteq {d}
    BY <1>2, <1>3, <1>4 DEF Running
<1>8. heard[d]["service"] = 0 /\ listeners[d] = <<"activity", "service">>
    BY <1>1, <1>2 DEF Running
<1>9. Running(d)'
    BY <1>2, <1>3, <1>5, <1>7, <1>8 DEF Running, Registering, Posted, Shows, Opened
<1> QED
    BY <1>2, <1>6, <1>9, StillAlone DEF Alone, Way

(* announceOnClosed: the activity first, then the service; then nothing runs.                    *)
LEMMA DriverTells ==
    ASSUME Before, AloneInv, NEW d \in Devices, AnnounceOnClosed(d) PROVE AloneInv'
<1>1. pc[d] = "tell" /\ d \in Threads /\ d # Main
    BY DEF AnnounceOnClosed, Threads
<1>2. Alone(d) /\ (Running(d) \/ Ending(d))
    BY <1>1, DriverPlacesOf
<1>3. UNCHANGED <<mainq, isRunning, thisDev, workQueue, callback, wl, held, resumed, toggle>>
    BY DEF AnnounceOnClosed, service
<1>4. CASE listeners[d] = <<>>
    <2>1. Ending(d)
        BY <1>1, <1>2, <1>4 DEF Running, Opened
    <2>2. Goto(d, "done") /\ UNCHANGED <<answered, listeners, heard>>
        BY <1>4 DEF AnnounceOnClosed
    <2>3. pc'[d] = "done" /\ pc'[Main] = pc[Main] /\ \A e \in Devices \ {d} : Same(e)
        BY <2>2, DriverSame DEF Before
    <2>4. Quiet(d)'
        BY <2>1, <2>2, <2>3 DEF Ending, Quiet
    <2>5. AtEase'
        BY <1>1, <1>3, <2>1, <2>3 DEF Ending, AtEase, Stopped, WillShowOff, Registering, Posted
    <2>6. \A e \in Devices : Quiet(e)'
        BY <1>2, <2>3, <2>4 DEF Alone, Quiet, Same
    <2> QED
        BY <2>5, <2>6 DEF AloneInv
<1>5. CASE listeners[d] # <<>>
    <2>1. Running(d)
        BY <1>2, <1>5 DEF Ending
    <2>2. heard[d]["service"] = 0 /\ listeners[d] \in {<<"activity", "service">>, <<"service">>}
        BY <1>1, <2>1 DEF Running, Opened
    <2>3. listeners' = [listeners EXCEPT ![d] = Tail(listeners[d])]
        BY <1>5 DEF AnnounceOnClosed, Polled
    <2>4. CASE listeners[d] = <<"activity", "service">>
        <3>1. Head(listeners[d]) = "activity" /\ Tail(listeners[d]) = <<"service">>
            BY <2>4
        <3>2. /\ heard' = [heard EXCEPT ![d]["activity"] = heard[d]["activity"] + 1]
              /\ \E a \in {answered[d], "closed"} : answered' = [answered EXCEPT ![d] = a]
              /\ UNCHANGED pc
            BY <1>5, <3>1 DEF AnnounceOnClosed
        <3>3. listeners'[d] = <<"service">> /\ heard'[d]["service"] = 0 /\ answered'[d] # "none"
            BY <2>1, <2>2, <2>3, <3>1, <3>2 DEF Before, TypeInv, Names, Running
        <3>4. \A e \in Devices \ {d} : Same(e)
            BY <2>3, <3>2 DEF Same, Before, TypeInv
        <3>5. Running(d)'
            BY <1>1, <1>3, <2>1, <3>2, <3>3 DEF Running, Registering, Posted, Shows
        <3> QED
            BY <1>2, <3>4, <3>5, StillAlone DEF Alone, Way
    <2>5. CASE listeners[d] = <<"service">>
        <3>1. Head(listeners[d]) = "service" /\ Tail(listeners[d]) = <<>>
            BY <2>5
        <3>2. /\ heard' = [heard EXCEPT ![d]["service"] = heard[d]["service"] + 1]
              /\ UNCHANGED answered
              /\ Goto(d, "onClosed")
            BY <1>5, <3>1 DEF AnnounceOnClosed
        <3>3. listeners'[d] = <<>> /\ heard'[d]["service"] = 1
            BY <2>2, <2>3, <3>1, <3>2 DEF Before, TypeInv, Names
        <3>4. pc'[d] = "onClosed" /\ pc'[Main] = pc[Main] /\ \A e \in Devices \ {d} : pc'[e] = pc[e]
            BY <3>2 DEF Before, TypeInv, Goto, Threads
        <3>5. \A e \in Devices \ {d} : Same(e)
            BY <2>3, <3>2, <3>4 DEF Same, Before, TypeInv
        <3>6. Running(d)'
            BY <1>1, <1>3, <2>1, <3>2, <3>3, <3>4 DEF Running, Registering, Posted, Shows
        <3> QED
            BY <1>2, <3>5, <3>6, StillAlone DEF Alone, Way
    <2> QED
        BY <2>2, <2>4, <2>5
<1> QED
    BY <1>4, <1>5

(* onClosed finds its device in thisSdrDevice, and releases its lock.                            *)
LEMMA DriverForgets ==
    ASSUME Before, AloneInv, NEW d \in Devices, NameOfClosed(d) \/ ForgetClosed(d) PROVE AloneInv'
<1>1. pc[d] \in {"onClosed", "forget"}
    BY DEF NameOfClosed, ForgetClosed
<1>2. Alone(d) /\ Running(d)
    BY <1>1, DriverPlacesOf DEF Ending
<1>3. heard[d]["service"] = 1 /\ listeners[d] = <<>> /\ thisDev = d /\ thisDev # None
    BY <1>1, <1>2 DEF Running, Opened
<1>4. UNCHANGED <<mainq, answered, listeners, heard, isRunning, workQueue, callback, wl, resumed,
    toggle>>
    BY DEF NameOfClosed, ForgetClosed, device, service, screen
<1>5. CASE NameOfClosed(d)
    <2>1. Goto(d, "forget") /\ UNCHANGED <<thisDev, held>>
        BY <1>3, <1>5 DEF NameOfClosed, service
    <2>2. pc'[d] = "forget" /\ pc'[Main] = pc[Main] /\ \A e \in Devices \ {d} : Same(e)
        BY <1>4, <2>1, DriverSame DEF Before
    <2>3. Running(d)'
        BY <1>2, <1>3, <1>4, <2>1, <2>2 DEF Running, Registering, Posted, Shows
    <2> QED
        BY <1>2, <2>2, <2>3, StillAlone DEF Alone, Way
<1>6. CASE ForgetClosed(d)
    <2>1. Goto(d, "poll") /\ thisDev' = None /\ held' = held \ {wl}
        BY <1>6 DEF ForgetClosed, Released
    <2>2. pc'[d] = "poll" /\ pc'[Main] = pc[Main] /\ \A e \in Devices \ {d} : Same(e)
        BY <1>4, <2>1, DriverSame DEF Before
    <2>3. held' = {}
        BY <1>2, <2>1 DEF Running
    <2>4. Ending(d)'
        BY <1>2, <1>3, <1>4, <2>1, <2>2, <2>3 DEF Running, Ending, Registering, Posted, Shows
    <2> QED
        BY <1>2, <2>2, <2>4, StillAlone DEF Alone, Way
<1> QED
    BY <1>5, <1>6

(* onClosed goes through startWithDevice: the queue is empty, the service stops.                 *)
LEMMA DriverStops ==
    ASSUME Before, AloneInv, NEW d \in Devices, StartWithDevice(d) PROVE AloneInv'
<1>1. pc[d] \in StartPlaces /\ d # Main
    BY DEF StartWithDevice, Poll, Announce, Clear, Listen, OpenAsync, StartPlaces
<1>2. Alone(d) /\ Ending(d) /\ pc[d] \in {"poll", "stop", "tellstop", "clear"}
    BY <1>1, DriverPlacesOf DEF Running, Ending, Opened, StartPlaces
<1>3. CASE pc[d] = "poll"
    <2>1. /\ Goto(d, "stop")
          /\ UNCHANGED <<mainq, answered, listeners, heard, isRunning, thisDev, workQueue, callback,
                         held, resumed, toggle>>
        BY <1>2, <1>3 DEF StartWithDevice, Poll, Announce, Clear, Listen, OpenAsync, Ending,
            device, screen
    <2>2. pc'[d] = "stop" /\ pc'[Main] = pc[Main] /\ \A e \in Devices \ {d} : Same(e)
        BY <2>1, DriverSame DEF Before
    <2>3. Ending(d)'
        BY <1>2, <1>3, <2>1, <2>2 DEF Ending, Registering, Posted, Shows
    <2> QED
        BY <1>2, <2>2, <2>3, StillAlone DEF Alone, Way
<1>4. CASE pc[d] = "stop"
    <2>0. Announce(d)
        BY <1>4 DEF StartWithDevice, Poll, Clear, Listen, OpenAsync
    <2>1. /\ Goto(d, "tellstop")
          /\ UNCHANGED <<mainq, answered, listeners, heard, thisDev, workQueue, callback, held,
                         resumed, toggle>>
        BY <1>4, <2>0 DEF Announce, AnnounceOrder
    <2>2. pc'[d] = "tellstop" /\ pc'[Main] = pc[Main] /\ \A e \in Devices \ {d} : Same(e)
        BY <2>1, DriverSame DEF Before
    <2>3. isRunning' = FALSE
        <3> DEFINE on == pc[d] \in {"run", "tellrun"}
        <3>1. on = FALSE
            BY <1>4
        <3>2. isRunning' = on
            BY <1>4, <2>0 DEF Announce, AnnounceOrder
        <3> HIDE DEF on
        <3> QED
            BY <3>1, <3>2
    <2>4. Ending(d)'
        BY <1>2, <1>4, <2>1, <2>2, <2>3 DEF Ending, Registering, Posted, Shows, Listens
    <2> QED
        BY <1>2, <2>2, <2>4, StillAlone DEF Alone, Way
<1>5. CASE pc[d] = "tellstop"
    <2>0. Announce(d)
        BY <1>5 DEF StartWithDevice, Poll, Clear, Listen, OpenAsync
    <2>1. /\ Goto(d, "clear")
          /\ UNCHANGED <<answered, listeners, heard, isRunning, thisDev, workQueue, callback, held,
                         resumed, toggle>>
        BY <1>1, <1>5, <2>0 DEF Announce, AnnounceOrder
    <2>2. pc'[d] = "clear" /\ pc'[Main] = pc[Main] /\ \A e \in Devices \ {d} : Same(e)
        BY <2>1, DriverSame DEF Before
    <2>3. mainq' = IF callback THEN Append(mainq, <<"toggle", FALSE>>) ELSE mainq
        <3> DEFINE on == pc[d] \in {"run", "tellrun"}
        <3>1. on = FALSE
            BY <1>5
        <3>2. mainq' = IF callback THEN Append(mainq, <<"toggle", on>>) ELSE mainq
            BY <1>1, <1>5, <2>0 DEF Announce, AnnounceOrder
        <3> HIDE DEF on
        <3> QED
            BY <3>1, <3>2
    <2>4. /\ ~isRunning /\ ~Posted /\ Listens /\ NoneAfter(mainq, 0)
        BY <1>2, <1>5 DEF Ending
    <2>5. PostsOff(mainq)
        BY <2>4 DEF PostsOff, Posted, Posts
    <2>6. NoneAfter(mainq, 0)' /\ PostsOff(mainq)' /\ WillShowOff'
        <3>1. CASE callback
            <4> DEFINE m == <<"toggle", FALSE>>
            <4>1. mainq \in Seq(Messages) /\ m \in Messages /\ mainq' = Append(mainq, m)
                  /\ m[1] = "toggle" /\ ~Starting(m) /\ m # <<"register">> /\ 0 \in Nat
                BY <2>3, <3>1, AreMessages DEF Before, TypeInv, Starting
            <4> HIDE DEF m
            <4>2. /\ Posts(mainq') /\ (NoneAfter(mainq, 0) => NoneAfter(mainq', 0))
                BY <4>1, AfterAdded
            <4>3. PostsOff(mainq')
                BY <2>5, <4>1, AfterAdded DEF m
            <4> QED
                BY <2>4, <4>2, <4>3 DEF WillShowOff, Posted
        <3>2. CASE ~callback
            BY <2>1, <2>3, <2>4, <2>5, <3>2 DEF Listens, WillShowOff, Registering
        <3> QED
            BY <3>1, <3>2
    <2>7. Ending(d)'
        BY <1>2, <1>5, <2>1, <2>2, <2>6 DEF Ending
    <2> QED
        BY <1>2, <2>2, <2>7, StillAlone DEF Alone, Way
<1>6. CASE pc[d] = "clear"
    <2>1. /\ Goto(d, "tell")
          /\ UNCHANGED <<mainq, answered, listeners, heard, isRunning, thisDev, workQueue, held,
                         resumed, toggle>>
        BY <1>1, <1>6 DEF StartWithDevice, Poll, Announce, Clear, Listen, OpenAsync, Return,
            device, screen
    <2>2. pc'[d] = "tell" /\ pc'[Main] = pc[Main] /\ \A e \in Devices \ {d} : Same(e)
        BY <2>1, DriverSame DEF Before
    <2>3. Ending(d)'
        BY <1>2, <1>6, <2>1, <2>2 DEF Ending, Registering, Posted, WillShowOff
    <2> QED
        BY <1>2, <2>2, <2>3, StillAlone DEF Alone, Way
<1> QED
    BY <1>2, <1>3, <1>4, <1>5, <1>6

-------------------------------------------------------------------------------
(* The main thread, between two devices' steps.                                                  *)

(* What a message or a user may do to the queue, and to what the button shows, without touching  *)
(* the way of a device.                                                                          *)
QueueKept ==
    /\ Posts(mainq') => Posts(mainq)
    /\ Posts(mainq) => Posts(mainq') \/ toggle' = FALSE
    /\ PostsOff(mainq) => PostsOff(mainq')
    /\ NoneAfter(mainq, 0) => NoneAfter(mainq', 0)
    /\ \A d \in Devices : /\ StartConnect(mainq, d) => StartConnect(mainq', d)
                          /\ Connect(mainq, d) => Connect(mainq', d)
    /\ StartComes(mainq) => StartComes(mainq')

(* The button goes on to show what it showed, or what the service does.                          *)
ScreenKept ==
    resumed' /\ ~Registering' =>
        \/ /\ callback' /\ toggle' = isRunning
           /\ \A d \in Devices : ~StartConnect(mainq, d) /\ ~Connect(mainq, d)
        \/ /\ resumed /\ ~Registering
           /\ callback' = callback /\ (toggle' = toggle \/ toggle' = isRunning)

(* Such a step leaves every part of AloneInv as it is.                                          *)
LEMMA Aside ==
    ASSUME Before, AloneInv, QueueKept, ScreenKept,
           pc'[Main] = pc[Main],
           \A e \in Devices : pc'[e] = pc[e] \/ (pc[e] = "wait" /\ pc'[e] = "woken"),
           UNCHANGED <<answered, listeners, heard, isRunning, thisDev, workQueue, wl, held>>
    PROVE  AloneInv'
<1>1. \A e \in Devices : Quiet(e) => Same(e)
    BY DEF Quiet, Same
<1>2. CASE AtEase /\ \A e \in Devices : Quiet(e)
    <2>1. WillShowOff'
        BY <1>2 DEF AtEase, Stopped, WillShowOff, QueueKept, ScreenKept, Posted
    <2>2. AtEase'
        BY <1>2, <2>1 DEF AtEase, Stopped, QueueKept
    <2> QED
        BY <1>1, <1>2, <2>2, StillEase
<1>3. ASSUME NEW d \in Devices, Way(d), \A e \in Devices \ {d} : Quiet(e) PROVE AloneInv'
    <2>1. CASE Coming(d)
        <3>1. pc'[d] = "none"
            BY <2>1 DEF Coming, Asked
        <3>2. resumed' => Registering'
            BY <2>1 DEF Coming, ScreenKept
        <3>3. Coming(d)'
            BY <2>1, <3>1, <3>2 DEF Coming, Asked, Stopped, QueueKept, Posted
        <3> QED
            BY <1>1, <1>3, <3>3, StillAlone DEF Way
    <2>2. CASE Queued(d)
        <3>1. pc'[d] = "none"
            BY <2>2 DEF Queued, Asked
        <3>2. Shows(FALSE)'
            BY <2>2 DEF Queued, Stopped, Shows, ScreenKept
        <3>3. Queued(d)'
            BY <2>2, <3>1, <3>2 DEF Queued, Asked, Stopped, QueueKept, Posted
        <3> QED
            BY <1>1, <1>3, <3>3, StillAlone DEF Way
    <2>3. CASE Launched(d)
        <3>1. pc'[d] = "none"
            BY <2>3 DEF Launched, Asked
        <3>2. Listens'
            BY <2>3 DEF Launched, Listens, ScreenKept
        <3>3. pc[Main] \in {"add", "open"} => Shows(TRUE)'
            BY <2>3 DEF Launched, Shows, ScreenKept
        <3>4. Launched(d)'
            BY <2>3, <3>1, <3>2, <3>3 DEF Launched, Asked, QueueKept, Posted
        <3> QED
            BY <1>1, <1>3, <3>4, StillAlone DEF Way
    <2>4. CASE Running(d)
        <3>1. pc'[d] = pc[d] \/ (pc[d] \in Opened /\ pc'[d] \in Opened)
            BY DEF Opened
        <3>2. Shows(TRUE)'
            BY <2>4 DEF Running, Shows, ScreenKept
        <3>3. ~Posted'
            BY <2>4 DEF Running, QueueKept, Posted
        <3>4. Running(d)'
            <4>1. \/ /\ pc[d] \in Opened
                     /\ heard[d]["service"] = 0 /\ listeners[d] = <<"activity", "service">>
                  \/ /\ pc[d] = "tell" /\ heard[d]["service"] = 0
                     /\ listeners[d] \in {<<"activity", "service">>, <<"service">>}
                  \/ /\ pc[d] \in {"onClosed", "forget"}
                     /\ heard[d]["service"] = 1 /\ listeners[d] = <<>>
                BY <2>4 DEF Running
            <4>2. \/ /\ pc'[d] \in Opened
                     /\ heard'[d]["service"] = 0 /\ listeners'[d] = <<"activity", "service">>
                  \/ /\ pc'[d] = "tell" /\ heard'[d]["service"] = 0
                     /\ listeners'[d] \in {<<"activity", "service">>, <<"service">>}
                  \/ /\ pc'[d] \in {"onClosed", "forget"}
                     /\ heard'[d]["service"] = 1 /\ listeners'[d] = <<>>
                BY <3>1, <4>1
            <4> QED
                BY <2>4, <3>2, <3>3, <4>2 DEF Running, QueueKept
        <3> QED
            BY <1>1, <1>3, <3>4, StillAlone DEF Way
    <2>5. CASE Ending(d)
        <3>1. pc'[d] = pc[d]
            BY <2>5 DEF Ending
        <3>2. Shows(TRUE) /\ isRunning => Shows(TRUE)'
            BY DEF Shows, ScreenKept
        <3>3. Listens => Listens'
            BY DEF Listens, ScreenKept
        <3>4. WillShowOff /\ ~isRunning => WillShowOff'
            BY DEF WillShowOff, ScreenKept, QueueKept, Posted
        <3>5. Ending(d)'
            BY <2>5, <3>1, <3>2, <3>3, <3>4 DEF Ending, QueueKept, Posted
        <3> QED
            BY <1>1, <1>3, <3>5, StillAlone DEF Way
    <2> QED
        BY <1>3, <2>1, <2>2, <2>3, <2>4, <2>5 DEF Way
<1> QED
    BY <1>2, <1>3 DEF AloneInv

(* A message that starts nothing is posted, or the button is told.                               *)
LEMMA PostedAside ==
    ASSUME Before, NEW m \in Messages, ~Starting(m), m[1] # "toggle", mainq' = Append(mainq, m)
    PROVE  /\ QueueKept
           /\ Registering' <=> Registering \/ m = <<"register">>
<1>1. mainq \in Seq(Messages) /\ 0 \in Nat
    BY DEF Before, TypeInv
<1>2. /\ Holds(mainq', <<"register">>) <=> Holds(mainq, <<"register">>) \/ m = <<"register">>
      /\ Posts(mainq') <=> Posts(mainq)
      /\ PostsOff(mainq) => PostsOff(mainq')
    BY <1>1, AfterAdded
<1>3. /\ NoneAfter(mainq, 0) => NoneAfter(mainq', 0)
      /\ StartComes(mainq) => StartComes(mainq')
    BY <1>1, AfterAdded
<1>4. \A d \in Devices : /\ StartConnect(mainq, d) => StartConnect(mainq', d)
                         /\ Connect(mainq, d) => Connect(mainq', d)
    BY <1>1, ConnectAdded
<1> QED
    BY <1>2, <1>3, <1>4 DEF QueueKept, Registering

(* What users do, short of opening a device, and what does nothing.                              *)
LEMMA UserKeeps ==
    ASSUME Before, AloneInv, Live',
           LeaveActivity \/ OnResume \/ OnPause \/ Click \/ (\E d \in Devices : Answer(d))
             \/ UNCHANGED vars
    PROVE  AloneInv'
<1>0. mainq \in Seq(Messages) /\ RegisterInv
    BY DEF Before, TypeInv
<1>1. ASSUME UNCHANGED mainq PROVE QueueKept /\ (Registering' <=> Registering)
    BY <1>1 DEF QueueKept, Registering
<1>2. CASE LeaveActivity \/ UNCHANGED vars
    <2>1. UNCHANGED <<mainq, pc, answered, listeners, heard, isRunning, thisDev, workQueue, wl,
        held,
                      callback, resumed, toggle>>
        BY <1>2 DEF LeaveActivity, vars, device, service, screen
    <2>2. ScreenKept
        BY <1>1, <2>1 DEF ScreenKept
    <2> QED
        BY <1>1, <2>1, <2>2, Aside
<1>3. CASE OnResume
    <2>1. /\ mainq' = Append(mainq, <<"register">>)
          /\ UNCHANGED <<pc, answered, listeners, heard, isRunning, thisDev, workQueue, wl, held>>
        BY <1>3 DEF OnResume, device, service
    <2>2. <<"register">> \in Messages /\ ~Starting(<<"register">>) /\ <<"register">>[1] # "toggle"
        BY AreMessages DEF Starting
    <2>3. QueueKept /\ Registering'
        BY <2>1, <2>2, PostedAside
    <2>4. ScreenKept
        BY <2>3 DEF ScreenKept
    <2> QED
        BY <2>1, <2>3, <2>4, Aside
<1>4. CASE OnPause
    <2>1. /\ mainq' = Unbound /\ resumed' = FALSE
          /\ UNCHANGED <<pc, answered, listeners, heard, isRunning, thisDev, workQueue, wl, held,
                         toggle>>
        BY <1>4 DEF OnPause, device, service
    <2>2. QueueKept
        <3>1. /\ Posts(mainq') <=> Posts(mainq)
              /\ PostsOff(mainq) => PostsOff(mainq')
              /\ NoneAfter(mainq, 0) => NoneAfter(mainq', 0)
              /\ \A d \in Devices : /\ StartConnect(mainq, d) => StartConnect(mainq', d)
                                    /\ Connect(mainq, d) => Connect(mainq', d)
              /\ StartComes(mainq) => StartComes(mainq')
            BY <1>0, <2>1, AfterUnbound DEF Posted
        <3> QED
            BY <3>1 DEF QueueKept
    <2>3. ScreenKept
        BY <2>1 DEF ScreenKept
    <2> QED
        BY <2>1, <2>2, <2>3, Aside
<1>5. CASE Click
    <2>1. /\ resumed /\ toggle' = isRunning
          /\ UNCHANGED <<mainq, pc, answered, listeners, heard, isRunning, thisDev, workQueue,
                         wl, held,
                         callback, resumed>>
        BY <1>5 DEF Click, service
    <2>2. ~Registering
        BY <1>0, <1>5 DEF Click, Registering, Holds
    <2>3. ScreenKept
        BY <1>1, <2>1, <2>2 DEF ScreenKept
    <2> QED
        BY <1>1, <2>1, <2>3, Aside
<1>6. ASSUME NEW d \in Devices, Answer(d) PROVE AloneInv'
    <2>1. PICK granted \in BOOLEAN : mainq' = Append(mainq, <<"permission", d, granted>>)
        BY <1>6 DEF Answer
    <2>2. UNCHANGED <<pc, answered, listeners, heard, isRunning, thisDev, workQueue, wl, held,
                      callback, resumed, toggle>>
        BY <1>6 DEF Answer, service, screen
    <2> DEFINE m == <<"permission", d, granted>>
    <2>3. m \in Messages /\ ~Starting(m) /\ m[1] # "toggle" /\ m # <<"register">>
        BY AreMessages DEF Starting
    <2> HIDE DEF m
    <2>4. QueueKept /\ (Registering' <=> Registering)
        BY <2>1, <2>3, PostedAside DEF m
    <2>5. ScreenKept
        BY <2>2, <2>4 DEF ScreenKept
    <2> QED
        BY <2>2, <2>4, <2>5, Aside
<1> QED
    BY <1>2, <1>3, <1>4, <1>5, <1>6

(* The handlers of the main thread.                                                              *)
LEMMA HandleKeeps == ASSUME Before, AloneInv, HandleMessage PROVE AloneInv'
<1> DEFINE m == Head(mainq)  q == Tail(mainq)
<1>1. mainq # <<>> /\ mainq \in Seq(Messages) /\ pc[Main] = "idle" /\ Main \in Threads
    BY DEF HandleMessage, Before, TypeInv, Threads
<1>2. m \in Messages /\ q \in Seq(Messages)
    BY <1>1, Taken
<1>3. /\ Holds(q, <<"register">>) => Registering
      /\ Registering /\ m # <<"register">> => Holds(q, <<"register">>)
      /\ Posts(q) => Posted
      /\ Posted /\ m[1] # "toggle" => Posts(q)
      /\ PostsOff(mainq) => PostsOff(q)
      /\ m[1] = "toggle" => Posted /\ (PostsOff(mainq) => m = <<"toggle", FALSE>>)
      /\ NoneAfter(mainq, 0) => NoneAfter(q, 0) /\ ~Starting(m)
      /\ \A d \in Devices : StartConnect(mainq, d) => m = <<"start">> /\ Connect(q, d)
      /\ \A d \in Devices : Connect(mainq, d) => m = <<"connected", d>> /\ NoneAfter(q, 0)
      /\ StartComes(mainq) => \/ ~Starting(m) /\ StartComes(q)
                              \/ m = <<"start">> /\ NoneAfter(q, 0)
    BY <1>1, AfterTaken DEF Registering, Posted
<1>4. Starting(m) <=> m[1] \in {"start", "connected"}
    BY DEF Starting
<1>5. /\ m[1] = "start" => m = <<"start">>
      /\ m[1] = "register" => m = <<"register">>
      /\ m[1] = "connected" => m[2] \in Devices /\ m = <<"connected", m[2]>>
      /\ m[1] = "toggle" => m[2] \in BOOLEAN /\ m = <<"toggle", m[2]>>
    BY <1>2, Kinds
<1>6. /\ <<"start">>[1] = "start" /\ <<"register">>[1] = "register"
      /\ \A d \in Devices : <<"connected", d>>[1] = "connected" /\ <<"connected", d>>[2] = d
      /\ <<"toggle", FALSE>>[2] = FALSE
    OBVIOUS
<1>7. \/ m[1] = "start" /\ OnStartCommand
      \/ m[1] = "connected" /\ OnServiceConnected(m[2])
      \/ m[1] = "register" /\ RegisterCallback
      \/ m[1] = "toggle" /\ SetChecked(m[2])
      \/ m[1] = "permission" /\ OnReceive(m[2], m[3])
    BY DEF HandleMessage
<1>8. \/ AtEase /\ \A d \in Devices : Quiet(d)
      \/ \E d \in Devices : Way(d) /\ \A e \in Devices \ {d} : Quiet(e)
    BY DEF AloneInv
<1> HIDE DEF m, q
<1>9. CASE m[1] = "start" /\ OnStartCommand
    <2>1. /\ mainq' = q /\ Goto(Main, "poll")
          /\ UNCHANGED <<answered, listeners, heard, isRunning, thisDev, workQueue, wl, held,
                         callback,
                         resumed, toggle>>
        BY <1>9 DEF OnStartCommand, device, service, screen, q
    <2>2. pc'[Main] = "poll" /\ \A e \in Devices : Same(e)
        BY <2>1, MainSame DEF Before
    <2>3. Starting(m)
        BY <1>4, <1>9
    <2>4. PICK d \in Devices : /\ Coming(d) \/ Queued(d)
                               /\ \A e \in Devices \ {d} : Quiet(e)
        BY <1>1, <1>3, <1>8, <2>3 DEF AtEase, Way, Launched, Running, Ending
    <2>5. m[1] # "connected"
        BY <1>9
    <2>6. CASE Coming(d)
        <3>1. Connect(q, d)
            BY <1>3, <1>6, <2>5, <2>6 DEF Coming
        <3>2. Coming(d)'
            BY <1>3, <1>6, <1>9, <2>1, <2>2, <2>6, <3>1
               DEF Coming, Asked, Stopped, Registering, Posted, Same
        <3> QED
            BY <2>2, <2>4, <3>2, StillAlone DEF Way
    <2>7. CASE Queued(d)
        <3>1. NoneAfter(q, 0)
            BY <1>1, <1>3, <2>3, <2>7 DEF Queued
        <3>2. Registering' <=> Registering
            BY <1>3, <1>6, <1>9, <2>1 DEF Registering
        <3>3. Queued(d)'
            BY <1>3, <2>1, <2>2, <2>7, <3>1, <3>2
               DEF Queued, Asked, Stopped, Shows, Posted, Same
        <3> QED
            BY <2>2, <2>4, <3>3, StillAlone DEF Way
    <2> QED
        BY <2>4, <2>6, <2>7
<1>10. CASE m[1] = "connected" /\ OnServiceConnected(m[2])
    <2>0. PICK d \in Devices : d = m[2]
        BY <1>5, <1>10
    <2>1. m = <<"connected", d>> /\ Starting(m) /\ m # <<"start">> /\ m # <<"register">>
        BY <1>4, <1>5, <1>6, <1>10, <2>0
    <2>2. PICK e \in Devices : Way(e) /\ \A f \in Devices \ {e} : Quiet(f)
        BY <1>3, <1>8, <2>1 DEF AtEase
    <2>3. Coming(e) /\ Connect(mainq, e)
        BY <1>1, <1>3, <2>1, <2>2 DEF Way, Coming, Queued, Launched, Running, Ending
    <2>4. e = d /\ NoneAfter(q, 0)
        <3>1. m = <<"connected", e>> /\ NoneAfter(q, 0)
            BY <1>3, <2>3
        <3> QED
            BY <1>6, <2>1, <3>1
    <2>5. ~isRunning /\ workQueue = <<>>
        BY <2>3 DEF Coming, Stopped
    <2>6. /\ workQueue' = <<d>> /\ mainq' = Append(q, <<"start">>)
          /\ UNCHANGED <<pc, answered, listeners, heard, isRunning, thisDev, wl, held, callback,
                         resumed, toggle>>
        BY <1>10, <2>0, <2>5 DEF OnServiceConnected, screen, q
    <2>7. <<"start">> \in Messages /\ <<"start">>[1] # "toggle" /\ <<"start">> # <<"register">>
        BY AreMessages
    <2>8. /\ Holds(mainq', <<"register">>) <=> Holds(q, <<"register">>)
          /\ Posts(mainq') <=> Posts(q)
          /\ StartComes(mainq')
        BY <1>2, <2>4, <2>6, <2>7, AfterAdded
    <2>9. Shows(FALSE)'
        BY <1>3, <2>1, <2>3, <2>6, <2>8 DEF Shows, Coming, Registering
    <2>10. Queued(d)'
        BY <1>1, <1>3, <2>3, <2>4, <2>6, <2>8, <2>9 DEF Queued, Coming, Asked, Stopped, Posted
    <2>11. \A f \in Devices \ {d} : Quiet(f) /\ Same(f)
        BY <2>2, <2>4, <2>6 DEF Same
    <2> QED
        BY <2>1, <2>10, <2>11, StillAlone DEF Way
(* The others are messages that start nothing.                                                   *)
<1>11. ASSUME ~Starting(m), mainq' = q, m[1] # "toggle" \/ toggle' = FALSE PROVE QueueKept
    <2>1. \A d \in Devices : ~StartConnect(mainq, d) /\ ~Connect(mainq, d)
        BY <1>3, <1>4, <1>6, <1>11
    <2>2. StartComes(mainq) => StartComes(q)
        BY <1>3, <1>4, <1>6, <1>11
    <2> QED
        BY <1>3, <1>11, <2>1, <2>2 DEF QueueKept, Posted
<1>12. CASE m[1] = "register" /\ RegisterCallback
    <2>1. /\ mainq' = q /\ callback' = TRUE /\ toggle' = isRunning
          /\ UNCHANGED <<pc, answered, listeners, heard, isRunning, thisDev, workQueue, wl, held,
                         resumed>>
        BY <1>12 DEF RegisterCallback, device, q
    <2>2. ~Starting(m)
        BY <1>4, <1>12
    <2>3. QueueKept
        BY <1>11, <1>12, <2>1, <2>2
    <2>4. ScreenKept
        BY <1>3, <1>4, <1>6, <2>1, <2>2 DEF ScreenKept
    <2> QED
        BY <2>1, <2>3, <2>4, Aside
<1>13. CASE m[1] = "toggle" /\ SetChecked(m[2])
    <2>1. /\ mainq' = q /\ toggle' = m[2]
          /\ UNCHANGED <<pc, answered, listeners, heard, isRunning, thisDev, workQueue, wl, held,
                         resumed,
                         callback>>
        BY <1>13 DEF SetChecked, device, service, q
    <2>2. ~Starting(m) /\ m # <<"register">>
        BY <1>4, <1>6, <1>13
    <2>3. PostsOff(mainq) /\ ~isRunning
        BY <1>3, <1>8, <1>13 DEF AtEase, Stopped, Way, Coming, Queued, Launched, Asked, Running,
            Ending
    <2>4. toggle' = FALSE /\ toggle' = isRunning
        <3>1. m = <<"toggle", FALSE>>
            BY <1>3, <1>13, <2>3
        <3>2. isRunning = FALSE
            BY <2>3 DEF Before, TypeInv
        <3> QED
            BY <1>6, <2>1, <3>1, <3>2
    <2>5. QueueKept
        BY <1>11, <2>1, <2>2, <2>4
    <2>6. ScreenKept
        BY <1>3, <2>1, <2>2, <2>4 DEF ScreenKept, Registering
    <2> QED
        BY <2>1, <2>5, <2>6, Aside
<1>14. CASE m[1] = "permission" /\ OnReceive(m[2], m[3])
    <2>1. /\ mainq' = q
          /\ UNCHANGED <<answered, listeners, heard, isRunning, thisDev, workQueue, wl, held,
                         resumed,
                         callback, toggle>>
        BY <1>14 DEF OnReceive, service, screen, q
    <2>2. ~Starting(m) /\ m # <<"register">>
        BY <1>4, <1>6, <1>14
    <2>3. /\ pc'[Main] = pc[Main]
          /\ \A e \in Devices : pc'[e] = pc[e] \/ (pc[e] = "wait" /\ pc'[e] = "woken")
        <3>1. PICK s : pc' = [t \in Threads |-> IF t \in s /\ pc[t] = "wait" THEN "woken"
                                                          ELSE pc[t]]
            BY <1>14 DEF OnReceive
        <3> QED
            BY <1>1, <3>1 DEF Threads
    <2>4. QueueKept
        BY <1>11, <1>14, <2>1, <2>2
    <2>5. ScreenKept
        BY <1>3, <2>1, <2>2 DEF ScreenKept, Registering
    <2> QED
        BY <2>1, <2>3, <2>4, <2>5, Aside
<1> QED
    BY <1>7, <1>9, <1>10, <1>12, <1>13, <1>14

(* A device is opened when nothing runs.                                                         *)
LEMMA StartKeeps == ASSUME Before, AloneInv, NEW d \in Devices, StartServer(d) PROVE AloneInv'
<1>1. /\ mainq = <<>> /\ workQueue = <<>> /\ pc[Main] = "idle"
      /\ \A e \in Devices : pc[e] \in {"none", "done"}
      /\ answered[d] = "none"
    BY DEF StartServer, Before, Idle, AtRest
<1>2. ~(Len(mainq) >= 1) /\ ~(Len(mainq) >= 2)
    BY <1>1
<1>3. AtEase /\ \A e \in Devices : Quiet(e)
    BY <1>1, <1>2 DEF AloneInv, Way, Coming, Queued, Launched, Running, Ending, StartConnect,
        Connect, Opened
<1>4. pc[d] = "none" /\ listeners[d] = <<>> /\ heard[d]["service"] = 0
    BY <1>1, <1>3 DEF Quiet
<1> DEFINE two == << <<"start">>, <<"connected", d>> >>
<1>5. mainq' = two
    <2>1. Unbound = <<>>
        BY <1>1 DEF Unbound
    <2>2. mainq' = <<>> \o two
        BY <2>1 DEF StartServer
    <2>3. two \in Seq(Messages)
        BY AreMessages
    <2> HIDE DEF two
    <2>4. <<>> \o two = two
        BY <2>3, ConcatEmptySeq
    <2> QED
        BY <2>2, <2>4
<1>6. StartConnect(two, d) /\ ~Posts(two)
    <2>1. Len(two) = 2 /\ DOMAIN two = 1..2 /\ two[1] = <<"start">> /\ two[2] = <<"connected", d>>
        OBVIOUS
    <2> HIDE DEF two
    <2>2. NoneAfter(two, 2)
        BY <2>1 DEF NoneAfter
    <2>3. ~Posts(two)
        <3>1. \A i \in DOMAIN two : i = 1 \/ i = 2
            BY <2>1
        <3> QED
            BY <2>1, <3>1 DEF Posts
    <2> QED
        BY <2>1, <2>2, <2>3 DEF StartConnect
<1> HIDE DEF two
<1>7. /\ answered' = [answered EXCEPT ![d] = "awaited"]
      /\ listeners' = [listeners EXCEPT ![d] = Append(listeners[d], "activity")]
      /\ resumed' = FALSE
      /\ UNCHANGED <<pc, heard, isRunning, thisDev, workQueue, held>>
    BY DEF StartServer, service
<1>8. \A e \in Devices \ {d} : Same(e)
    BY <1>7 DEF Same, Before, TypeInv
<1>9. listeners'[d] = <<"activity">> /\ answered'[d] = "awaited"
    <2>1. Append(<<>>, "activity") = <<"activity">>
        OBVIOUS
    <2> QED
        BY <1>4, <1>7, <2>1 DEF Before, TypeInv
<1>10. StartConnect(mainq', d) /\ ~Posts(mainq')
    BY <1>5, <1>6
<1>11. Coming(d)'
    BY <1>1, <1>3, <1>4, <1>7, <1>9, <1>10 DEF Coming, Asked, AtEase, Stopped, Posted
<1> QED
    BY <1>3, <1>8, <1>11, StillAlone DEF Way

(* Every step keeps AloneInv when openings do not overlap and the process goes on.               *)
LEMMA AloneStep ==
    ASSUME Before, AloneInv, Live', [Next]_vars
    PROVE  AloneInv'
<1>1. CASE HandleMessage
    BY <1>1, HandleKeeps
<1>2. CASE StartWithDevice(Main)
    BY <1>2, PollMain, AnnounceMain, RestMain DEF StartWithDevice
<1>3. ASSUME NEW d \in Devices, Driver(d) \/ Serving(d) PROVE AloneInv'
    BY <1>3, DriverOpens, DriverIsOpen, DriverTells, DriverForgets, DriverStops DEF Driver
<1>4. ASSUME NEW d \in Devices, StartServer(d) PROVE AloneInv'
    BY <1>4, StartKeeps
<1>5. CASE LeaveActivity \/ OnResume \/ OnPause \/ Click \/ \E d \in Devices : Answer(d)
    BY <1>5, UserKeeps
<1>6. CASE Rest \/ UNCHANGED vars
    <2>1. UNCHANGED vars
        BY <1>6 DEF Rest
    <2> QED
        BY <2>1, UserKeeps
<1> QED
    BY <1>1, <1>2, <1>3, <1>4, <1>5, <1>6 DEF Next

(* How many ends the service hears.                                                              *)
ServiceOnce == \A d \in Devices : heard[d]["service"] <= 1

(* AloneInv says so.                                                                            *)
LEMMA AloneHeard == AloneInv => ServiceOnce
<1> SUFFICES ASSUME AloneInv, NEW d \in Devices PROVE heard[d]["service"] <= 1
    BY DEF ServiceOnce
<1>1. ASSUME NEW e \in Devices, Way(e) PROVE heard[e]["service"] = 0 \/ heard[e]["service"] = 1
    BY <1>1 DEF Way, Coming, Queued, Launched, Asked, Running, Ending
<1>2. 0 <= 1 /\ 1 <= 1
    OBVIOUS
<1>3. CASE Quiet(d)
    BY <1>3 DEF Quiet
<1> QED
    BY <1>1, <1>2, <1>3 DEF AloneInv

(* The same of the state after a step.                                                           *)
LEMMA AloneHeardNext == AloneInv' => ServiceOnce'
BY AloneHeard, PTL

(* The choice is never changed, and a step that ends the process tells nobody.                   *)
LEMMA EndTellsNobody ==
    ASSUME [Next]_vars
    PROVE  /\ UNCHANGED overlap
           /\ ~Live \/ ~Live' => UNCHANGED heard
           /\ ~Live => ~Live'
<1>1. CASE HandleMessage
    BY <1>1 DEF HandleMessage, OnStartCommand, OnServiceConnected, RegisterCallback, SetChecked,
        OnReceive,
        device
<1>2. ASSUME NEW t, StartWithDevice(t) PROVE UNCHANGED <<overlap, heard>> /\ Live
    BY <1>2 DEF StartWithDevice, Poll, Announce, Clear, Listen, OpenAsync, device
<1>3. ASSUME NEW d, AnnounceOnClosed(d) PROVE UNCHANGED <<overlap, ended>> /\ Live
    BY <1>3 DEF AnnounceOnClosed
<1>4. ASSUME NEW d, Driver(d) \/ Serving(d), ~AnnounceOnClosed(d)
      PROVE UNCHANGED <<overlap, heard>> /\ Live
    BY <1>2, <1>4 DEF Driver, Serving, Obtain, Get, Woken, Opening, AnnounceOnOpen, NameOfClosed,
        ForgetClosed,
        device
<1>5. CASE \/ \E d \in Devices : StartServer(d) \/ Answer(d)
           \/ LeaveActivity \/ OnResume \/ OnPause \/ Click
    <2>1. UNCHANGED <<overlap, heard>> /\ Live
        BY <1>5 DEF StartServer, Answer, LeaveActivity, OnResume, OnPause, Click, device
    <2> QED
        BY <2>1
<1>6. CASE Rest \/ UNCHANGED vars
    BY <1>6 DEF Rest, vars, device, Live
<1>7. CASE \E d \in Devices : Driver(d) \/ Serving(d)
    <2>1. PICK d \in Devices : Driver(d) \/ Serving(d)
        BY <1>7
    <2>2. CASE AnnounceOnClosed(d)
        BY <1>3, <2>2 DEF Live
    <2>3. CASE ~AnnounceOnClosed(d)
        BY <1>4, <2>1, <2>3
    <2> QED
        BY <2>2, <2>3
<1>8. CASE StartWithDevice(Main)
    BY <1>2, <1>8
<1>9. CASE HandleMessage
    BY <1>1, <1>9 DEF HandleMessage
<1> QED
    BY <1>1, <1>5, <1>6, <1>7, <1>8 DEF Next

(* Every step keeps RInv.                                                                        *)
LEMMA StepR == RInv /\ [Next]_vars => RInv'
<1> SUFFICES ASSUME RInv, [Next]_vars PROVE RInv'
    OBVIOUS
<1>1. TypeInv /\ ActivityInv /\ RegisterInv
    BY DEF RInv
<1>2. TypeInv' /\ ActivityInv' /\ RegisterInv'
    BY <1>1, TypeStep, ActivityStep, RegisterStep
<1>3. UNCHANGED overlap /\ (~Live => ~Live')
    BY EndTellsNobody
<1>4. ASSUME ~overlap', Live' PROVE AloneInv'
    <2>1. Before /\ AloneInv
        BY <1>1, <1>3, <1>4 DEF RInv, Before
    <2> QED
        BY <1>4, <2>1, AloneStep
<1>5. ASSUME ~overlap', NEW d \in Devices PROVE heard'[d]["service"] <= 1
    <2>1. CASE Live'
        <3>1. AloneInv'
            BY <1>4, <1>5, <2>1
        <3> QED
            BY <3>1, AloneHeardNext DEF ServiceOnce
    <2>2. CASE ~Live'
        BY <1>3, <1>5, <2>2, EndTellsNobody DEF RInv
    <2> QED
        BY <2>1, <2>2
<1> QED
    BY <1>2, <1>4, <1>5 DEF RInv

(* TypeInv, ActivityInv, RegisterInv and AloneInv hold: openings that do not overlap work one    *)
(* after the other.                                                                              *)
THEOREM ServiceInvariant == Spec => []RInv
BY InitR, StepR, PTL DEF Spec

(* The activity hears onClosed once, whatever overlaps, and the service once when nothing does:  *)
(* "Each listener can only hear OnClosed once" (SdrDevice.java:40).                              *)
THEOREM EachHearsOnce == Spec => []HeardOnce
<1>1. RInv => HeardOnce
    BY DEF RInv, HeardOnce, ActivityInv
<1> QED
    BY <1>1, ServiceInvariant, PTL

(* isRunning, thisSdrDevice and the wake lock are those of the device that serves.               *)
THEOREM AtRestAllAgree == Spec => []RestIsRest
<1>1. RInv => RestIsRest
    <2> SUFFICES ASSUME RInv, AtRest, Live, ~overlap
                 PROVE  LET serving == {d \in Devices : pc[d] = "serving"}
                        IN /\ serving = IF isRunning THEN {thisDev} ELSE {}
                           /\ ~isRunning => thisDev = None
                           /\ held \subseteq serving
        BY DEF RestIsRest
    <2>1. AloneInv
        BY DEF RInv
    <2>2. /\ mainq = <<>> /\ workQueue = <<>> /\ pc[Main] = "idle"
          /\ \A e \in Devices : pc[e] \in {"none", "serving", "done"}
        BY DEF AtRest
    <2>3. ~(Len(mainq) >= 1) /\ ~(Len(mainq) >= 2)
        BY <2>2
    <2>4. CASE AtEase /\ \A e \in Devices : Quiet(e)
        BY <2>4 DEF AtEase, Stopped, Quiet
    <2>5. ASSUME NEW d \in Devices, Way(d), \A e \in Devices \ {d} : Quiet(e)
          PROVE  Running(d) /\ pc[d] = "serving" /\ \A e \in Devices \ {d} : pc[e] # "serving"
        BY <2>2, <2>3, <2>5
           DEF Way, Coming, Queued, Launched, Running, Ending, StartConnect, Connect, Opened, Quiet
    <2>6. ASSUME NEW d \in Devices, Running(d), pc[d] = "serving",
                 \A e \in Devices \ {d} : pc[e] # "serving"
          PROVE  /\ {e \in Devices : pc[e] = "serving"} = {d}
                 /\ isRunning /\ thisDev = d /\ held \subseteq {d}
        BY <2>6 DEF Running
    <2> QED
        BY <2>1, <2>4, <2>5, <2>6 DEF AloneInv
<1> QED
    BY <1>1, ServiceInvariant, PTL

(* The button of a StreamActivity on the screen shows isRunning.                                 *)
THEOREM ButtonIsRight == Spec => []ToggleTrue
<1>1. RInv => ToggleTrue
    <2> SUFFICES ASSUME RInv, AtRest, Live, ~overlap, resumed
                 PROVE  toggle = isRunning
        BY DEF ToggleTrue
    <2>1. AloneInv /\ toggle \in BOOLEAN /\ isRunning \in BOOLEAN
        BY DEF RInv, TypeInv
    <2>2. /\ mainq = <<>> /\ workQueue = <<>> /\ pc[Main] = "idle"
          /\ \A e \in Devices : pc[e] \in {"none", "serving", "done"}
        BY DEF AtRest
    <2>3. ~(Len(mainq) >= 1) /\ ~(Len(mainq) >= 2) /\ ~Registering /\ ~Posted
        BY <2>2 DEF Registering, Holds, Posted, Posts
    <2>4. CASE AtEase
        BY <2>1, <2>3, <2>4 DEF AtEase, Stopped, WillShowOff
    <2>5. ASSUME NEW d \in Devices, Way(d) PROVE Running(d)
        BY <2>2, <2>3, <2>5
           DEF Way, Coming, Queued, Launched, Ending, StartConnect, Connect
    <2>6. ASSUME NEW d \in Devices, Running(d) PROVE toggle = isRunning
        BY <2>1, <2>3, <2>6 DEF Running, Shows
    <2> QED
        BY <2>1, <2>4, <2>5, <2>6 DEF AloneInv
<1> QED
    BY <1>1, ServiceInvariant, PTL
==============================================================================
