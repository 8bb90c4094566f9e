---------------------------- MODULE RunnerService ----------------------------
(* The Java side of the driver: BinaryRunnerService (app), which runs one SdrDevice after the   *)
(* other, the two activities that use it, the device objects with their driver threads, and     *)
(* the future in which a driver thread waits for the permission.                                *)
(*                                                                                              *)
(* Main is Android's main thread. It handles its messages in order (mainq): commands to the     *)
(* service, connections, answers of the permission dialog, posted changes of the toggle button. *)
(* The thread that openAsync starts for device d has the name d. startWithDevice runs on Main   *)
(* or, when a device has closed, on that device's thread: its places are shared, pc[t].         *)
(* A device object is opened once: each DeviceOpenActivity makes new ones.                      *)
EXTENDS Naturals, Sequences, SequencesExt

CONSTANTS Devices,      \* the SdrDevice objects
          None,
          Main,
          Overlaps,     \* \subseteq BOOLEAN: may a device be opened while another is at work?
          EarlyAnswer   \* may the permission be answered before the driver thread waits for it?

ASSUME DeviceAssumption == None \notin Devices /\ Main \notin Devices /\ Overlaps \subseteq BOOLEAN
                           /\ EarlyAnswer \in BOOLEAN

VARIABLES overlap,      \* the choice from Overlaps, constant
          mainq,        \* the messages of the main thread
          pc,           \* where a thread is
          caught,       \* the driver threads that are in the catch block of openAsync
          future,       \* the AsyncFuture of a device: "none", "pending", "conn", "null"
          receivers,    \* the devices whose permission receiver is registered
          asked,        \* the devices whose permission dialog is open
          listeners,    \* SdrDevice.listeners, in the order they were added
          heard,        \* how often each listener of a device has heard onClosed
          answered,     \* what the activity that opened the device has heard: "none" (it has not
                        \* been opened), "awaited", "open", "closed"
          lost,         \* the devices whose stop came after the server and before RUNNING
          stopping,     \* the devices whose stop was accepted
          isRunning, thisDev, workQueue, callback,   \* fields of the service; callback: is the
                        \* StreamActivity's in statusCallbacks?
          wl, held,     \* the field wl (the device it was acquired for) and the locks held
          activity,     \* the device of the DeviceOpenActivity on the screen, or None
          resumed, toggle,   \* StreamActivity: is it resumed, is the button on?
          ended         \* "no"; "crash": an exception nobody caught has ended the process;
                        \* "twice": a device was opened twice, which is not followed further

permission == <<future, receivers, asked>>
device == <<caught, permission, listeners, heard, answered, lost, stopping>>
service == <<isRunning, thisDev, workQueue, callback, wl, held>>
screen == <<activity, resumed, toggle>>
vars == <<overlap, mainq, pc, device, service, screen, ended>>

Threads == Devices \cup {Main}

Init ==
    /\ overlap \in Overlaps
    /\ mainq = <<>>
    /\ pc = [t \in Threads |-> IF t = Main THEN "idle" ELSE "none"]
    /\ caught = {} /\ future = [d \in Devices |-> "none"] /\ receivers = {} /\ asked = {}
    /\ listeners = [d \in Devices |-> <<>>]
    /\ heard = [d \in Devices |-> [l \in {"activity", "service"} |-> 0]]
    /\ answered = [d \in Devices |-> "none"]
    /\ lost = {} /\ stopping = {}
    /\ isRunning = FALSE /\ thisDev = None /\ workQueue = <<>> /\ callback = FALSE
    /\ wl = None /\ held = {}
    /\ activity = None /\ resumed = FALSE /\ toggle = FALSE
    /\ ended = "no"

Live == ended = "no"
Goto(t, place) == pc' = [pc EXCEPT ![t] = place]

(* A NullPointerException on thread t: the main thread and a catch block do not survive it.     *)
(* The try block of openAsync leads to the catch block, which announces the end again.          *)
NullPointer(t) ==
    IF t = Main \/ t \in caught
    THEN ended' = "crash" /\ UNCHANGED <<pc, caught>>
    ELSE caught' = caught \cup {t} /\ Goto(t, "tell") /\ UNCHANGED ended

(* Where no thread is on its way: openings that do not overlap begin here.                      *)
AtRest ==
    /\ mainq = <<>> /\ workQueue = <<>> /\ pc[Main] = "idle"
    /\ \A d \in Devices : pc[d] \in {"none", "serving", "done"}
Idle == AtRest /\ \A d \in Devices : pc[d] # "serving"

-------------------------------------------------------------------------------
(* startWithDevice, on thread t. The driver threads return to the loop of announceOnClosed.     *)
Return(t) == Goto(t, IF t = Main THEN "idle" ELSE "tell")

(* The queue is read under its lock; the device becomes thisSdrDevice.                          *)
Poll(t) ==
    /\ Live /\ pc[t] = "poll"
    /\ IF workQueue = <<>>
       THEN Goto(t, "stop") /\ UNCHANGED <<workQueue, thisDev>>
       ELSE /\ workQueue' = Tail(workQueue)
            /\ thisDev' = Head(workQueue)
            /\ Goto(t, "run")
    /\ UNCHANGED <<overlap, mainq, device, isRunning, callback, wl, held, screen, ended>>

(* A mutant of AnnounceOrder: the callbacks are told first, the field is written afterwards.    *)
TellFirst(place) == place \in {"tellstop", "run"}

(* The places at which isRunning is written, the others of the pair tell the callbacks.         *)
AnnounceOrder(place) == place \in {"stop", "run"}

(* announceRunning and announceNotRunning: isRunning is written without a lock, the callbacks   *)
(* are told under theirs. runOnUiThread runs at once on Main and posts from elsewhere.          *)
Announce(t) ==
    /\ Live
    /\ pc[t] \in {"stop", "tellstop", "run", "tellrun"}
    /\ LET on == pc[t] \in {"run", "tellrun"}
           next == CASE pc[t] = "stop" -> "tellstop" [] pc[t] = "tellstop" -> "clear"
                     [] pc[t] = "run" -> "tellrun" [] pc[t] = "tellrun" -> "add"
       IN IF pc[t] = "run" /\ thisDev = None
          THEN NullPointer(t) /\ UNCHANGED <<isRunning, toggle, mainq>>
          ELSE /\ Goto(t, next)
               /\ UNCHANGED <<caught, ended>>
               /\ IF AnnounceOrder(pc[t])
                  THEN isRunning' = on /\ UNCHANGED <<toggle, mainq>>
                  ELSE /\ UNCHANGED isRunning
                       /\ toggle' = IF callback /\ t = Main THEN on ELSE toggle
                       /\ mainq' = IF callback /\ t # Main THEN Append(mainq, <<"toggle", on>>)
                                                           ELSE mainq
    /\ UNCHANGED <<overlap, permission, listeners, heard, answered, lost, stopping,
                   thisDev, workQueue, callback, wl, held, activity, resumed>>

(* The queue was empty: the callbacks are forgotten (not under their lock), the service stops.  *)
Clear(t) ==
    /\ Live /\ pc[t] = "clear"
    /\ callback' = FALSE
    /\ Return(t)
    /\ UNCHANGED <<overlap, mainq, device, isRunning, thisDev, workQueue, wl, held, screen, ended>>

(* Where a driver thread is inside announceOnClosed, whose monitor keeps others from adding.    *)
Announcing ==
    {"onClosed", "forget", "poll", "stop", "tellstop", "clear", "run", "tellrun", "add", "open"}

(* The service listens to the device that is thisSdrDevice by now.                              *)
Listen(t) ==
    /\ Live /\ pc[t] = "add"
    /\ thisDev \in Devices \ {t} => pc[thisDev] \notin Announcing
    /\ IF thisDev = None
       THEN NullPointer(t) /\ UNCHANGED listeners
       ELSE /\ listeners' = [listeners EXCEPT ![thisDev] = Append(@, "service")]
            /\ Goto(t, "open")
            /\ UNCHANGED <<caught, ended>>
    /\ UNCHANGED <<overlap, mainq, permission, heard, answered, lost, stopping, service,
                   screen>>

(* openAsync starts the thread of the device.                                                   *)
OpenAsync(t) ==
    /\ Live /\ pc[t] = "open"
    /\ IF thisDev = None
       THEN NullPointer(t)
       ELSE IF pc[thisDev] # "none"
       THEN ended' = "twice" /\ UNCHANGED <<pc, caught>>
       ELSE /\ pc' = [pc EXCEPT ![thisDev] = "obtain", ![t] = IF t = Main THEN "idle" ELSE "tell"]
            /\ UNCHANGED <<caught, ended>>
    /\ UNCHANGED <<overlap, mainq, permission, listeners, heard, answered, lost, stopping,
                   service, screen>>

StartWithDevice(t) == Poll(t) \/ Announce(t) \/ Clear(t) \/ Listen(t) \/ OpenAsync(t)

-------------------------------------------------------------------------------
(* The driver thread of device d: MsiSdrDevice.openAsync.                                       *)

(* A mutant of CaughtPlace: the catch block does not announce the end.                          *)
EndsSilently == "done"

(* Where an exception leads to: announceOnClosed(e) in the catch block.                         *)
CaughtPlace == "tell"

(* A connection leads to the native openAsync, none to an exception.                            *)
WithResult(d, result) ==
    /\ Goto(d, IF result = "conn" THEN "opening" ELSE CaughtPlace)
    /\ caught' = IF result = "conn" THEN caught ELSE caught \cup {d}

(* obtainFdFor: the device may be used already (openDevice may return null), or the receiver is *)
(* registered and the user asked.                                                               *)
Obtain(d) ==
    /\ Live /\ pc[d] = "obtain"
    /\ \/ /\ \E result \in {"conn", "null"} : WithResult(d, result)
          /\ UNCHANGED permission
       \/ /\ future' = [future EXCEPT ![d] = "pending"]
          /\ receivers' = receivers \cup {d}
          /\ asked' = asked \cup {d}
          /\ Goto(d, "get")
          /\ UNCHANGED caught
    /\ UNCHANGED <<overlap, mainq, listeners, heard, answered, lost, stopping, service, screen,
                   ended>>

(* AsyncFuture.get waits, whether the result is there or not.                                   *)
Get(d) ==
    /\ Live /\ pc[d] = "get"
    /\ Goto(d, "wait")
    /\ UNCHANGED <<overlap, mainq, device, service, screen, ended>>

(* The waiting thread has been notified and returns the result.                                 *)
Woken(d) ==
    /\ Live /\ pc[d] = "woken"
    /\ WithResult(d, future[d])
    /\ UNCHANGED <<overlap, mainq, permission, listeners, heard, answered, lost, stopping,
                   service, screen, ended>>

(* The native openAsync up to the start of the server: it returns FALSE or throws, or the       *)
(* server serves, announceOnOpen follows.                                                       *)
Opening(d) ==
    /\ Live /\ pc[d] = "opening"
    /\ \/ Goto(d, "announce") /\ UNCHANGED caught
       \/ Goto(d, "tell") /\ UNCHANGED caught
       \/ Goto(d, CaughtPlace) /\ caught' = caught \cup {d}
    /\ UNCHANGED <<overlap, mainq, permission, listeners, heard, answered, lost, stopping,
                   service, screen, ended>>

(* announceOnOpen: the activity gives its result and finishes, the service acquires a lock.     *)
AnnounceOnOpen(d) ==
    /\ Live /\ pc[d] = "announce"
    /\ answered' = [answered EXCEPT ![d] = IF @ = "awaited" THEN "open" ELSE @]
    /\ activity' = IF activity = d THEN None ELSE activity
    /\ wl' = d
    /\ held' = held \cup {d}
    /\ Goto(d, "serving")
    /\ UNCHANGED <<overlap, mainq, caught, permission, listeners, heard, lost, stopping,
                   isRunning, thisDev, workQueue, callback, resumed, toggle, ended>>

(* msisdr_read_async returns: after a stop, a failure or an unplug; then the server is stopped. *)
Serving(d) ==
    /\ Live /\ pc[d] = "serving"
    /\ Goto(d, "tell")
    /\ UNCHANGED <<overlap, mainq, device, service, screen, ended>>

(* A mutant of Polled: the listener is taken off the list when it has returned.                 *)
Peeked(d) == listeners

(* announceOnClosed takes the listener off the list before it calls it.                         *)
Polled(d) == [listeners EXCEPT ![d] = Tail(@)]

(* announceOnClosed: the next listener. The activity gives its result and finishes; the service *)
(* goes through its onClosed.                                                                   *)
AnnounceOnClosed(d) ==
    /\ Live /\ pc[d] = "tell"
    /\ IF listeners[d] = <<>>
       THEN Goto(d, "done") /\ UNCHANGED <<listeners, heard, answered, activity>>
       ELSE LET l == Head(listeners[d])
            IN /\ listeners' = Polled(d)
               /\ heard' = [heard EXCEPT ![d][l] = @ + 1]
               /\ IF l = "activity"
                  THEN /\ answered' = [answered EXCEPT ![d] = IF @ = "awaited" THEN "closed" ELSE @]
                       /\ activity' = IF activity = d THEN None ELSE activity
                       /\ UNCHANGED pc
                  ELSE Goto(d, "onClosed") /\ UNCHANGED <<answered, activity>>
    /\ UNCHANGED <<overlap, mainq, caught, permission, lost, stopping, service, resumed,
                   toggle, ended>>

(* BinaryRunnerService.onClosed asks thisSdrDevice, which need not be d, for its name.          *)
NameOfClosed(d) ==
    /\ Live /\ pc[d] = "onClosed"
    /\ IF thisDev = None
       THEN NullPointer(d)
       ELSE Goto(d, "forget") /\ UNCHANGED <<caught, ended>>
    /\ UNCHANGED <<overlap, mainq, permission, listeners, heard, answered, lost, stopping,
                   service, screen>>

(* A mutant of Released: wl is set to null before it is released.                               *)
LockKept(d) == held

(* wl is released; that it may have been released before is an exception that is ignored.       *)
Released(d) == held \ {wl}

(* The rest of onClosed: thisSdrDevice = null, the lock, and the next device of the queue.      *)
ForgetClosed(d) ==
    /\ Live /\ pc[d] = "forget"
    /\ thisDev' = None
    /\ held' = Released(d)
    /\ Goto(d, "poll")
    /\ UNCHANGED <<overlap, mainq, device, isRunning, workQueue, callback, wl, screen, ended>>

Driver(d) ==
    \/ Obtain(d) \/ Get(d) \/ Woken(d) \/ Opening(d) \/ AnnounceOnOpen(d) \/ AnnounceOnClosed(d)
    \/ NameOfClosed(d) \/ ForgetClosed(d) \/ StartWithDevice(d)

-------------------------------------------------------------------------------
(* closeService, on Main. The native close reaches a server that serves. During the opening it  *)
(* does nothing; before read_async is RUNNING it ends the server and the stream runs on.        *)
CloseService ==
    IF ~isRunning THEN UNCHANGED <<lost, stopping, ended>>
    ELSE IF thisDev = None THEN ended' = "crash" /\ UNCHANGED <<lost, stopping>>
    ELSE /\ lost' = IF pc[thisDev] = "announce" THEN lost \cup {thisDev} ELSE lost
         /\ stopping' = IF pc[thisDev] = "serving" /\ thisDev \notin lost
                        THEN stopping \cup {thisDev} ELSE stopping
         /\ UNCHANGED ended

(* The handlers of the messages that are not startWithDevice; rest is the queue without them.   *)

(* onStartCommand                                                                               *)
OnStartCommand ==
    /\ Goto(Main, "poll")
    /\ mainq' = Tail(mainq)
    /\ UNCHANGED <<device, service, screen, ended>>

(* SdrServiceConnection.onServiceConnected and the binder's startWithDevice: the device is      *)
(* queued; the service is started, or the device that runs is closed.                           *)
OnServiceConnected(d) ==
    /\ workQueue' = Append(workQueue, d)
    /\ IF isRunning
       THEN mainq' = Tail(mainq) /\ CloseService
       ELSE mainq' = Append(Tail(mainq), <<"start">>) /\ UNCHANGED <<lost, stopping, ended>>
    /\ UNCHANGED <<pc, caught, permission, listeners, heard, answered, isRunning, thisDev,
                   callback, wl, held, screen>>

(* StreamActivity's onServiceConnected and registerCallback, which tells the state at once.     *)
RegisterCallback ==
    /\ callback' = TRUE
    /\ toggle' = isRunning
    /\ mainq' = Tail(mainq)
    /\ UNCHANGED <<pc, device, isRunning, thisDev, workQueue, wl, held, activity, resumed, ended>>

SetChecked(on) ==
    /\ toggle' = on
    /\ mainq' = Tail(mainq)
    /\ UNCHANGED <<pc, device, service, activity, resumed, ended>>

(* Every registered receiver gets the broadcast about d. One whose future is done ignores it,   *)
(* d's own ends its future and unregisters, any other ends its future without a connection.     *)
OnReceive(d, granted) ==
    /\ LET open == {r \in receivers : future[r] = "pending"}
           result(r) == IF r = d /\ granted THEN "conn" ELSE "null"
       IN /\ future' = [r \in Devices |-> IF r \in open THEN result(r) ELSE future[r]]
          /\ receivers' = IF d \in open THEN receivers \ {d} ELSE receivers
          /\ pc' = [t \in Threads |-> IF t \in open /\ pc[t] = "wait" THEN "woken" ELSE pc[t]]
    /\ mainq' = Tail(mainq)
    /\ UNCHANGED <<caught, asked, listeners, heard, answered, lost, stopping, service, screen,
                   ended>>

HandleMessage ==
    /\ Live /\ pc[Main] = "idle" /\ mainq # <<>>
    /\ LET m == Head(mainq)
       IN \/ m[1] = "start" /\ OnStartCommand
          \/ m[1] = "connected" /\ OnServiceConnected(m[2])
          \/ m[1] = "register" /\ RegisterCallback
          \/ m[1] = "toggle" /\ SetChecked(m[2])
          \/ m[1] = "permission" /\ OnReceive(m[2], m[3])
    /\ UNCHANGED overlap

-------------------------------------------------------------------------------
(* What users and the system do; callbacks of the main thread, between two messages.            *)

(* StreamActivity unbinds: the connection does not reach it if it is still to come. It binds    *)
(* only when it has unbound, so that there is at most one.                                      *)
Unbound ==
    IF \E i \in DOMAIN mainq : mainq[i] = <<"register">>
    THEN RemoveAt(mainq, CHOOSE i \in DOMAIN mainq : mainq[i] = <<"register">>)
    ELSE mainq

(* The user, or another application, opens device d: DeviceOpenActivity comes to the screen and *)
(* its startServer listens to d, starts the service and binds to it.                            *)
StartServer(d) ==
    /\ Live /\ pc[Main] = "idle" /\ activity = None
    /\ answered[d] = "none"
    /\ overlap \/ Idle
    /\ answered' = [answered EXCEPT ![d] = "awaited"]
    /\ listeners' = [listeners EXCEPT ![d] = Append(@, "activity")]
    /\ mainq' = Unbound \o << <<"start">>, <<"connected", d>> >>
    /\ activity' = d
    /\ resumed' = FALSE
    /\ UNCHANGED <<overlap, pc, caught, permission, heard, lost, stopping, service, toggle,
                   ended>>

(* The user leaves the activity before it has its answer: onStop unbinds a bound connection. An *)
(* unbound one is not unbound, its message still comes.                                         *)
LeaveActivity ==
    /\ Live /\ pc[Main] = "idle" /\ activity # None
    /\ activity' = None
    /\ UNCHANGED <<overlap, mainq, pc, device, service, resumed, toggle, ended>>

(* StreamActivity.onResume binds, which is answered by a message; onPause unbinds. Openings     *)
(* that overlap come from other applications: StreamActivity is followed without them.          *)
OnResume ==
    /\ Live /\ pc[Main] = "idle" /\ activity = None /\ ~resumed /\ ~overlap
    /\ resumed' = TRUE
    /\ mainq' = Append(mainq, <<"register">>)
    /\ UNCHANGED <<overlap, pc, device, service, activity, toggle, ended>>

OnPause ==
    /\ Live /\ pc[Main] = "idle" /\ resumed
    /\ resumed' = FALSE
    /\ mainq' = Unbound
    /\ UNCHANGED <<overlap, pc, device, service, activity, toggle, ended>>

(* A click on the button when the service runs; otherwise the click opens a device              *)
(* (StartServer) or leaves the button as it is.                                                 *)
Click ==
    /\ Live /\ pc[Main] = "idle" /\ resumed
    /\ \A i \in 1..Len(mainq) : mainq[i] # <<"register">>
    /\ CloseService
    /\ toggle' = isRunning
    /\ UNCHANGED <<overlap, mainq, pc, caught, permission, listeners, heard, answered,
                   service, activity, resumed>>

(* The user answers the permission dialog: a broadcast to the main thread.                      *)
Answer(d) ==
    /\ Live
    /\ d \in asked
    /\ EarlyAnswer \/ pc[d] # "get"
    /\ asked' = asked \ {d}
    /\ \E granted \in BOOLEAN : mainq' = Append(mainq, <<"permission", d, granted>>)
    /\ UNCHANGED <<overlap, pc, caught, future, receivers, listeners, heard, answered, lost,
                   stopping, service, screen, ended>>

(* The process has ended or is not followed further, or its main thread waits for messages.     *)
Rest == (~Live \/ (mainq = <<>> /\ pc[Main] = "idle")) /\ UNCHANGED vars

Next ==
    \/ HandleMessage
    \/ StartWithDevice(Main)
    \/ \E d \in Devices : Driver(d)
    \/ \E d \in Devices : Serving(d)
    \/ \E d \in Devices : StartServer(d)
    \/ LeaveActivity \/ OnResume \/ OnPause \/ Click
    \/ \E d \in Devices : Answer(d)
    \/ Rest

Spec == Init /\ [][Next]_vars

(* The main thread handles its messages, driver threads run, users answer the dialog, and a     *)
(* stop that the native server has accepted ends the device (module SdrTcp, StopEnds).          *)
FairSpec ==
    /\ Spec
    /\ WF_vars(HandleMessage)
    /\ WF_vars(StartWithDevice(Main))
    /\ \A d \in Devices : /\ WF_vars(Driver(d))
                          /\ WF_vars(Answer(d))
                          /\ WF_vars(Serving(d) /\ d \in stopping)

-------------------------------------------------------------------------------
(* "Each listener can only hear OnClosed once" (SdrDevice.java:40): also when a listener throws *)
(* in announceOnClosed and the catch block announces again. The activity hears it once when     *)
(* devices overlap, too; the service, which then may listen to one device twice, need not.      *)
HeardOnce ==
    \A d \in Devices : /\ heard[d]["activity"] <= 1
                       /\ ~overlap => heard[d]["service"] <= 1

(* Where no thread is on its way and openings have not overlapped, isRunning says whether a     *)
(* device serves, that device is thisSdrDevice, and only its wake lock is held: what the user   *)
(* sees, what a stop would reach and what keeps the screen on are the same device.              *)
RestIsRest ==
    (AtRest /\ Live /\ ~overlap) =>
        LET serving == {d \in Devices : pc[d] = "serving"}
        IN /\ serving = IF isRunning THEN {thisDev} ELSE {}
           /\ ~isRunning => thisDev = None
           /\ held \subseteq serving

(* When StreamActivity is on the screen and its messages are handled, the button shows whether  *)
(* the service runs: registering, telling and forgetting callbacks on two threads leave no      *)
(* stale state behind.                                                                          *)
ToggleTrue == (AtRest /\ Live /\ ~overlap /\ resumed) => toggle = isRunning

(* Every opening of a device is answered to the activity that asked for it, by onOpen or        *)
(* onClosed, through the service's queue, the permission dialog and the driver thread, unless   *)
(* the process has ended.                                                                       *)
AnswerHeard ==
    \A d \in Devices : (answered[d] = "awaited" /\ ~overlap)
                           ~> (answered[d] \in {"open", "closed"} \/ ~Live)
==============================================================================
