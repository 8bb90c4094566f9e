-------------------------- MODULE RunnerServiceInv --------------------------
(* The inductive invariant behind HeardOnce, RestIsRest and ToggleTrue. When openings do not    *)
(* overlap, the messages, the main thread and the thread of the device work one after the other *)
(* on the one device that is being opened or is open: each part below is a stretch of its way.  *)
EXTENDS RunnerService

Names == {"activity", "service"}

Messages ==
    {<<"start">>, <<"register">>} \cup {<<"connected", d>> : d \in Devices}
        \cup {<<"toggle", on>> : on \in BOOLEAN}
        \cup {<<"permission", d, granted>> : d \in Devices, granted \in BOOLEAN}

StartPlaces == {"poll", "stop", "tellstop", "clear", "run", "tellrun", "add", "open"}

Opened == {"obtain", "get", "wait", "woken", "opening", "announce", "serving"}

DriverPlaces ==
    {"none", "done", "tell", "onClosed", "forget"} \cup Opened \cup StartPlaces

TypeInv ==
    /\ overlap \in BOOLEAN
    /\ mainq \in Seq(Messages)
    /\ pc \in [Threads -> DriverPlaces \cup {"idle"}]
    /\ pc[Main] \in StartPlaces \cup {"idle"}
    /\ \A d \in Devices : pc[d] \in DriverPlaces
    /\ listeners \in [Devices -> Seq(Names)]
    /\ heard \in [Devices -> [Names -> Nat]]
    /\ answered \in [Devices -> {"none", "awaited", "open", "closed"}]
    /\ isRunning \in BOOLEAN /\ callback \in BOOLEAN /\ resumed \in BOOLEAN /\ toggle \in BOOLEAN
    /\ thisDev \in Devices \cup {None} /\ workQueue \in Seq(Devices)

(* The activity that opens a device listens to it once, and is taken off before it hears the    *)
(* end, whatever overlaps.                                                                      *)
ActivityInv ==
    \A d \in Devices :
        LET acts == {i \in DOMAIN listeners[d] : listeners[d][i] = "activity"}
        IN /\ \A i, j \in acts : i = j
           /\ heard[d]["activity"] <= 1
           /\ heard[d]["activity"] = 1 => acts = {}
           /\ answered[d] = "none" => acts = {} /\ heard[d]["activity"] = 0

(* Queues of messages: what is in them, and in which order the service is told.                *)
Holds(q, m) == \E i \in DOMAIN q : q[i] = m
Once(q, m) == \A i, j \in DOMAIN q : q[i] = m /\ q[j] = m => i = j
Starting(m) == m[1] \in {"start", "connected"}
NoneAfter(q, k) == \A i \in DOMAIN q : i > k => ~Starting(q[i])
StartConnect(q, d) ==
    Len(q) >= 2 /\ NoneAfter(q, 2) /\ q[1] = <<"start">> /\ q[2] = <<"connected", d>>
Connect(q, d) == Len(q) >= 1 /\ NoneAfter(q, 1) /\ q[1] = <<"connected", d>>
StartComes(q) ==
    \E i \in DOMAIN q : /\ q[i] = <<"start">>
                        /\ \A j \in DOMAIN q \ {i} : ~Starting(q[j])
Posts(q) == \E i \in DOMAIN q : q[i][1] = "toggle"
PostsOff(q) == \A i \in DOMAIN q : q[i][1] = "toggle" => q[i] = <<"toggle", FALSE>>

Registering == Holds(mainq, <<"register">>)
Posted == Posts(mainq)

(* Only a StreamActivity on the screen is bound, and once.                                      *)
RegisterInv ==
    /\ Once(mainq, <<"register">>)
    /\ Registering => resumed
    /\ overlap => ~resumed

(* A device that is not opened yet, or has ended.                                               *)
Quiet(d) ==
    /\ pc[d] \in {"none", "done"}
    /\ pc[d] = "none" <=> answered[d] = "none"
    /\ listeners[d] = <<>>
    /\ heard[d]["service"] <= 1
    /\ pc[d] = "none" => heard[d]["service"] = 0

Stopped == ~isRunning /\ thisDev = None /\ held = {}

(* What the button shows when StreamActivity has nothing to wait for: with on, what the service *)
(* is about to tell the callback, or nothing if it has told it.                                 *)
Shows(on) == resumed /\ ~Registering => callback /\ toggle = on
Listens == resumed /\ ~Registering => callback
WillShowOff == resumed /\ ~Registering => Posted \/ ~toggle

(* Nothing runs.                                                                                *)
AtEase ==
    /\ Stopped /\ workQueue = <<>> /\ pc[Main] = "idle" /\ NoneAfter(mainq, 0)
    /\ PostsOff(mainq) /\ WillShowOff

Asked(d) ==
    /\ pc[d] = "none" /\ answered[d] # "none"
    /\ heard[d]["service"] = 0
    /\ ~Posted

(* The service has been started for d and will be connected, has nothing to do and stops.       *)
Coming(d) ==
    /\ Asked(d) /\ listeners[d] = <<"activity">> /\ Stopped /\ workQueue = <<>>
    /\ resumed => Registering
    /\ \/ pc[Main] = "idle" /\ StartConnect(mainq, d)
       \/ pc[Main] \in {"idle", "poll", "stop", "tellstop", "clear"} /\ Connect(mainq, d)

(* Connected: d is in the queue and the service is started again.                               *)
Queued(d) ==
    /\ Asked(d) /\ listeners[d] = <<"activity">> /\ Stopped /\ workQueue = <<d>>
    /\ Shows(FALSE)
    /\ \/ pc[Main] = "idle" /\ StartComes(mainq)
       \/ pc[Main] = "poll" /\ NoneAfter(mainq, 0)

(* The service runs d.                                                                          *)
Launched(d) ==
    /\ Asked(d) /\ workQueue = <<>> /\ NoneAfter(mainq, 0) /\ thisDev = d /\ held = {}
    /\ pc[Main] \in {"run", "tellrun", "add", "open"}
    /\ isRunning <=> pc[Main] # "run"
    /\ listeners[d] = IF pc[Main] = "open" THEN <<"activity", "service">> ELSE <<"activity">>
    /\ Listens
    /\ pc[Main] \in {"add", "open"} => Shows(TRUE)

(* The device's thread is at work, up to the listeners.                                         *)
Running(d) ==
    /\ answered[d] # "none" /\ ~Posted /\ workQueue = <<>> /\ NoneAfter(mainq, 0) /\ pc[Main] = "idle"
    /\ thisDev = d /\ isRunning
    /\ held \subseteq {d} /\ (held # {} => wl = d)
    /\ Shows(TRUE)
    /\ \/ /\ pc[d] \in Opened
          /\ heard[d]["service"] = 0 /\ listeners[d] = <<"activity", "service">>
       \/ /\ pc[d] = "tell" /\ heard[d]["service"] = 0
          /\ listeners[d] \in {<<"activity", "service">>, <<"service">>}
       \/ /\ pc[d] \in {"onClosed", "forget"}
          /\ heard[d]["service"] = 1 /\ listeners[d] = <<>>

(* The service has heard the end, finds its queue empty and stops.                              *)
Ending(d) ==
    /\ answered[d] # "none" /\ workQueue = <<>> /\ NoneAfter(mainq, 0) /\ pc[Main] = "idle"
    /\ thisDev = None /\ held = {}
    /\ heard[d]["service"] = 1 /\ listeners[d] = <<>>
    /\ \/ pc[d] \in {"poll", "stop"} /\ isRunning /\ ~Posted /\ Shows(TRUE)
       \/ pc[d] = "tellstop" /\ ~isRunning /\ ~Posted /\ Listens
       \/ pc[d] \in {"clear", "tell"} /\ ~isRunning /\ PostsOff(mainq) /\ WillShowOff

Way(d) == Coming(d) \/ Queued(d) \/ Launched(d) \/ Running(d) \/ Ending(d)

AloneInv ==
    \/ AtEase /\ \A d \in Devices : Quiet(d)
    \/ \E d \in Devices : Way(d) /\ \A e \in Devices \ {d} : Quiet(e)

RInv ==
    /\ TypeInv /\ ActivityInv /\ RegisterInv
    /\ ~overlap => \A d \in Devices : heard[d]["service"] <= 1
    /\ ~overlap /\ Live => AloneInv
==============================================================================
