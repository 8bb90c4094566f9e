------------------------------- MODULE SdrTcp -------------------------------
(***************************************************************************)
(* sdrtcp.c, the rtl_tcp server, and its use by msisdrdevice.c.  Five      *)
(* threads meet in it: the driver thread of openAsync, which opens the     *)
(* server and then reads the device; the server thread; the command thread *)
(* the server starts for its client; the thread of the application that    *)
(* calls close; and whichever thread runs the libusb callback that feeds   *)
(* samples.  They share the volatile state, most of whose writes are made  *)
(* without the lock, and the pool of buffers.                              *)
(***************************************************************************)
EXTENDS WorkPool, FiniteSets

CONSTANTS
  MaxCloses,    \* bound: calls of MsiSdrDevice.close
  MaxFailures,  \* bound: failures of the stream
  QuietAccept   \* TRUE: no stop is requested while a client is being accepted

ASSUME TcpAssumption ==
  /\ MaxCloses \in Nat /\ MaxFailures \in Nat /\ QuietAccept \in BOOLEAN
  /\ LastId = 1 /\ Threads = {"feed", "server"}
  /\ StageOf = [t \in Threads |-> IF t = "feed" THEN 0 ELSE 1]

VARIABLES
  state,      \* obj->state
  locker,     \* who holds state_locker across steps: sdrtcp_feed or sdrtcp_cleanup
  cleaning,   \* where its holder is in sdrtcp_cleanup
  listening,  \* obj->listen_socket # -1
  pc,         \* pc[t]: where each of the five threads is
  stream,     \* msisdr_read_async: "off" until it is RUNNING, ...
  dev,        \* dev->miri_dev: "null", "set", or "closed" when it has been freed
  closed,     \* how often closedcb has been called
  peer,       \* the client: "away", "calling", "here", "gone"
  inbox,      \* a command the client has sent
  closes, failures

tcpVars == <<state, locker, cleaning, listening, pc, stream, dev, closed, peer, inbox,
             closes, failures>>

vars == <<poolVars, tcpVars>>

-----------------------------------------------------------------------------
(* The stages of the server.                                               *)

UNINITIALIZED == 0
INITIALIZED == 1
SOCKET_OPEN == 2
CLIENT_OPEN == 3
STARTED_ASYNC == 4
SERVING == 5
NEEDS_STOPPING == 6

\* No client to feed yet: sdrtcp_feed sleeps and answers 2.
NotReady == {SOCKET_OPEN, CLIENT_OPEN, STARTED_ASYNC}

Actors == {"driver", "server", "command", "java", "feed"}

Places ==
  {"idle", "none", "done",
   "open", "pool", "socket", "assign", "setopen", "bind", "verify", "unopen",
   "setdev", "serve", "unserve", "start", "read", "reading", "close",
   "stop", "stopclean", "stopwrite",
   "wait", "accepted", "check", "spawned", "serving", "sending", "senderr", "join", "final",
   "cleanup", "closedcb",
   "listen", "recverr", "call", "set",
   "lock", "feed", "unlock", "refused"}

\* sdrtcp_init; the pool is not there before sdrtcp_open_socket.
Init ==
  /\ PoolInit
  /\ state = UNINITIALIZED /\ locker = "none" /\ cleaning = "no" /\ listening = FALSE
  /\ pc = [driver |-> "open", server |-> "none", command |-> "none",
           java |-> "idle", feed |-> "idle"]
  /\ stream = "off" /\ dev = "null" /\ closed = 0
  /\ peer = "away" /\ inbox = "none" /\ closes = 0 /\ failures = 0

-----------------------------------------------------------------------------
(* Steps.                                                                  *)

At(t, place) == pc[t] = place

Go(t, place) == pc' = [pc EXCEPT ![t] = place]

\* Only the program counters change.
OnlyPc == UNCHANGED <<poolVars, state, locker, cleaning, listening, stream, dev, closed,
                      peer, inbox, closes, failures>>

\* Only the program counters and the state change.
OnlyState == UNCHANGED <<poolVars, locker, cleaning, listening, stream, dev, closed,
                         peer, inbox, closes, failures>>

\* The state_locker is free: a locked section that does not sleep is one step.
Unlocked == locker = "none"

\* pool_free: the buffers in the queues are freed, those held are forgotten.
PoolFreed ==
  /\ queues' = [i \in Ids |-> <<>>]
  /\ elements' = 0 /\ content' = <<>> /\ valid' = FALSE
  /\ UNCHANGED <<wpc, hold, fed, out>>

\* A mutant of CleanupStarts: it does not wait for the lock.
CleanupUnlocked(t) ==
  /\ state # UNINITIALIZED
  /\ state' = UNINITIALIZED /\ locker' = t
  /\ cleaning' = IF state > INITIALIZED THEN "socket" ELSE "pool"
  /\ UNCHANGED <<poolVars, listening, pc>>

\* sdrtcp_cleanup takes the lock and says first that the server is uninitialized: who
\* reads the state without the lock finds it so while there is still much to do.
CleanupStarts(t) ==
  /\ Unlocked /\ state # UNINITIALIZED
  /\ state' = UNINITIALIZED /\ locker' = t
  /\ cleaning' = IF state > INITIALIZED THEN "socket" ELSE "pool"
  /\ UNCHANGED <<poolVars, listening, pc>>

CleanupCloses(t) ==
  /\ locker = t /\ cleaning = "socket"
  /\ listening' = FALSE /\ cleaning' = "pool"
  /\ UNCHANGED <<poolVars, state, locker, pc>>

CleanupFrees(t) ==
  /\ locker = t /\ cleaning = "pool"
  /\ PoolFreed /\ cleaning' = "end"
  /\ UNCHANGED <<state, locker, listening, pc>>

\* The lock is given back, at once if there was nothing to clean up.
CleanupEnds(t, to) ==
  /\ \/ /\ Unlocked /\ state = UNINITIALIZED
        /\ UNCHANGED <<locker, cleaning, listening>>
     \/ /\ locker = t /\ cleaning = "end"
        /\ locker' = "none" /\ cleaning' = "no" /\ listening' = FALSE
  /\ Go(t, to)
  /\ UNCHANGED <<poolVars, state>>

\* Thread t calls sdrtcp_cleanup at one place and goes on at another.
Cleanup(t, from, to) ==
  /\ At(t, from)
  /\ CleanupStarts(t) \/ CleanupCloses(t) \/ CleanupFrees(t) \/ CleanupEnds(t, to)
  /\ UNCHANGED <<stream, dev, closed, peer, inbox, closes, failures>>

-----------------------------------------------------------------------------
(* sdrtcp_stop_serving_client, called by openAsync when the stream has     *)
(* ended, by the application's close and by the client's exit command.     *)

Stoppers == {"driver", "java", "command"}

After == [driver |-> "done", java |-> "idle", command |-> "listen"]

Stopping == {"stop", "stopclean", "stopwrite"}

\* Somebody is about to stop the server.
StopPending == stream = "failed" \/ \E t \in Stoppers : pc[t] \in Stopping

\* The server thread is between the accept and SERVING.
Accepting == pc["server"] \in {"accepted", "check", "spawned"}

StopReads(t) ==
  /\ At(t, "stop")
  /\ Go(t, IF state = UNINITIALIZED THEN After[t]
           ELSE IF state < STARTED_ASYNC THEN "stopclean" ELSE "stopwrite")
  /\ UNCHANGED state /\ OnlyState

StopCleans(t) == Cleanup(t, "stopclean", After[t])

\* A mutant of StopWrites: the request is not written.
StopForgets(t) ==
  /\ At(t, "stopwrite")
  /\ Go(t, After[t])
  /\ OnlyPc

\* Without the lock, whatever the state has become since it was read.
StopWrites(t) ==
  /\ At(t, "stopwrite")
  /\ state' = NEEDS_STOPPING
  /\ Go(t, After[t])
  /\ OnlyState

Stop(t) == StopReads(t) \/ StopCleans(t) \/ StopWrites(t)

\* MsiSdrDevice.close, at any time
JavaCloses ==
  /\ At("java", "idle") /\ closes < MaxCloses
  /\ QuietAccept => ~Accepting
  /\ closes' = closes + 1
  /\ Go("java", "stop")
  /\ UNCHANGED <<poolVars, state, locker, cleaning, listening, stream, dev, closed, peer, inbox, failures>>

Java == Stop("java")

-----------------------------------------------------------------------------
(* The driver thread: openAsync of msisdrdevice.c, once the device is set   *)
(* up; sdrtcp_open_socket first.                                           *)

Open ==
  /\ At("driver", "open")
  /\ Go("driver", IF state = UNINITIALIZED THEN "pool" ELSE "unopen")
  /\ listening' = IF state = UNINITIALIZED THEN FALSE ELSE listening
  /\ UNCHANGED <<poolVars, state, locker, cleaning, stream, dev, closed, peer, inbox, closes, failures>>

\* The pool, and the dongle info as the first thing to send: content 1.
PoolUp ==
  /\ At("driver", "pool") /\ Unlocked
  /\ queues' = [i \in Ids |-> IF i = 1 THEN <<1>> ELSE <<>>]
  /\ elements' = 1 /\ content' = <<1>> /\ fed' = 1 /\ valid' = TRUE
  /\ state' = INITIALIZED
  /\ Go("driver", "socket")
  /\ UNCHANGED <<wpc, hold, out, locker, cleaning, listening, stream, dev, closed, peer, inbox, closes, failures>>

\* socket() may fail, and is not called in another state.
Socket ==
  /\ At("driver", "socket")
  /\ \/ state = INITIALIZED /\ Go("driver", "assign")
     \/ Go("driver", "setopen")
  /\ OnlyPc

AssignSocket ==
  /\ At("driver", "assign")
  /\ listening' = TRUE
  /\ Go("driver", "setopen")
  /\ UNCHANGED <<poolVars, state, locker, cleaning, stream, dev, closed, peer, inbox, closes, failures>>

SetOpen ==
  /\ At("driver", "setopen") /\ Unlocked
  /\ state' = IF listening THEN SOCKET_OPEN ELSE state
  /\ Go("driver", "bind")
  /\ OnlyState

\* bind and listen may fail.
Bind ==
  /\ At("driver", "bind")
  /\ \/ state = SOCKET_OPEN /\ Go("driver", "verify")
     \/ Go("driver", "unopen")
  /\ OnlyPc

Verify ==
  /\ At("driver", "verify")
  /\ Go("driver", IF state = SOCKET_OPEN THEN "setdev" ELSE "unopen")
  /\ OnlyPc

\* sdrtcp_open_socket fails, and openAsync closes the device and returns.
Unopen == Cleanup("driver", "unopen", "done")

SetDev ==
  /\ At("driver", "setdev")
  /\ dev' = "set"
  /\ Go("driver", "serve")
  /\ UNCHANGED <<poolVars, state, locker, cleaning, listening, stream, closed, peer, inbox, closes, failures>>

\* tcpClosedCallback: msisdr_cancel_async, which is refused unless RUNNING.
ClosedCallback ==
  /\ closed' = closed + 1
  /\ stream' = IF dev = "set" /\ stream = "running" THEN "cancel" ELSE stream

\* sdrtcp_serve_client_async: the state is checked, then overwritten.
Serve ==
  /\ At("driver", "serve")
  /\ IF state = SOCKET_OPEN
       THEN Go("driver", "start") /\ UNCHANGED <<closed, stream>>
       ELSE Go("driver", "unserve") /\ ClosedCallback
  /\ UNCHANGED <<poolVars, state, locker, cleaning, listening, dev, peer, inbox, closes, failures>>

Unserve == Cleanup("driver", "unserve", "read")

Start ==
  /\ At("driver", "start")
  /\ state' = STARTED_ASYNC
  /\ pc' = [pc EXCEPT !["driver"] = "read", !["server"] = "wait"]
  /\ OnlyState

\* msisdr_read_async reaches RUNNING.
Read ==
  /\ At("driver", "read") /\ stream = "off"
  /\ stream' = "running"
  /\ Go("driver", "reading")
  /\ UNCHANGED <<poolVars, state, locker, cleaning, listening, dev, closed, peer, inbox, closes, failures>>

\* The stream cannot start, or fails: an unplug, an error of the bus.
StreamFails ==
  /\ pc["driver"] \in {"read", "reading"} /\ stream \in {"off", "running"}
  /\ failures < MaxFailures
  /\ QuietAccept => ~Accepting
  /\ failures' = failures + 1
  /\ stream' = "failed"
  /\ Go("driver", "reading")
  /\ UNCHANGED <<poolVars, state, locker, cleaning, listening, dev, closed, peer, inbox, closes>>

\* msisdr_read_async returns, with no callback running.
ReadEnds ==
  /\ At("driver", "reading") /\ stream \in {"cancel", "failed"}
  /\ pc["feed"] \in {"idle", "refused"}
  /\ Go("driver", "close")
  /\ OnlyPc

\* miri_dev = NULL and msisdr_close.
CloseDevice ==
  /\ At("driver", "close")
  /\ dev' = "closed"
  /\ Go("driver", "stop")
  /\ UNCHANGED <<poolVars, state, locker, cleaning, listening, stream, closed, peer, inbox, closes, failures>>

Driver ==
  \/ Open \/ PoolUp \/ Socket \/ AssignSocket \/ SetOpen \/ Bind \/ Verify \/ Unopen
  \/ SetDev \/ Serve \/ Unserve \/ Start \/ Read \/ ReadEnds \/ CloseDevice \/ Stop("driver")

-----------------------------------------------------------------------------
(* sdrtcp_feed, called by msisdr_callback.                                 *)

Feeds ==
  /\ pc["feed"] \in {"idle", "refused"}
  /\ pc["driver"] = "reading" /\ stream \in {"running", "cancel"} /\ dev = "set"
  /\ fed < MaxFed
  /\ Go("feed", IF state = SERVING THEN "lock"
                ELSE IF state \in NotReady THEN "idle" ELSE "refused")
  /\ OnlyPc

\* The state is read again under the lock, which is kept for as long as the
\* thread waits for a buffer, or sleeps because there is no client any more.
FeedLocks ==
  /\ At("feed", "lock") /\ Unlocked
  /\ \/ /\ state \in {SERVING} \union NotReady
        /\ locker' = "feed"
        /\ Go("feed", IF state = SERVING THEN "feed" ELSE "unlock")
     \/ /\ state \notin {SERVING} \union NotReady
        /\ Go("feed", "refused")
        /\ UNCHANGED locker
  /\ UNCHANGED <<poolVars, state, cleaning, listening, stream, dev, closed, peer, inbox, closes, failures>>

\* The pool's part of the call; it ends with the buffer handed on or with NULL.
FeedPool ==
  /\ At("feed", "feed")
  /\ Step("feed")
  /\ IF wpc["feed"] \in {"has", "none"} THEN Go("feed", "unlock") ELSE UNCHANGED pc
  /\ UNCHANGED <<state, locker, cleaning, listening, stream, dev, closed, peer, inbox, closes, failures>>

FeedUnlocks ==
  /\ At("feed", "unlock")
  /\ locker' = "none"
  /\ Go("feed", "idle")
  /\ UNCHANGED <<poolVars, state, cleaning, listening, stream, dev, closed, peer, inbox, closes, failures>>

Feed == FeedLocks \/ FeedPool \/ FeedUnlocks

-----------------------------------------------------------------------------
(* The server thread: tcp_server.                                          *)

\* sdrtcp_wait_for_client accepts a client.
Accept ==
  /\ At("server", "wait") /\ state = STARTED_ASYNC
  /\ listening /\ peer = "calling"
  /\ QuietAccept => ~StopPending
  /\ peer' = "here"
  /\ Go("server", "accepted")
  /\ UNCHANGED <<poolVars, state, locker, cleaning, listening, stream, dev, closed, inbox, closes, failures>>

\* accept fails: the client has gone, or the socket has been closed.
AcceptFails ==
  /\ At("server", "wait") /\ state = STARTED_ASYNC
  /\ peer = "calling" \/ ~listening
  /\ peer' = "away"
  /\ Go("server", "check")
  /\ UNCHANGED <<poolVars, state, locker, cleaning, listening, stream, dev, closed, inbox, closes, failures>>

Accepted ==
  /\ At("server", "accepted")
  /\ state' = CLIENT_OPEN
  /\ Go("server", "check")
  /\ OnlyState

\* A mutant of WaitEnds: only a client ends the wait.
WaitForClient ==
  /\ At("server", "wait") /\ state = CLIENT_OPEN
  /\ Go("server", "check")
  /\ OnlyPc

WaitEnds ==
  /\ At("server", "wait") /\ state # STARTED_ASYNC
  /\ Go("server", "check")
  /\ OnlyPc

\* The command thread is created while the state is still CLIENT_OPEN.
CheckClient ==
  /\ At("server", "check")
  /\ pc' = IF state = CLIENT_OPEN
             THEN [pc EXCEPT !["server"] = "spawned", !["command"] = "listen"]
             ELSE [pc EXCEPT !["server"] = "final"]
  /\ OnlyPc

\* Under the lock, but whatever the state has become.
SetServing ==
  /\ At("server", "spawned") /\ Unlocked
  /\ state' = SERVING
  /\ Go("server", "serving")
  /\ OnlyState

\* serveClient: the top of the loop, and the blocking get of a buffer.
ServeGets ==
  /\ At("server", "serving")
  /\ wpc["server"] = "out" => state = SERVING
  /\ Get("server") \/ Block("server") \/ WakeUp("server") \/ GiveUp("server")
  /\ UNCHANGED tcpVars

\* select calls the socket writable, and send is called: on a blocking socket.
SendBegins ==
  /\ At("server", "serving") /\ wpc["server"] = "has" /\ state = SERVING
  /\ Go("server", "sending")
  /\ OnlyPc

\* The client takes all of the buffer.
Sent ==
  /\ At("server", "sending") /\ peer = "here"
  /\ Put("server")
  /\ Go("server", "serving")
  /\ UNCHANGED <<state, locker, cleaning, listening, stream, dev, closed, peer, inbox, closes, failures>>

SendFails ==
  /\ At("server", "sending") /\ peer = "gone"
  /\ Go("server", IF state = SERVING THEN "senderr" ELSE "serving")
  /\ OnlyPc

SendFailed ==
  /\ At("server", "senderr")
  /\ state' = NEEDS_STOPPING
  /\ Go("server", "serving")
  /\ OnlyState

\* The server is to stop: what is left of the buffer is not sent.
ServeDrops ==
  /\ At("server", "serving") /\ state # SERVING
  /\ Put("server")
  /\ UNCHANGED tcpVars

ServeEnds ==
  /\ At("server", "serving") /\ wpc["server"] = "out" /\ state # SERVING
  /\ Go("server", "join")
  /\ OnlyPc

\* A mutant of Join: the command thread is not waited for.
JoinSkips ==
  /\ At("server", "join")
  /\ Go("server", "final")
  /\ OnlyPc

Join ==
  /\ At("server", "join") /\ At("command", "done")
  /\ Go("server", "final")
  /\ OnlyPc

Final ==
  /\ At("server", "final") /\ Unlocked
  /\ Go("server", IF state = UNINITIALIZED THEN "closedcb" ELSE "cleanup")
  /\ OnlyPc

FinalCleans == Cleanup("server", "cleanup", "closedcb")

CallsClosed ==
  /\ At("server", "closedcb")
  /\ ClosedCallback
  /\ Go("server", "done")
  /\ UNCHANGED <<poolVars, state, locker, cleaning, listening, dev, peer, inbox, closes, failures>>

\* What the server thread does without the client's help.
Server ==
  \/ Accept \/ Accepted \/ WaitEnds \/ CheckClient \/ SetServing
  \/ ServeGets \/ SendBegins \/ SendFails \/ SendFailed \/ ServeDrops \/ ServeEnds
  \/ Join \/ Final \/ FinalCleans \/ CallsClosed

-----------------------------------------------------------------------------
(* The command thread: commandListener, and tcpCommandCallback.            *)

ListenEnds ==
  /\ At("command", "listen") /\ state # SERVING
  /\ Go("command", "done")
  /\ OnlyPc

\* A command has been received; without a device it is ignored.
Receives ==
  /\ At("command", "listen") /\ state = SERVING /\ inbox # "none"
  /\ inbox' = "none"
  /\ Go("command", IF dev # "set" THEN "listen" ELSE IF inbox = "exit" THEN "stop" ELSE "set")
  /\ UNCHANGED <<poolVars, state, locker, cleaning, listening, stream, dev, closed, peer, closes, failures>>

\* The client has reset the connection.  One that has closed it is not
\* noticed here: recv answers 0 and the loop goes round.
ReceiveFails ==
  /\ At("command", "listen") /\ state = SERVING /\ peer = "gone"
  /\ Go("command", "recverr")
  /\ OnlyPc

ReceiveFailed ==
  /\ At("command", "recverr")
  /\ state' = NEEDS_STOPPING
  /\ Go("command", "listen")
  /\ OnlyState

\* The end of a command that works on the device: set_center_freq, ...
Executed ==
  /\ At("command", "set")
  /\ Go("command", "listen")
  /\ OnlyPc

Command == ListenEnds \/ Receives \/ ReceiveFailed \/ Executed \/ Stop("command")

-----------------------------------------------------------------------------
(* The client.                                                             *)

Connects == listening /\ state >= SOCKET_OPEN /\ peer = "away" /\ peer' = "calling" /\ UNCHANGED inbox

Sends == peer = "here" /\ inbox = "none" /\ inbox' \in {"set", "exit"} /\ UNCHANGED peer

Leaves == peer = "here" /\ peer' = "gone" /\ UNCHANGED inbox

Peer ==
  /\ Connects \/ Sends \/ Leaves
  /\ UNCHANGED <<poolVars, state, locker, cleaning, listening, pc, stream, dev, closed, closes, failures>>

-----------------------------------------------------------------------------

Next ==
  \/ Driver \/ StreamFails \/ Feeds \/ Feed \/ Server \/ Sent \/ AcceptFails
  \/ Command \/ ReceiveFails \/ JavaCloses \/ Java \/ Peer

Spec == Init /\ [][Next]_vars

\* Every thread that can run does, and a client that is connected reads on or
\* leaves; nobody has to connect, to send a command, to close or to fail.
FairSpec ==
  /\ Spec
  /\ WF_vars(Driver) /\ WF_vars(Feed) /\ WF_vars(Server) /\ WF_vars(Command)
  /\ WF_vars(Java) /\ WF_vars(Sent)

-----------------------------------------------------------------------------
(* Properties.                                                             *)

\* The pool is not freed under the thread that is feeding it: sdrtcp_feed holds
\* state_locker and sdrtcp_cleanup takes it.
FeederKeepsPool == [][valid /\ ~valid' => wpc["feed"] = "out"]_vars

\* closedcb is called once, and when the commands are over: none is being executed and
\* none will be (tcp_server joins its command thread before it calls closedcb; the
\* device is closed as a consequence of that call).  What the server used, the
\* listening socket, which blocks the port, and the pool, has been given back by then if
\* the server thread calls it.  sdrtcp_serve_client_async, which reads the state without
\* the lock, may call it while the application's close is still giving that back.
ClosedIsLast ==
  closed > 0 =>
    /\ closed = 1 /\ pc["command"] \in {"none", "done"}
    /\ \/ ~listening /\ ~valid
       \/ pc["server"] = "none" /\ locker = "java"

\* The client receives the dongle info first and then what was fed, each buffer
\* once and in the order of the calls of sdrtcp_feed.
SentInOrder == [][out' # out => out' = out + 1]_vars

\* As long as the stream does not fail, a command is executed on a device that is
\* open (tcpCommandCallback checks miri_dev once, openAsync frees the device).
CommandsOnOpenDevice == failures = 0 /\ pc["command"] = "set" => dev = "set"

\* If the server is asked to stop, closedcb will be called (sdrtcp.h, lines
\* 62-63).
StopEnds == (pc["java"] = "stop" /\ pc["server"] \notin {"none", "done"}) ~> (pc["server"] = "done")

\* When the stream fails the server goes, too, and frees the port.
FailureReleases == (stream = "failed") ~> (pc["server"] \in {"none", "done"} /\ ~listening)

\* The server serves its client from its pool.
Serving == state = SERVING /\ valid

\* What has been fed reaches the client, or the client stops being served: no
\* wake-up of the pool is lost for good between sdrtcp_feed and serveClient.
FedIsSent == \A k \in 1 .. MaxFed : (fed >= k /\ Serving) ~> (out >= k \/ ~Serving)

=============================================================================
