---------------------------- MODULE PulseSession ----------------------------
(***************************************************************************)
(* One session of the PulseAudio backend (audio_pulse.c) under its Rust    *)
(* owner.                                                                  *)
(*                                                                         *)
(* Two threads run: the owner, and the pa_threaded_mainloop thread, which  *)
(* exists between a start and the matching stop.  The mainloop thread      *)
(* holds the mainloop lock whenever it dispatches and gives it up around   *)
(* each poll; the owner holds it while it connects.  What a thread does    *)
(* between taking and releasing the lock is invisible to the other, so it  *)
(* is one step, except where user code runs in between or where the owner  *)
(* gives the lock up to wait.                                              *)
(***************************************************************************)
EXTENDS FfiOwner

CONSTANT MaxPackets   \* bound on the packets buffered by the stream

ASSUME MaxPacketsAssumption == MaxPackets \in Nat \ {0}

VARIABLES
  direction,  \* a capture or a playback session
  running,    \* AudioSession::running, the atomic flag
  lock,       \* who holds the mainloop lock
  context,    \* state of pa_context, "none" for a NULL pointer
  stream,     \* state of pa_stream, "none" for a NULL pointer
  loop,       \* the mainloop thread, "none" for a NULL mainloop
  queue,      \* packets readable from a capture stream
  hasLast     \* AudioSession::has_last_timestamp

streamVars  == <<context, stream, loop, queue>>
sessionVars == <<direction, running, lock, streamVars, hasLast>>
vars        == <<ownerVars, sessionVars>>

Positions ==
  OwnerPositions \union
    {"newMainloop", "connectContext", "checkContext", "blockedContext",
     "wokenContext", "checkStream", "blockedStream", "wokenStream",
     "destroy", "join", "destroyResources"}

ContextStates ==
  {"none", "unconnected", "connecting", "authorizing", "ready", "failed"}

StreamStates == {"none", "unconnected", "creating", "ready", "failed"}

\* Outside "none" and "exited" the thread lives: in poll, inside the read
\* callback, or inside the user's callback.
LoopStates == {"none", "polling", "read", "user", "exited"}

TypeOK ==
  /\ OwnerTypeOK(Positions)
  /\ direction \in {"capture", "playback"}
  /\ running \in BOOLEAN
  /\ lock \in {"free", "owner", "loop"}
  /\ context \in ContextStates
  /\ stream \in StreamStates
  /\ loop \in LoopStates
  /\ queue \in 0..MaxPackets
  /\ hasLast \in BOOLEAN

\* The C session is allocated zeroed by create; there is no session yet.
Init ==
  /\ OwnerInit
  /\ direction \in {"capture", "playback"}
  /\ running = FALSE
  /\ lock = "free"
  /\ context = "none"
  /\ stream = "none"
  /\ loop = "none"
  /\ queue = 0
  /\ hasLast = FALSE

-----------------------------------------------------------------------------
(* audio_pulse_session_start and its playback twin, on the owner's thread. *)

\* create zeroes the session.
Create ==
  /\ New
  /\ running' = FALSE
  /\ hasLast' = FALSE
  /\ UNCHANGED <<direction, lock, streamVars>>

UserCalls ==
  \/ Create
  \/ (CallStart \/ CallStop \/ ForgetGuard \/ CallDrop) /\ UNCHANGED sessionVars

\* A running session: nothing to do.
StartRunning == running /\ Goto("cStart", "startOk") /\ UNCHANGED sessionVars

\* Mutant: the reset of has_last_timestamp is missing.
CarryTimestamps ==
  /\ direction = "capture" /\ ~running
  /\ Goto("cStart", "newMainloop")
  /\ UNCHANGED sessionVars

CaptureStart ==
  /\ direction = "capture" /\ ~running
  /\ Goto("cStart", "newMainloop")
  /\ hasLast' = FALSE
  /\ UNCHANGED <<direction, running, lock, streamVars>>

PlaybackStart ==
  /\ direction = "playback" /\ ~running
  /\ Goto("cStart", "newMainloop")
  /\ UNCHANGED sessionVars

NewMainloop ==
  /\ Goto("newMainloop", "connectContext")
  /\ loop' = "polling"
  /\ UNCHANGED <<direction, running, lock, context, stream, queue, hasLast>>

\* pa_threaded_mainloop_new or _start fails; nothing is left to release.
NewMainloopFails ==
  Goto("newMainloop", "startFailed") /\ UNCHANGED sessionVars

\* An error exit: unlock, and call destroy_resources before returning.
Fail(from, newContext, newStream) ==
  /\ Call(from, "destroy", "startFailed")
  /\ lock' = "free"
  /\ context' = newContext
  /\ stream' = newStream
  /\ UNCHANGED <<direction, running, loop, queue, hasLast>>

ConnectContext ==
  /\ lock = "free"
  /\ Goto("connectContext", "checkContext")
  /\ lock' = "owner"
  /\ context' = "connecting"
  /\ UNCHANGED <<direction, running, stream, loop, queue, hasLast>>

ConnectContextFails ==
  /\ lock = "free"
  /\ \E c \in {"none", "unconnected", "failed"} :
       Fail("connectContext", c, stream)

ContextFailed == context = "failed" /\ Fail("checkContext", context, stream)

\* pa_threaded_mainloop_wait gives up the lock and blocks.
Wait(from, to) ==
  /\ Goto(from, to)
  /\ lock' = "free"
  /\ UNCHANGED <<direction, running, streamVars, hasLast>>

WaitContext ==
  context \notin {"ready", "failed"} /\ Wait("checkContext", "blockedContext")

ConnectStream ==
  /\ context = "ready"
  /\ Goto("checkContext", "checkStream")
  /\ stream' = "creating"
  /\ UNCHANGED <<direction, running, lock, context, loop, queue, hasLast>>

\* Mutant: the error exit forgets destroy_resources.
FailWithoutDestroy ==
  context = "ready" /\ Wait("checkContext", "startFailed")

\* pa_stream_new returns NULL (-4) or the connect request fails (-5).
ConnectStreamFails ==
  /\ context = "ready"
  /\ \E s \in {"none", "unconnected"} : Fail("checkContext", context, s)

StreamFailed == stream = "failed" /\ Fail("checkStream", context, stream)

WaitStream ==
  stream \notin {"ready", "failed"} /\ Wait("checkStream", "blockedStream")

\* The wait returns with the lock taken again, and its loop looks once more.
Relock ==
  /\ lock = "free"
  /\ lock' = "owner"
  /\ \/ Goto("wokenContext", "checkContext")
     \/ Goto("wokenStream", "checkStream")
  /\ UNCHANGED <<direction, running, streamVars, hasLast>>

SetRunning ==
  /\ stream = "ready"
  /\ Goto("checkStream", "startOk")
  /\ running' = TRUE
  /\ lock' = "free"
  /\ UNCHANGED <<direction, streamVars, hasLast>>

-----------------------------------------------------------------------------
(* destroy_resources, session_stop and session_destroy.                    *)

\* destroy_resources on a session that has no mainloop.
DestroyNothing ==
  loop = "none" /\ Goto("destroy", ret) /\ UNCHANGED sessionVars

\* What destroy_resources does under the lock.
ReleaseObjects ==
  /\ loop # "none"
  /\ Goto("destroy", "join")
  /\ context' = "none"
  /\ stream' = "none"
  /\ queue' = 0
  /\ UNCHANGED <<direction, running, loop, hasLast>>

\* Mutant: the resources are released without the mainloop lock.
DestroyUnlocked == ReleaseObjects /\ UNCHANGED lock

\* Mutant: the unlock before pa_threaded_mainloop_stop is missing.
DestroyKeepsLock == ReleaseObjects /\ lock = "free" /\ lock' = "owner"

\* Lock, disconnect and release the stream and the context, unlock.  The
\* disconnect of a ready context terminates its streams, a failed context
\* has failed them already, so nothing is dispatched to them afterwards.
DestroyConnection == ReleaseObjects /\ lock = "free" /\ UNCHANGED lock

\* pa_threaded_mainloop_stop has joined the thread; free the mainloop.
FreeMainloop ==
  /\ loop = "exited"
  /\ Goto("join", ret)
  /\ loop' = "none"
  /\ UNCHANGED <<direction, running, lock, context, stream, queue, hasLast>>

\* Mutant: stop clears the flag and does not wait for the mainloop thread.
StopOnlyClearsFlag ==
  /\ Goto("cStop", ret)
  /\ running' = FALSE
  /\ UNCHANGED <<direction, lock, streamVars, hasLast>>

\* audio_pulse_session_stop clears the flag before it takes any lock.
CStop ==
  /\ Goto("cStop", IF running THEN "destroy" ELSE ret)
  /\ running' = FALSE
  /\ UNCHANGED <<direction, lock, streamVars, hasLast>>

\* audio_pulse_session_destroy: stop, destroy_resources, free.
CDestroy ==
  Call("cDestroy", "cStop", "destroyResources") /\ UNCHANGED sessionVars

CDestroyResources ==
  Call("destroyResources", "destroy", "freed") /\ UNCHANGED sessionVars

-----------------------------------------------------------------------------
(* The mainloop thread and the server behind it.                           *)

\* pa_threaded_mainloop_signal wakes the owner if it is waiting now.
Signal ==
  /\ pc' = CASE pc = "blockedContext" -> "wokenContext"
             [] pc = "blockedStream"  -> "wokenStream"
             [] OTHER                 -> pc
  /\ UNCHANGED <<handle, guard, rustRunning, op, ret>>

\* Mutant: a failure is not signalled.
SignalReadyOnly(state) == IF state = "ready" THEN Signal ELSE UNCHANGED ownerVars

session_state_callback(state) ==
  IF state \in {"ready", "failed"} THEN Signal ELSE UNCHANGED ownerVars

stream_state_callback(state) ==
  IF state \in {"ready", "failed"} THEN Signal ELSE UNCHANGED ownerVars

\* The thread returns from poll and takes the lock to dispatch.
Dispatching == loop = "polling" /\ lock = "free"

ContextState(from, to) ==
  /\ Dispatching /\ context \in from
  /\ context' = to
  /\ session_state_callback(to)
  /\ UNCHANGED <<direction, running, lock, loop, queue, hasLast>>

\* The server accepts the connection; AUTHORIZING and SETTING_NAME are one.
ContextProgress ==
  ContextState({"connecting"}, "authorizing") /\ UNCHANGED stream

ContextReady == ContextState({"authorizing"}, "ready") /\ UNCHANGED stream

\* The server refuses or goes away; the streams of the context fail with it.
ContextLost ==
  /\ ContextState({"connecting", "authorizing", "ready"}, "failed")
  /\ stream' = IF stream \in {"creating", "ready"} THEN "failed" ELSE stream

StreamState(from, to) ==
  /\ Dispatching /\ stream \in from
  /\ stream' = to
  /\ stream_state_callback(to)
  /\ UNCHANGED <<direction, running, lock, context, loop, queue, hasLast>>

StreamReady == StreamState({"creating"}, "ready")

\* The server rejects the stream or kills it later (a device removed).
StreamLost == StreamState({"creating", "ready"}, "failed")

\* stream_read_callback up to its loop: data arrived (packets beyond the
\* bound are lost in the server).  A session that is not running leaves them.
ReadCallback ==
  /\ Dispatching /\ direction = "capture" /\ stream = "ready"
  /\ queue' \in 1..MaxPackets /\ queue' >= queue
  /\ IF running THEN lock' = "loop" /\ loop' = "read"
                ELSE UNCHANGED <<lock, loop>>
  /\ UNCHANGED <<ownerVars, direction, running, context, stream, hasLast>>

\* A packet with data of at least one frame: its timestamp is computed and
\* the user callback runs.
DeliverPacket ==
  /\ loop = "read" /\ queue > 0
  /\ loop' = "user"
  /\ hasLast' = TRUE
  /\ UNCHANGED <<ownerVars, direction, running, lock, context, stream, queue>>

\* A hole, or less than one frame: dropped without a callback.
SkipPacket ==
  /\ loop = "read" /\ queue > 0
  /\ queue' = queue - 1
  /\ UNCHANGED <<ownerVars, direction, running, lock, context, stream, loop,
                 hasLast>>

\* The user's capture callback returns; the packet is dropped and the loop
\* goes on to the next one, without another look at running.
UserReturns ==
  /\ loop = "user" /\ direction = "capture"
  /\ loop' = "read"
  /\ queue' = queue - 1
  /\ UNCHANGED <<ownerVars, direction, running, lock, context, stream, hasLast>>

ReadDone ==
  /\ loop = "read" /\ queue = 0
  /\ loop' = "polling"
  /\ lock' = "free"
  /\ UNCHANGED <<ownerVars, direction, running, context, stream, queue, hasLast>>

\* stream_write_callback with a buffer of at least one frame; otherwise, or
\* when the session is not running, it writes silence and returns.
WriteCallback ==
  /\ Dispatching /\ direction = "playback" /\ stream = "ready" /\ running
  /\ loop' = "user"
  /\ lock' = "loop"
  /\ UNCHANGED <<ownerVars, direction, running, context, stream, queue, hasLast>>

\* The user's playback callback returns and the buffer is written.
WriteDone ==
  /\ loop = "user" /\ direction = "playback"
  /\ loop' = "polling"
  /\ lock' = "free"
  /\ UNCHANGED <<ownerVars, direction, running, context, stream, queue, hasLast>>

\* The thread sees the quit request of pa_threaded_mainloop_stop; like any
\* dispatch this needs the lock.
LoopExit ==
  /\ pc = "join" /\ Dispatching
  /\ loop' = "exited"
  /\ UNCHANGED <<ownerVars, direction, running, lock, context, stream, queue,
                 hasLast>>

\* A condition variable may wake its waiter without a signal.
SpuriousWake ==
  /\ pc \in {"blockedContext", "blockedStream"}
  /\ Signal
  /\ UNCHANGED sessionVars

-----------------------------------------------------------------------------
Starting ==
  \/ StartRunning \/ CaptureStart \/ PlaybackStart
  \/ NewMainloop \/ NewMainloopFails
  \/ ConnectContext \/ ConnectContextFails \/ ContextFailed \/ WaitContext
  \/ ConnectStream \/ ConnectStreamFails \/ StreamFailed \/ WaitStream
  \/ Relock \/ SetRunning

Stopping ==
  \/ DestroyNothing \/ DestroyConnection \/ FreeMainloop
  \/ CStop \/ CDestroy \/ CDestroyResources

Owner == Starting \/ Stopping \/ (OwnerReturn /\ UNCHANGED sessionVars)

Server ==
  \/ ContextProgress \/ ContextReady \/ ContextLost
  \/ StreamReady \/ StreamLost \/ ReadCallback \/ WriteCallback

\* What the mainloop thread does by itself once dispatched.
Mainloop ==
  \/ DeliverPacket \/ SkipPacket \/ UserReturns \/ ReadDone \/ WriteDone
  \/ LoopExit

Next == UserCalls \/ Owner \/ Server \/ Mainloop \/ SpuriousWake

Spec == Init /\ [][Next]_vars

(* The scheduler runs both threads, user callbacks return, and the owner   *)
(* gets a lock that the mainloop thread gives up around every poll.        *)
(* Nothing is assumed of the user's calls or of the server.                *)
Fairness ==
  /\ WF_vars(Owner)
  /\ WF_vars(Mainloop)
  /\ SF_vars(DestroyConnection)
  /\ SF_vars(ConnectContext \/ ConnectContextFails)
  /\ SF_vars(Relock)

FairSpec == Spec /\ Fairness

-----------------------------------------------------------------------------
\* A session that is stopped, after a failed start too, has no thread, no
\* server object and no lock left: the next start begins from nothing, and
\* no user callback can run.
StoppedMeansReleased ==
  (op = "none" /\ ~rustRunning) =>
    /\ ~running
    /\ lock = "free"
    /\ context = "none" /\ stream = "none" /\ loop = "none"

\* While the mainloop thread is inside a stream callback, the session and
\* its callback context are allocated and neither the stream it reads nor
\* the mainloop is released.
NoUseAfterFree ==
  loop \in {"read", "user"} =>
    /\ handle = "alive"
    /\ context # "none" /\ stream # "none"
    /\ pc \notin {"join", "freed"}

\* The owner never sleeps through its wake-up: blocked on the condition, the
\* state it waits for has not been reached and has not become impossible.
NoLostWakeup ==
  /\ pc = "blockedContext" => context \notin {"ready", "failed"}
  /\ pc = "blockedStream"  => stream \notin {"ready", "failed"}

\* The first packet of a capture never continues the timestamps of the
\* stream before it.
NoStaleTimestamp ==
  (direction = "capture" /\ op = "start" /\ pc # "cStart" /\ ~running)
    => ~hasLast

\* The server answers each request, be it with an error, and the mainloop
\* thread gets the lock to process the answer while the owner waits.
ServerAnswers ==
  /\ SF_vars(ContextProgress \/ ContextLost)
  /\ SF_vars(ContextReady \/ ContextLost)
  /\ SF_vars(StreamReady \/ StreamLost)

\* start returns if the server answers: no failure of the server and no order
\* of wake-ups leaves the owner waiting (the header of the backend says that
\* start blocks for as long as the server does not answer).
StartReturns == ServerAnswers => (op = "start" ~> op = "none")

\* stop and drop return whatever the server does, once the user callbacks in
\* progress return.
StopReturns == op \in {"stop", "drop"} ~> op = "none"

Contract == INSTANCE SessionContract
  WITH phase <- Phase, callbacks <- IF loop = "user" THEN 1 ELSE 0

\* The backend keeps the contract of audio.h.
ImplementsContract == Contract!Spec

=============================================================================
