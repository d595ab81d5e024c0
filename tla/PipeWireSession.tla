-------------------------- MODULE PipeWireSession --------------------------
(***************************************************************************)
(* One session of the PipeWire backend (audio_pipewire.c) under its Rust   *)
(* owner.                                                                  *)
(*                                                                         *)
(* Three threads run.  The thread loop exists from create to destroy and   *)
(* its thread between a start and the matching stop; like the PulseAudio   *)
(* mainloop it dispatches with its lock held and polls without.  The data  *)
(* thread of the library moves buffers and, since the streams do not ask   *)
(* for RT processing, queues a process invoke on the thread loop for every *)
(* cycle, without taking the lock.  The owner connects, waits for the      *)
(* stream with a timeout, and tears down.                                  *)
(***************************************************************************)
EXTENDS FfiOwner

CONSTANTS
  MaxPending,  \* bound on the process invokes queued and not yet dispatched
  NumBuffers,  \* buffers shared by the stream and the server
  Timeout      \* STREAM_STATE_TIMEOUT_SEC, in units of Tick

ASSUME PipeWireAssumption ==
  /\ MaxPending \in Nat \ {0}
  /\ NumBuffers \in Nat \ {0}
  /\ Timeout \in Nat \ {0}

VARIABLES
  direction,  \* a capture or a playback session
  running,    \* AudioSession::running, the atomic flag
  lock,       \* who holds the lock of the thread loop
  core,       \* the connection, "errored" once it reported an error
  coreError,  \* AudioSession::core_error is negative
  stream,     \* state of pw_stream, "none" for a NULL pointer
  loop,       \* the thread of the thread loop
  pending,    \* process invokes queued on the thread loop
  ready,      \* buffers the stream can dequeue
  held,       \* buffers dequeued and not queued again
  elapsed,    \* time since wait_for_stream_ready began
  hasLast     \* AudioSession::has_last_timestamp

bufferVars  == <<pending, ready, held>>
sessionVars == <<direction, running, lock, core, coreError, stream, loop,
                 bufferVars, elapsed, hasLast>>
vars        == <<ownerVars, sessionVars>>

Positions ==
  OwnerPositions \union
    {"connect", "checkState", "blocked", "woken", "lockStop", "join",
     "destroyContext"}

StreamStates ==
  {"none", "unconnected", "connecting", "paused", "streaming", "error"}

\* The thread polls, is inside the process callback, or inside the user's.
LoopStates == {"stopped", "polling", "process", "user", "exited"}

TypeOK ==
  /\ OwnerTypeOK(Positions)
  /\ direction \in {"capture", "playback"}
  /\ running \in BOOLEAN
  /\ lock \in {"free", "owner", "loop"}
  /\ core \in {"none", "connected", "errored"}
  /\ coreError \in BOOLEAN
  /\ stream \in StreamStates
  /\ loop \in LoopStates
  /\ pending \in 0..MaxPending
  /\ ready \in 0..NumBuffers
  /\ held \in 0..NumBuffers
  /\ ready + held <= NumBuffers
  /\ elapsed \in 0..Timeout
  /\ hasLast \in BOOLEAN

Init ==
  /\ OwnerInit
  /\ direction \in {"capture", "playback"}
  /\ running = FALSE
  /\ lock = "free"
  /\ core = "none"
  /\ coreError = FALSE
  /\ stream = "none"
  /\ loop = "stopped"
  /\ pending = 0 /\ ready = 0 /\ held = 0
  /\ elapsed = 0
  /\ hasLast = FALSE

-----------------------------------------------------------------------------
(* The start functions, on the owner's thread.                             *)

\* create zeroes the session; its thread loop is not started yet.
Create ==
  /\ New
  /\ running' = FALSE
  /\ coreError' = FALSE
  /\ hasLast' = FALSE
  /\ UNCHANGED <<direction, lock, core, stream, loop, bufferVars, elapsed>>

UserCalls ==
  \/ Create
  \/ (CallStart \/ CallStop \/ ForgetGuard \/ CallDrop) /\ UNCHANGED sessionVars

StartRunning == running /\ Goto("cStart", "startOk") /\ UNCHANGED sessionVars

\* The timestamps restart and the thread is started, or is not.
StartLoop ==
  /\ ~running
  /\ \/ Goto("cStart", "connect") /\ loop' = "polling"
     \/ Goto("cStart", "startFailed") /\ UNCHANGED loop
  /\ hasLast' = (direction = "playback" /\ hasLast)
  /\ UNCHANGED <<direction, running, lock, core, coreError, stream,
                 bufferVars, elapsed>>

\* destroy_session_resources up to pw_thread_loop_stop, with the lock held:
\* the stream is disconnected, so the data thread stops, and the lock is
\* given back.
Disconnect(newStream) ==
  /\ stream' = IF newStream = "none" THEN "none" ELSE "unconnected"
  /\ ready' = 0
  /\ lock' = "free"
  /\ UNCHANGED <<pending, held>>

\* Mutant: core_error is not reset.
ConnectCoreKeepsError ==
  /\ lock = "free"
  /\ Goto("connect", "checkState")
  /\ lock' = "owner"
  /\ core' = "connected"
  /\ stream' = "connecting"
  /\ elapsed' = 0
  /\ UNCHANGED <<direction, running, coreError, loop, bufferVars, hasLast>>

\* Lock, reset core_error, connect the core and the stream, and enter
\* wait_for_stream_ready.
ConnectCore ==
  /\ lock = "free"
  /\ Goto("connect", "checkState")
  /\ lock' = "owner"
  /\ coreError' = FALSE
  /\ core' = "connected"
  /\ stream' = "connecting"
  /\ elapsed' = 0
  /\ UNCHANGED <<direction, running, loop, bufferVars, hasLast>>

\* An error exit before the wait: no core, no properties or no stream, a
\* stream that does not connect, or no clock.
ConnectCoreFails ==
  /\ lock = "free"
  /\ Call("connect", "join", "startFailed")
  /\ coreError' = FALSE
  /\ \/ core' = "none" /\ Disconnect("none")
     \/ core' = "connected" /\ \E s \in {"none", "unconnected"} : Disconnect(s)
  /\ UNCHANGED <<direction, running, loop, elapsed, hasLast>>

\* wait_for_stream_ready gives up.
WaitFails(from) ==
  /\ Call(from, "join", "startFailed")
  /\ Disconnect(stream)
  /\ UNCHANGED <<direction, running, core, coreError, loop, elapsed, hasLast>>

CoreFailed == coreError /\ WaitFails("checkState")

SetRunning ==
  /\ Goto("checkState", "startOk")
  /\ running' = TRUE
  /\ lock' = "free"
  /\ UNCHANGED <<direction, core, coreError, stream, loop, bufferVars,
                 elapsed, hasLast>>

StreamStarted ==
  /\ ~coreError /\ stream = "streaming"
  /\ SetRunning

\* A paused stream is activated, which may fail.
StreamActivated ==
  /\ ~coreError /\ stream = "paused"
  /\ SetRunning \/ WaitFails("checkState")

StreamFailed ==
  /\ ~coreError /\ stream \in {"error", "unconnected"}
  /\ WaitFails("checkState")

TimedOut ==
  /\ ~coreError /\ stream = "connecting" /\ elapsed = Timeout
  /\ WaitFails("checkState")

\* CLOCK_MONOTONIC cannot be read.
ClockFails ==
  /\ ~coreError /\ stream = "connecting"
  /\ WaitFails("checkState")

\* Mutant: the wait goes on when the timeout has expired.
WaitForever ==
  /\ ~coreError /\ stream = "connecting"
  /\ Goto("checkState", "blocked")
  /\ lock' = "free"
  /\ UNCHANGED <<direction, running, core, coreError, stream, loop,
                 bufferVars, elapsed, hasLast>>

\* pw_thread_loop_timed_wait gives up the lock and blocks.
TimedWait ==
  /\ ~coreError /\ stream = "connecting" /\ elapsed < Timeout
  /\ Goto("checkState", "blocked")
  /\ lock' = "free"
  /\ UNCHANGED <<direction, running, core, coreError, stream, loop,
                 bufferVars, elapsed, hasLast>>

\* The poll interval is over, or the wait wakes for no reason.
PollInterval == Goto("blocked", "woken") /\ UNCHANGED sessionVars

Relock ==
  /\ lock = "free"
  /\ Goto("woken", "checkState")
  /\ lock' = "owner"
  /\ UNCHANGED <<direction, running, core, coreError, stream, loop,
                 bufferVars, elapsed, hasLast>>

\* The wait reports an error; the lock is held again by then.
WaitErrors == lock = "free" /\ WaitFails("woken")

-----------------------------------------------------------------------------
(* stop, destroy_session_resources after the unlock, and destroy.          *)

Nothing == ~running /\ stream = "none" /\ core = "none"

\* Mutant: stop only clears the flag.
StopOnlyClearsFlag ==
  /\ Goto("cStop", ret)
  /\ running' = FALSE
  /\ UNCHANGED <<direction, lock, core, coreError, stream, loop, bufferVars,
                 elapsed, hasLast>>

\* The flag is cleared before the lock is taken.
CStop ==
  /\ Goto("cStop", IF Nothing THEN ret ELSE "lockStop")
  /\ running' = FALSE
  /\ UNCHANGED <<direction, lock, core, coreError, stream, loop, bufferVars,
                 elapsed, hasLast>>

\* Mutant: the stream is destroyed before the thread loop is stopped.
DestroyBeforeJoin ==
  /\ lock = "free"
  /\ Goto("lockStop", "join")
  /\ stream' = "none"
  /\ UNCHANGED <<direction, running, lock, core, coreError, loop, bufferVars,
                 elapsed, hasLast>>

\* Mutant: the lock is not given back before pw_thread_loop_stop.
JoinHoldingLock ==
  /\ lock = "free"
  /\ Goto("lockStop", "join")
  /\ lock' = "owner"
  /\ UNCHANGED <<direction, running, core, coreError, stream, loop, bufferVars,
                 elapsed, hasLast>>

LockStop ==
  /\ lock = "free"
  /\ Goto("lockStop", "join")
  /\ Disconnect(stream)
  /\ UNCHANGED <<direction, running, core, coreError, loop, elapsed, hasLast>>

\* Mutant: the core stays connected.
KeepCore ==
  /\ loop = "exited"
  /\ Goto("join", ret)
  /\ loop' = "stopped"
  /\ stream' = "none"
  /\ UNCHANGED <<direction, running, lock, core, coreError, bufferVars,
                 elapsed, hasLast>>

\* pw_thread_loop_stop has joined the thread; the stream and the core go.
DestroyStreamAndCore ==
  /\ loop = "exited"
  /\ Goto("join", ret)
  /\ loop' = "stopped"
  /\ stream' = "none"
  /\ core' = "none"
  /\ UNCHANGED <<direction, running, lock, coreError, bufferVars, elapsed,
                 hasLast>>

\* destroy: stop, then the context, the thread loop and the memory.
CDestroy ==
  Call("cDestroy", "cStop", "destroyContext") /\ UNCHANGED sessionVars

DestroyContext ==
  Goto("destroyContext", "freed") /\ UNCHANGED sessionVars

-----------------------------------------------------------------------------
(* The thread loop, the data thread and the server.                        *)

\* pw_thread_loop_signal wakes the owner if it is waiting now.
Signal ==
  /\ pc' = IF pc = "blocked" THEN "woken" ELSE pc
  /\ UNCHANGED <<handle, guard, rustRunning, op, ret>>

\* The thread returns from poll and takes the lock to dispatch.
Dispatching == loop = "polling" /\ lock = "free"

\* session_core_error: the connection, or an object of it, reports an error;
\* the stream may fail with it.
session_core_error ==
  /\ Dispatching /\ core # "none"
  /\ core' = "errored"
  /\ coreError' = TRUE
  /\ stream' \in IF stream \in {"none", "unconnected"} THEN {stream}
                 ELSE {stream, "error"}
  /\ Signal
  /\ UNCHANGED <<direction, running, lock, loop, bufferVars, elapsed, hasLast>>

\* on_stream_state_changed: the stream of a live connection is negotiated,
\* starts, is suspended, loses its node, or fails.
on_stream_state_changed ==
  /\ Dispatching
  /\ \/ stream \in {"connecting", "streaming"} /\ stream' = "paused"
     \/ stream = "paused" /\ stream' = "streaming"
     \/ stream \in {"connecting", "paused", "streaming"}
        /\ stream' \in {"error", "unconnected"}
  /\ Signal
  /\ UNCHANGED <<direction, running, lock, core, coreError, loop, bufferVars,
                 elapsed, hasLast>>

\* One cycle of the data thread: a buffer arrives, if the server has one,
\* and a process invoke is queued.
DataCycle ==
  /\ stream = "streaming" /\ pending < MaxPending
  /\ pending' = pending + 1
  /\ ready' = IF ready + held < NumBuffers THEN ready + 1 ELSE ready
  /\ UNCHANGED <<ownerVars, direction, running, lock, core, coreError, stream,
                 loop, held, elapsed, hasLast>>

\* A capture process callback gives up before it dequeues if the session is
\* not running; both directions give up if there is nothing to dequeue.
ProcessNothing ==
  /\ Dispatching /\ pending > 0
  /\ ready = 0 \/ (direction = "capture" /\ ~running)
  /\ pending' = pending - 1
  /\ UNCHANGED <<ownerVars, direction, running, lock, core, coreError, stream,
                 loop, ready, held, elapsed, hasLast>>

ProcessDequeues ==
  /\ Dispatching /\ pending > 0 /\ ready > 0
  /\ direction = "capture" => running
  /\ pending' = pending - 1
  /\ ready' = ready - 1
  /\ held' = held + 1
  /\ loop' = "process"
  /\ lock' = "loop"
  /\ UNCHANGED <<ownerVars, direction, running, core, coreError, stream,
                 elapsed, hasLast>>

\* Mutant: the early exit does not queue the buffer again.
ProcessKeepsBuffer ==
  /\ loop = "process"
  /\ loop' = "polling"
  /\ lock' = "free"
  /\ UNCHANGED <<ownerVars, direction, running, core, coreError, stream,
                 pending, ready, held, elapsed, hasLast>>

\* The buffer has no data or no whole frame, or it is for playback and the
\* session is not running any more: it is queued without a callback.
ProcessRequeues ==
  /\ loop = "process"
  /\ held' = held - 1
  /\ loop' = "polling"
  /\ lock' = "free"
  /\ UNCHANGED <<ownerVars, direction, running, core, coreError, stream,
                 pending, ready, elapsed, hasLast>>

\* The user callback begins.  Playback looks at running after the dequeue,
\* capture has looked before it.
ProcessCallsUser ==
  /\ loop = "process"
  /\ direction = "playback" => running
  /\ loop' = "user"
  /\ hasLast' = (direction = "capture" \/ hasLast)
  /\ UNCHANGED <<ownerVars, direction, running, lock, core, coreError, stream,
                 bufferVars, elapsed>>

\* The user callback returns and the buffer is queued.
UserReturns ==
  /\ loop = "user"
  /\ held' = held - 1
  /\ loop' = "polling"
  /\ lock' = "free"
  /\ UNCHANGED <<ownerVars, direction, running, core, coreError, stream,
                 pending, ready, elapsed, hasLast>>

\* The stop request of pw_thread_loop_stop is an invoke too: the thread gets
\* to it after the invokes queued before it.
LoopExit ==
  /\ pc = "join" /\ Dispatching /\ pending = 0
  /\ loop' = "exited"
  /\ UNCHANGED <<ownerVars, direction, running, lock, core, coreError, stream,
                 bufferVars, elapsed, hasLast>>

\* CLOCK_MONOTONIC advances while the owner waits.
Tick ==
  /\ pc \in {"checkState", "blocked", "woken"} /\ elapsed < Timeout
  /\ elapsed' = elapsed + 1
  /\ UNCHANGED <<ownerVars, direction, running, lock, core, coreError, stream,
                 loop, bufferVars, hasLast>>

-----------------------------------------------------------------------------
Starting ==
  \/ StartRunning \/ StartLoop \/ ConnectCore \/ ConnectCoreFails
  \/ CoreFailed \/ StreamStarted \/ StreamActivated \/ StreamFailed
  \/ TimedOut \/ ClockFails \/ TimedWait \/ PollInterval \/ Relock \/ WaitErrors

Stopping ==
  CStop \/ LockStop \/ DestroyStreamAndCore \/ CDestroy \/ DestroyContext

Owner == Starting \/ Stopping \/ (OwnerReturn /\ UNCHANGED sessionVars)

Server == session_core_error \/ on_stream_state_changed \/ DataCycle

\* What the thread of the thread loop does with the invokes it has.
Loop ==
  \/ ProcessNothing \/ ProcessDequeues \/ ProcessRequeues \/ ProcessCallsUser
  \/ UserReturns \/ LoopExit

Next == UserCalls \/ Owner \/ Server \/ Loop \/ Tick

Spec == Init /\ [][Next]_vars

(* The threads are scheduled, user callbacks return, the clock advances,   *)
(* and the owner gets a lock that is given up around every poll.  Nothing  *)
(* is assumed of the server or of the user's calls.                        *)
Fairness ==
  /\ WF_vars(Owner)
  /\ WF_vars(Loop)
  /\ WF_vars(Tick)
  /\ SF_vars(ConnectCore \/ ConnectCoreFails)
  /\ SF_vars(Relock \/ WaitErrors)
  /\ SF_vars(LockStop)

FairSpec == Spec /\ Fairness

-----------------------------------------------------------------------------
\* A stopped session, after a failed start too, has no thread, connection,
\* stream or lock left, no invoke waiting for a thread, and no buffer.
StoppedMeansReleased ==
  (op = "none" /\ ~rustRunning) =>
    /\ ~running
    /\ lock = "free"
    /\ core = "none" /\ stream = "none" /\ loop = "stopped"
    /\ pending = 0 /\ held = 0

\* A queued or executing process callback finds the stream it dereferences
\* (the order destroy_session_resources insists on).
NoInvokeAfterDestroy ==
  (pending > 0 \/ loop \in {"process", "user"}) =>
    handle = "alive" /\ stream # "none" /\ loop # "stopped"

\* Every dequeued buffer goes back to the stream before the process callback
\* returns, whatever exit it takes: the stream never runs out of buffers.
NoBufferLeak == held = IF loop \in {"process", "user"} THEN 1 ELSE 0

\* A start fails for an error of its own connection only.
NoStaleCoreError ==
  (coreError /\ pc \in {"checkState", "blocked", "woken"}) => core = "errored"

\* start returns whatever the server does: the timeout bounds the wait.
StartReturns == op = "start" ~> op = "none"

\* stop and drop return once the user callback in progress returns.
StopReturns == op \in {"stop", "drop"} ~> op = "none"

Contract == INSTANCE SessionContract
  WITH phase <- Phase, callbacks <- IF loop = "user" THEN 1 ELSE 0

\* The backend keeps the contract of audio.h.
ImplementsContract == Contract!Spec

=============================================================================
