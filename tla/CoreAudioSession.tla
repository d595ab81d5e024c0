-------------------------- MODULE CoreAudioSession --------------------------
(***************************************************************************)
(* One session of the CoreAudio backend (audio_coreaudio.m) under its Rust *)
(* owner.                                                                  *)
(*                                                                         *)
(* create makes an AudioQueue and its three buffers; they live until       *)
(* destroy.  start hands the buffers to the queue one by one and starts    *)
(* it; the thread of the queue then passes each buffer to the callback,    *)
(* which hands it back.  There is no lock: the atomic running flag and the *)
(* synchronous AudioQueueStop are all that orders stop and callbacks.      *)
(***************************************************************************)
EXTENDS FfiOwner

CONSTANT NumBuffers   \* buffers of a session

ASSUME NumBuffersAssumption == NumBuffers \in Nat \ {0}

Buffers == 1..NumBuffers

VARIABLES
  direction,  \* a capture or a playback session
  running,    \* AudioSession::running, the atomic flag
  queue,      \* state of the AudioQueue
  where,      \* for each buffer: with the session, in the queue, or in use
  next,       \* the buffer that start enqueues next
  callback,   \* where the thread of the queue is inside the C callback
  lost        \* history: buffers whose re-enqueue was refused since the start

sessionVars == <<direction, running, queue, where, next, callback, lost>>
vars        == <<ownerVars, sessionVars>>

Positions ==
  OwnerPositions \union {"enqueue", "audioQueueStop", "dispose"}

TypeOK ==
  /\ OwnerTypeOK(Positions)
  /\ direction \in {"capture", "playback"}
  /\ running \in BOOLEAN
  /\ queue \in {"none", "stopped", "started"}
  /\ where \in [Buffers -> {"session", "queue", "callback"}]
  /\ next \in 1..(NumBuffers + 1)
  /\ callback \in {"none", "entered", "user", "returned", "enqueue"}
  /\ lost \subseteq Buffers

Init ==
  /\ OwnerInit
  /\ direction \in {"capture", "playback"}
  /\ running = FALSE
  /\ queue = "none"
  /\ where = [b \in Buffers |-> "session"]
  /\ next = 1
  /\ callback = "none"
  /\ lost = {}

-----------------------------------------------------------------------------
(* The functions of the session, on the owner's thread.                    *)

\* create: the queue and its buffers.
Create ==
  /\ New
  /\ running' = FALSE
  /\ queue' = "stopped"
  /\ where' = [b \in Buffers |-> "session"]
  /\ UNCHANGED <<direction, next, callback, lost>>

UserCalls ==
  \/ Create
  \/ (CallStart \/ CallStop \/ ForgetGuard \/ CallDrop) /\ UNCHANGED sessionVars

StartRunning == running /\ Goto("cStart", "startOk") /\ UNCHANGED sessionVars

\* The flag is set before the queue has any buffer.
BeginEnqueue ==
  /\ ~running
  /\ Goto("cStart", "enqueue")
  /\ running' = TRUE
  /\ next' = 1
  /\ lost' = {}
  /\ UNCHANGED <<direction, queue, where, callback>>

\* An error exit of start: only the flag is taken back.
Fail ==
  /\ Goto("enqueue", "startFailed")
  /\ running' = FALSE
  /\ UNCHANGED <<direction, queue, where, next, callback, lost>>

\* AudioQueueEnqueueBuffer refuses a buffer that an input queue has already.
Refused == direction = "capture" /\ where[next] = "queue"

EnqueueNext ==
  /\ next <= NumBuffers /\ ~Refused
  /\ pc = "enqueue"
  /\ where' = [where EXCEPT ![next] = "queue"]
  /\ next' = next + 1
  /\ UNCHANGED <<ownerVars, direction, running, queue, callback, lost>>

\* The enqueue fails, because of the queue or because of the system.
EnqueueFails == next <= NumBuffers /\ Fail

StartQueue ==
  /\ next > NumBuffers
  /\ Goto("enqueue", "startOk")
  /\ queue' = "started"
  /\ UNCHANGED <<direction, running, where, next, callback, lost>>

\* AudioQueueStart fails: no permission, or the hardware is not ready.
StartQueueFails == next > NumBuffers /\ Fail

\* Mutant: stop does not stop the queue.
StopOnlyClearsFlag ==
  /\ Goto("cStop", ret)
  /\ running' = FALSE
  /\ UNCHANGED <<direction, queue, where, next, callback, lost>>

\* stop clears the flag before it stops the queue.
CStop ==
  /\ Goto("cStop", IF running THEN "audioQueueStop" ELSE ret)
  /\ running' = FALSE
  /\ UNCHANGED <<direction, queue, where, next, callback, lost>>

\* Mutant: an asynchronous AudioQueueStop returns at once.
StopAsynchronously ==
  /\ Goto("audioQueueStop", ret)
  /\ queue' = "stopped"
  /\ UNCHANGED <<direction, running, where, next, callback, lost>>

\* AudioQueueStop returns: it has waited for the callback in progress and
\* has given all buffers back.
AudioQueueStop ==
  /\ callback = "none"
  /\ Goto("audioQueueStop", ret)
  /\ queue' = "stopped"
  /\ where' = [b \in Buffers |-> "session"]
  /\ UNCHANGED <<direction, running, next, callback, lost>>

\* destroy stops a session whose flag is set.
CDestroy ==
  /\ IF running THEN Call("cDestroy", "cStop", "dispose")
                ELSE Goto("cDestroy", "dispose")
  /\ UNCHANGED sessionVars

\* AudioQueueDispose frees the queue with its buffers.
Dispose ==
  /\ callback = "none"
  /\ Goto("dispose", "freed")
  /\ queue' = "none"
  /\ UNCHANGED <<direction, running, where, next, callback, lost>>

-----------------------------------------------------------------------------
(* audio_input_callback and audio_output_callback, on the thread of the    *)
(* queue.                                                                  *)

Busy(b) == where[b] = "callback"

\* The queue has filled or played the buffer and calls the session.
Enter(b) ==
  /\ queue = "started" /\ callback = "none" /\ where[b] = "queue"
  /\ where' = [where EXCEPT ![b] = "callback"]
  /\ callback' = "entered"
  /\ UNCHANGED <<ownerVars, direction, running, queue, next, lost>>

CallbackGoes(from, to) ==
  /\ callback = from
  /\ callback' = to
  /\ UNCHANGED <<ownerVars, direction, running, queue, where, next, lost>>

\* Input calls the user whatever the flag says, output only if it is set.
CallUser ==
  /\ direction = "playback" => running
  /\ CallbackGoes("entered", "user")

\* Input without packets goes on to the enqueue.
NoPackets == direction = "capture" /\ CallbackGoes("entered", "returned")

\* The callback ends and leaves its buffer with the session.
LeaveBuffer(b) ==
  /\ Busy(b)
  /\ where' = [where EXCEPT ![b] = "session"]
  /\ callback' = "none"
  /\ UNCHANGED <<ownerVars, direction, running, queue, next, lost>>

\* Mutant: a stopped output plays silence instead of giving the buffer up.
OutputPlaysSilence ==
  direction = "playback" /\ ~running /\ CallbackGoes("entered", "enqueue")

\* Output that is not running keeps its buffer out of the queue.
OutputGivesUp ==
  /\ direction = "playback" /\ ~running /\ callback = "entered"
  /\ \E b \in Buffers : LeaveBuffer(b)

UserReturns ==
  CallbackGoes("user", IF direction = "capture" THEN "returned" ELSE "enqueue")

\* Input looks at the flag again before it enqueues.
InputStillRunning == running /\ CallbackGoes("returned", "enqueue")

\* Mutant: input never enqueues its buffer again.
InputNeverEnqueues ==
  callback = "returned" /\ \E b \in Buffers : LeaveBuffer(b)

InputGivesUp ==
  /\ ~running /\ callback = "returned"
  /\ \E b \in Buffers : LeaveBuffer(b)

\* The callback gives its buffer back to the queue and returns.
Enqueue ==
  /\ callback = "enqueue"
  /\ \E b \in Buffers :
       Busy(b) /\ where' = [where EXCEPT ![b] = "queue"]
  /\ callback' = "none"
  /\ UNCHANGED <<ownerVars, direction, running, queue, next, lost>>

\* The queue refuses it, for a reason of the system.  The callback ignores
\* the status: the buffer stays out of the ring and nobody is told.
EnqueueRefused ==
  /\ callback = "enqueue"
  /\ \E b \in Buffers :
       /\ Busy(b)
       /\ where' = [where EXCEPT ![b] = "session"]
       /\ lost' = lost \union {b}
  /\ callback' = "none"
  /\ UNCHANGED <<ownerVars, direction, running, queue, next>>

-----------------------------------------------------------------------------
Owner ==
  \/ StartRunning \/ BeginEnqueue \/ EnqueueNext \/ EnqueueFails
  \/ StartQueue \/ StartQueueFails
  \/ CStop \/ AudioQueueStop \/ CDestroy \/ Dispose
  \/ (OwnerReturn /\ UNCHANGED sessionVars)

Callback ==
  \/ CallUser \/ NoPackets \/ OutputGivesUp \/ UserReturns
  \/ InputStillRunning \/ InputGivesUp
  \/ Enqueue \/ EnqueueRefused

Next == UserCalls \/ Owner \/ Callback \/ (\E b \in Buffers : Enter(b))

Spec == Init /\ [][Next]_vars

(* Both threads are scheduled and user callbacks return.  The owner needs  *)
(* no strong fairness: with the flag cleared the queue runs out of buffers *)
(* and the callbacks end by themselves.                                    *)
FairSpec == Spec /\ WF_vars(Owner) /\ WF_vars(Callback)

-----------------------------------------------------------------------------
\* While the session runs, the buffers out of the ring are exactly those whose
\* re-enqueue was refused since it was started: no path of the callbacks drops
\* another one, and a start takes back those that an earlier run has lost.
OnlyRefusedLeaveRing ==
  (running /\ queue = "started") =>
    \A b \in Buffers : where[b] = "session" <=> b \in lost

\* A callback in progress has exactly one buffer, and what it uses exists.
CallbackOwnsBuffer ==
  /\ callback # "none" =>
       /\ handle = "alive" /\ queue = "started"
       /\ \E b \in Buffers : Busy(b)
  /\ \A b, c \in Buffers : Busy(b) /\ Busy(c) => b = c

\* After a stop the queue is empty and stopped: the next start may enqueue
\* every buffer again.
StopDrains ==
  pc \in {"stopped", "dropStopped"} =>
    /\ queue = "stopped" /\ ~running /\ callback = "none"
    /\ \A b \in Buffers : where[b] = "session"

\* stop and drop return: after the flag is cleared the callbacks run dry.
StopReturns == op \in {"stop", "drop"} ~> op = "none"

Contract == INSTANCE SessionContract
  WITH phase <- Phase, callbacks <- IF callback = "user" THEN 1 ELSE 0

\* The backend keeps the phases and callbacks of the contract of audio.h.
ImplementsContract == Contract!Spec

\* "If stopped, it starts" (audio.h:67), be it after a failed start: start is
\* refused by the system or not at all, never because of the buffers that an
\* earlier start has left in the queue.
StoppedCanStart == (pc = "enqueue" /\ next <= NumBuffers) => ~Refused

=============================================================================
