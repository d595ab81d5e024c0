---------------------------- MODULE WasapiSession ----------------------------
(***************************************************************************)
(* One session of the WASAPI backend (capture_wasapi.rs and                *)
(* playback_wasapi.rs), written in Rust without a C layer.                 *)
(*                                                                         *)
(* A worker thread exists between a start and the matching stop.  The      *)
(* device and stop signal it through one auto-reset event; it also wakes   *)
(* by a timeout.  stop clears the atomic running flag, signals the event   *)
(* and joins the thread.  The client is started before the thread and      *)
(* stopped after it.                                                       *)
(***************************************************************************)
EXTENDS Naturals

CONSTANT MaxPackets   \* bound on the packets (free periods) in the client

ASSUME MaxPacketsAssumption == MaxPackets \in Nat \ {0}

VARIABLES
  handle,     \* the Rust object, which owns client, event and context
  guard,      \* a session guard is alive and borrows the object
  op,         \* the public operation in progress
  pc,         \* where the owner is
  direction,  \* a capture or a playback session
  running,    \* the flag shared with the worker
  client,     \* state of the IAudioClient
  event,      \* the event is signalled
  packets,    \* packets to capture, or periods to render
  held,       \* a buffer of the client is held: GetBuffer, no ReleaseBuffer
  thread      \* the worker, "none" without a JoinHandle

ownerVars  == <<handle, guard, op, pc, direction>>
clientVars == <<client, event, packets, held>>
vars       == <<ownerVars, running, clientVars, thread>>

Positions ==
  {"idle", "startClient", "spawn", "stop", "setEvent", "join", "stopClient",
   "close"}

Threads ==
  {"none", "top", "waiting", "woken", "packets", "buffer", "user", "exited"}

TypeOK ==
  /\ handle \in {"none", "alive"}
  /\ guard \in BOOLEAN
  /\ op \in {"none", "start", "stop", "drop"}
  /\ pc \in Positions
  /\ direction \in {"capture", "playback"}
  /\ running \in BOOLEAN
  /\ client \in {"none", "stopped", "started"}
  /\ event \in BOOLEAN
  /\ packets \in 0..MaxPackets
  /\ held \in BOOLEAN
  /\ thread \in Threads

Init ==
  /\ handle = "none" /\ guard = FALSE /\ op = "none" /\ pc = "idle"
  /\ direction \in {"capture", "playback"}
  /\ running = FALSE
  /\ client = "none" /\ event = FALSE /\ packets = 0 /\ held = FALSE
  /\ thread = "none"

-----------------------------------------------------------------------------
(* new, start, stop and drop, on the owner's thread.                       *)

Create ==
  /\ handle = "none"
  /\ handle' = "alive"
  /\ running' = FALSE
  /\ client' = "stopped" /\ event' = FALSE /\ packets' = 0 /\ held' = FALSE
  /\ UNCHANGED <<guard, op, pc, direction, thread>>

Call(operation, to) ==
  /\ handle = "alive" /\ op = "none"
  /\ op' = operation
  /\ pc' = to
  /\ UNCHANGED <<handle, guard, direction, running, clientVars, thread>>

\* start does not look at the flag: after a forgotten guard it reaches the
\* client of a running session.
CallStart == ~guard /\ Call("start", "startClient")
CallStop  == guard  /\ Call("stop", "stop")
CallDrop  == ~guard /\ Call("drop", "stop")

\* mem::forget of the guard ends the borrow and stops nothing.
ForgetGuard ==
  /\ op = "none" /\ guard
  /\ guard' = FALSE
  /\ UNCHANGED <<handle, op, pc, direction, running, clientVars, thread>>

UserCalls == Create \/ CallStart \/ CallStop \/ CallDrop \/ ForgetGuard

\* The owner goes on to another position.
Goto(from, to) ==
  /\ pc = from
  /\ pc' = to
  /\ UNCHANGED <<handle, guard, op, direction>>

\* The operation returns, with a guard or without.
Return(from, newGuard) ==
  /\ pc = from
  /\ pc' = "idle"
  /\ op' = "none"
  /\ guard' = newGuard
  /\ UNCHANGED <<handle, direction>>

\* IAudioClient::Start succeeds on a stopped client only; the flag is set
\* for the thread to come.
StartClient ==
  /\ client = "stopped"
  /\ Goto("startClient", "spawn")
  /\ client' = "started"
  /\ running' = TRUE
  /\ UNCHANGED <<event, packets, held, thread>>

StartClientFails ==
  Return("startClient", FALSE) /\ UNCHANGED <<running, clientVars, thread>>

Spawn ==
  /\ Return("spawn", TRUE)
  /\ thread' = "top"
  /\ UNCHANGED <<running, clientVars>>

\* Mutant: a failed spawn leaves the client started.
SpawnFailsOnly ==
  /\ Return("spawn", FALSE)
  /\ running' = FALSE
  /\ UNCHANGED <<clientVars, thread>>

SpawnFails ==
  /\ Return("spawn", FALSE)
  /\ running' = FALSE
  /\ client' = "stopped"
  /\ UNCHANGED <<event, packets, held, thread>>

\* stop on a session whose flag is not set.
StopNothing ==
  /\ ~running
  /\ IF op = "stop" THEN Return("stop", FALSE) ELSE Goto("stop", "close")
  /\ UNCHANGED <<running, clientVars, thread>>

ClearRunning ==
  /\ running
  /\ Goto("stop", "setEvent")
  /\ running' = FALSE
  /\ UNCHANGED <<clientVars, thread>>

\* Mutant: the event is not signalled.
SetNoEvent ==
  Goto("setEvent", "join") /\ UNCHANGED <<running, clientVars, thread>>

SetEvent ==
  /\ Goto("setEvent", "join")
  /\ event' = TRUE
  /\ UNCHANGED <<running, client, packets, held, thread>>

\* Mutant: stop detaches the thread.
Detach ==
  /\ Goto("join", "stopClient")
  /\ thread' = IF thread = "exited" THEN "none" ELSE thread
  /\ UNCHANGED <<running, clientVars>>

\* The thread has ended, by itself or by a panic of the user callback.
Join ==
  /\ thread = "exited"
  /\ Goto("join", "stopClient")
  /\ thread' = "none"
  /\ UNCHANGED <<running, clientVars>>

\* IAudioClient::Stop without a Reset: packets and event stay as they are.
StopClient ==
  /\ IF op = "stop" THEN Return("stopClient", FALSE)
                    ELSE Goto("stopClient", "close")
  /\ client' = "stopped"
  /\ UNCHANGED <<running, event, packets, held, thread>>

\* The drop closes the event and releases the client and the context.
Close ==
  /\ pc = "close"
  /\ pc' = "idle" /\ op' = "none"
  /\ handle' = "none" /\ client' = "none"
  /\ UNCHANGED <<guard, direction, running, event, packets, held, thread>>

-----------------------------------------------------------------------------
(* capture_thread_func and playback_thread_func.                           *)

ThreadGoes(from, to) ==
  /\ thread = from
  /\ thread' = to
  /\ UNCHANGED <<ownerVars, running, client, event>>

\* The while condition, and the check after the wait.
Look(from, to) ==
  /\ ThreadGoes(from, IF running THEN to ELSE "exited")
  /\ UNCHANGED <<packets, held>>

LoopCondition == Look("top", "waiting")

\* The auto-reset event releases one wait.
WaitEvent ==
  /\ thread = "waiting" /\ event
  /\ thread' = "woken"
  /\ event' = FALSE
  /\ UNCHANGED <<ownerVars, running, client, packets, held>>

\* The 10 ms are over.
WaitTimeout == ThreadGoes("waiting", "woken") /\ UNCHANGED <<packets, held>>

\* A failed wait goes back to the loop condition.
WaitFails == ThreadGoes("waiting", "top") /\ UNCHANGED <<packets, held>>

Woken == Look("woken", "packets")

\* Nothing to do, the flag is cleared (capture looks before each packet), or
\* a call to the client fails.
EndOfPackets == ThreadGoes("packets", "top") /\ UNCHANGED <<packets, held>>

\* GetBuffer fails on a client whose last buffer was never released.
GetBuffer ==
  /\ packets > 0 /\ ~held
  /\ direction = "capture" => running
  /\ ThreadGoes("packets", "buffer")
  /\ held' = TRUE
  /\ UNCHANGED packets

\* Mutant: a silent packet is skipped and its buffer kept.
SkipAndKeep ==
  /\ direction = "capture"
  /\ ThreadGoes("buffer", "packets")
  /\ UNCHANGED <<packets, held>>

Release(from, to) ==
  /\ ThreadGoes(from, to)
  /\ packets' = packets - 1
  /\ held' = FALSE

\* A silent or empty packet: released without a callback.
SkipPacket == direction = "capture" /\ Release("buffer", "packets")

CallUser == ThreadGoes("buffer", "user") /\ UNCHANGED <<packets, held>>

\* Capture goes on to the next packet, playback to the next wait.
UserReturns ==
  Release("user", IF direction = "capture" THEN "packets" ELSE "top")

\* A panic of the user callback ends the thread with the buffer held.
UserPanics == ThreadGoes("user", "exited") /\ UNCHANGED <<packets, held>>

\* The engine has recorded or played a period and signals the event.
Period ==
  /\ client = "started" /\ packets < MaxPackets
  /\ packets' = packets + 1
  /\ event' = TRUE
  /\ UNCHANGED <<ownerVars, running, client, held, thread>>

-----------------------------------------------------------------------------
Owner ==
  \/ StartClient \/ StartClientFails \/ Spawn \/ SpawnFails
  \/ StopNothing \/ ClearRunning \/ SetEvent \/ Join \/ StopClient \/ Close

\* What the thread does without waiting.
Worker ==
  \/ LoopCondition \/ WaitEvent \/ Woken \/ EndOfPackets \/ GetBuffer
  \/ SkipPacket \/ CallUser \/ UserReturns \/ UserPanics

Next ==
  UserCalls \/ Owner \/ Worker \/ WaitTimeout \/ WaitFails \/ Period

Spec == Init /\ [][Next]_vars

(* Both threads are scheduled and user callbacks return or panic.  The     *)
(* timeout of the wait, its failures and the engine get no fairness.       *)
FairSpec == Spec /\ WF_vars(Owner) /\ WF_vars(Worker)

-----------------------------------------------------------------------------
\* Between two operations the flag, the client and the thread agree: all
\* three are there, or none is, after failed starts and panics too.
FlagTellsTheTruth ==
  op = "none" =>
    /\ running <=> client = "started"
    /\ running <=> thread # "none"

\* The worker uses the client, the event and the context while they exist.
NoUseAfterClose ==
  thread \notin {"none", "exited"} => handle = "alive" /\ client = "started"

\* Every way out of a packet releases its buffer (a panic, which ends the
\* thread instead, leaves it held, and then no later worker gets a buffer).
NoBufferLeak ==
  [][(thread \in {"buffer", "user"} /\ thread' \in {"packets", "top"})
        => ~held']_vars

\* stop and drop return, woken by the event alone: the timeout is not needed.
StopReturns == op \in {"stop", "drop"} ~> op = "none"

\* The session as its owner sees it (the phases of SessionContract).
Phase ==
  CASE handle = "none"                                 -> "none"
    [] pc \in {"setEvent", "join", "stopClient"}       -> "stopping"
    [] pc = "stop" /\ running                          -> "stopping"
    [] pc = "spawn" \/ (pc = "startClient" /\ ~running) -> "starting"
    [] running                                         -> "running"
    [] OTHER                                           -> "stopped"

Contract == INSTANCE SessionContract
  WITH phase <- Phase, callbacks <- IF thread = "user" THEN 1 ELSE 0

\* The backend keeps the phases and callbacks of the contract of audio.h.
ImplementsContract == Contract!Spec

=============================================================================
