------------------------------ MODULE FfiOwner ------------------------------
(***************************************************************************)
(* The Rust owner of a C session, the same for every C backend:            *)
(* FfiCaptureImpl and FfiPlaybackImpl, and above them the public types     *)
(* with their session guards.                                              *)
(*                                                                         *)
(* The owner executes one public operation at a time, whatever thread it   *)
(* is on: start, stop and drop borrow the object mutably.  pc says where   *)
(* it is; the module of a backend takes over at "cStart", "cStop" and      *)
(* "cDestroy", the entries of the C functions, and hands back at           *)
(* "startOk", "startFailed", ret and "freed".                              *)
(***************************************************************************)
EXTENDS Naturals

VARIABLES
  handle,       \* the Rust object and the C session it owns
  guard,        \* a session guard is alive and borrows the object
  rustRunning,  \* FfiCaptureImpl::running, separate from the C flag
  op,           \* the public operation in progress
  pc,           \* where the owner is
  ret           \* where the C function in progress returns to

ownerVars == <<handle, guard, rustRunning, op, pc, ret>>

OwnerPositions ==
  {"idle", "cStart", "startOk", "startFailed", "cStop", "stopped",
   "dropStopped", "cDestroy", "freed"}

OwnerTypeOK(positions) ==
  /\ handle \in {"none", "alive"}
  /\ guard \in BOOLEAN
  /\ rustRunning \in BOOLEAN
  /\ op \in {"none", "start", "stop", "drop"}
  /\ pc \in positions
  /\ ret \in positions

OwnerInit ==
  /\ handle = "none"
  /\ guard = FALSE
  /\ rustRunning = FALSE
  /\ op = "none"
  /\ pc = "idle"
  /\ ret = "stopped"

\* A step of the owner that moves it and nothing else of it.
Goto(from, to) ==
  /\ pc = from
  /\ pc' = to
  /\ UNCHANGED <<handle, guard, rustRunning, op, ret>>

\* A call of another C function, which returns to the position back.
Call(from, to, back) ==
  /\ pc = from
  /\ pc' = to
  /\ ret' = back
  /\ UNCHANGED <<handle, guard, rustRunning, op>>

\* No operation is in progress and nothing borrows the object.
Unborrowed == handle = "alive" /\ op = "none" /\ ~guard

\* new: the C session is created, or nothing is.
New ==
  /\ handle = "none"
  /\ handle' = "alive"
  /\ UNCHANGED <<guard, rustRunning, op, pc, ret>>

\* AudioCapture::start.  It does not look at rustRunning: after a forgotten
\* guard it calls the C start of a running session.
CallStart ==
  /\ Unborrowed
  /\ op' = "start"
  /\ pc' = "cStart"
  /\ UNCHANGED <<handle, guard, rustRunning, ret>>

\* AudioCaptureSession::stop, or the drop of the guard.
CallStop ==
  /\ op = "none" /\ guard
  /\ op' = "stop"
  /\ pc' = IF rustRunning THEN "cStop" ELSE "stopped"
  /\ ret' = "stopped"
  /\ UNCHANGED <<handle, guard, rustRunning>>

\* mem::forget of the guard ends the borrow and stops nothing.
ForgetGuard ==
  /\ op = "none" /\ guard
  /\ guard' = FALSE
  /\ UNCHANGED <<handle, rustRunning, op, pc, ret>>

\* The drop of the object.
CallDrop ==
  /\ Unborrowed
  /\ op' = "drop"
  /\ pc' = IF rustRunning THEN "cStop" ELSE "cDestroy"
  /\ ret' = "dropStopped"
  /\ UNCHANGED <<handle, guard, rustRunning>>

\* The operation is over.
Return(from, newHandle, newGuard, newRunning) ==
  /\ pc = from
  /\ pc' = "idle"
  /\ op' = "none"
  /\ handle' = newHandle
  /\ guard' = newGuard
  /\ rustRunning' = newRunning
  /\ UNCHANGED ret

StartOk     == Return("startOk", handle, TRUE, TRUE)
StartFailed == Return("startFailed", handle, guard, rustRunning)

\* The C result of stop is discarded.
Stopped == Return("stopped", handle, FALSE, FALSE)

\* Drop goes on from its stop to the destruction of the C session.
DropStopped ==
  /\ pc = "dropStopped"
  /\ rustRunning' = FALSE
  /\ pc' = "cDestroy"
  /\ UNCHANGED <<handle, guard, op, ret>>

\* The C session is freed, and after it the Box of the callback context.
Dropped == Return("freed", "none", guard, rustRunning)

OwnerReturn == StartOk \/ StartFailed \/ Stopped \/ DropStopped \/ Dropped

\* The session as its owner sees it (the phases of SessionContract).
Phase ==
  CASE handle = "none"                        -> "none"
    [] rustRunning /\ op \in {"stop", "drop"} -> "stopping"
    [] rustRunning                            -> "running"
    [] op = "start"                           -> "starting"
    [] OTHER                                  -> "stopped"

=============================================================================
