--------------------------- MODULE SessionContract ---------------------------
(***************************************************************************)
(* What every backend promises its user: the common specification of the   *)
(* session API in audio.h, seen through the public Rust types              *)
(* (AudioCapture / AudioPlayback and their session guards).                *)
(*                                                                         *)
(* A session is created stopped, start either fails and leaves it stopped  *)
(* or runs it, stop waits for the running user callback.  The user         *)
(* callback runs on a backend thread, one call at a time, and never while  *)
(* the session is stopped or gone.                                         *)
(***************************************************************************)
EXTENDS Naturals

VARIABLES
  phase,      \* where the session is in its life, as its owner sees it
  callbacks   \* how many user callbacks are executing now

contractVars == <<phase, callbacks>>

Phases == {"none", "stopped", "starting", "running", "stopping"}

\* Phases in which the backend may call the user.
Active == {"starting", "running", "stopping"}

Init ==
  /\ phase = "none"
  /\ callbacks = 0

\* The backend is silent: no user callback is in progress.
Silent == callbacks = 0

\* The owner moves the session from one phase to the next.
Move(from, to) ==
  /\ phase = from
  /\ phase' = to
  /\ UNCHANGED callbacks

Create      == Move("none", "stopped")
BeginStart  == Move("stopped", "starting")
StartOk     == Move("starting", "running")
StartFailed == Silent /\ Move("starting", "stopped")
BeginStop   == Move("running", "stopping")
StopDone    == Silent /\ Move("stopping", "stopped")
Destroy     == Move("stopped", "none")

EnterCallback ==
  /\ phase \in Active
  /\ Silent
  /\ callbacks' = 1
  /\ UNCHANGED phase

LeaveCallback ==
  /\ callbacks = 1
  /\ callbacks' = 0
  /\ UNCHANGED phase

Next ==
  \/ Create \/ BeginStart \/ StartOk \/ StartFailed
  \/ BeginStop \/ StopDone \/ Destroy
  \/ EnterCallback \/ LeaveCallback

Spec == Init /\ [][Next]_contractVars

\* No user callback executes in a session that is stopped or destroyed, and
\* calls are serial (audio.h, stop and callback clauses).
SilentWhenStopped ==
  /\ phase \in Phases
  /\ callbacks \in {0, 1}
  /\ phase \notin Active => Silent

=============================================================================
