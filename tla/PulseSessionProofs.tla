------------------------- MODULE PulseSessionProofs -------------------------
(***************************************************************************)
(* Proofs about the PulseAudio session, for every bound MaxPackets: its    *)
(* types, its safety invariants, and that it keeps the contract of         *)
(* audio.h.  All follow from one inductive invariant, IInv, which says for *)
(* every position of the owner what the two threads have built so far.     *)
(***************************************************************************)
EXTENDS PulseSession, TLAPS

\* The dispatch of a capture callback has a packet in hand.
PacketInv == (loop = "user" /\ direction = "capture") => queue > 0

\* No thread, no server object and no running flag.
Released ==
  /\ ~running
  /\ context = "none" /\ stream = "none" /\ loop = "none"

\* start has succeeded and no stop has begun to take it back.
Connected ==
  /\ running
  /\ context \in {"ready", "failed"} /\ stream \in {"ready", "failed"}
  /\ loop \in {"polling", "read", "user"}

\* Stopped or running as the Rust flag says, between two C calls.
Settled == IF rustRunning THEN Connected ELSE Released

LockInv ==
  /\ lock = "owner" <=> pc \in {"checkContext", "checkStream"}
  /\ lock = "loop" <=> loop \in {"read", "user"}

OwnerInv ==
  /\ op = "none" <=> pc = "idle"
  /\ op # "none" => handle = "alive"
  /\ guard => rustRunning /\ op \in {"none", "stop"}
  /\ rustRunning => handle = "alive"

\* The owner is inside start and has not set the flag yet.
Opening ==
  op = "start" /\ ~rustRunning /\ ~running

StartInv ==
  /\ pc \in {"idle", "cStart"} => Settled
  /\ pc = "cStart" => op = "start"
  /\ pc = "newMainloop" => Opening /\ Released
  /\ pc = "connectContext" =>
       Opening /\ loop = "polling" /\ context = "none" /\ stream = "none"
  /\ pc \in {"checkContext", "blockedContext", "wokenContext"} =>
       /\ Opening /\ loop = "polling"
       /\ context \in {"connecting", "authorizing", "ready", "failed"}
       /\ stream = "none"
  /\ pc \in {"checkStream", "blockedStream", "wokenStream"} =>
       /\ Opening /\ loop = "polling"
       /\ context \in {"ready", "failed"}
       /\ stream \in {"creating", "ready", "failed"}
  /\ pc = "startOk" => op = "start" /\ Connected
  /\ pc = "startFailed" => Opening /\ Released

StopInv ==
  /\ pc = "cStop" =>
       \/ ret \in {"stopped", "dropStopped"} /\ rustRunning /\ Connected
       \/ ret = "destroyResources" /\ ~rustRunning /\ Released
  /\ pc = "destroy" =>
       /\ ~running /\ loop # "exited"
       /\ ret \in {"startFailed", "stopped", "dropStopped", "freed"}
       /\ loop = "none" => Released
       /\ loop \in {"read", "user"} =>
            context # "none" /\ stream # "none" /\ op # "start"
       /\ ret = "freed" => Released
  /\ pc = "join" =>
       /\ ~running /\ loop \in {"polling", "exited"}
       /\ context = "none" /\ stream = "none"
       /\ ret \in {"startFailed", "stopped", "dropStopped"}
  /\ pc \in {"cStop", "destroy", "join"} =>
       /\ ret = "startFailed" <=> op = "start"
       /\ ret = "stopped" <=> op = "stop"
       /\ ret \in {"stopped", "dropStopped"} <=> rustRunning
  /\ pc = "stopped" => op = "stop" /\ Released
  /\ pc = "dropStopped" => op = "drop" /\ Released
  /\ pc \in {"cDestroy", "destroyResources", "freed"} =>
       op = "drop" /\ ~rustRunning /\ Released

IInv ==
  /\ TypeOK
  /\ LockInv
  /\ OwnerInv
  /\ StartInv
  /\ StopInv
  /\ PacketInv
  /\ NoLostWakeup
  /\ NoStaleTimestamp

-----------------------------------------------------------------------------
(* Every leaf below compares the values of a few variables before and      *)
(* after one action, so the parts of the invariant and the sets of values  *)
(* are visible in all of them.                                             *)
USE DEF IInv, TypeOK, OwnerTypeOK, LockInv, OwnerInv, StartInv, StopInv,
        PacketInv, NoLostWakeup, NoStaleTimestamp, Released, Connected,
        Settled, Opening, ContextStates, StreamStates, LoopStates,
        OwnerPositions, Positions, ownerVars, streamVars, sessionVars

\* The initial state, no session yet, satisfies the invariant.
LEMMA InitIInv == Init => IInv
<1> SUFFICES ASSUME Init PROVE IInv
  OBVIOUS
<1>1. TypeOK
  <2>1. queue \in 0..MaxPackets
    BY MaxPacketsAssumption DEF Init
  <2>2. rustRunning \in BOOLEAN /\ running \in BOOLEAN /\ hasLast \in BOOLEAN
    BY DEF Init, OwnerInit
  <2>3. QED
    BY <2>1, <2>2 DEF Init, OwnerInit
<1>2. LockInv /\ OwnerInv
  BY DEF Init, OwnerInit
<1>3. StartInv /\ StopInv
  BY DEF Init, OwnerInit
<1>4. PacketInv /\ NoLostWakeup /\ NoStaleTimestamp
  BY DEF Init, OwnerInit
<1>5. QED
  BY <1>1, <1>2, <1>3, <1>4

\* The public calls preserve the invariant.
LEMMA UserCallsPreserve ==
  IInv /\ UserCalls => IInv'
<1> SUFFICES ASSUME IInv, UserCalls PROVE IInv'
  OBVIOUS
<1>1. CASE Create
  BY <1>1 DEF Create, New
<1>2. CASE CallStart /\ UNCHANGED sessionVars
  BY <1>2 DEF CallStart, Unborrowed
<1>3. CASE CallStop /\ UNCHANGED sessionVars
  BY <1>3 DEF CallStop
<1>4. CASE ForgetGuard /\ UNCHANGED sessionVars
  <2>1. TypeOK'
    <3>1. guard' \in BOOLEAN
      BY <1>4 DEF ForgetGuard
    <3>2. UNCHANGED <<handle, rustRunning, op, pc, ret, sessionVars>>
      BY <1>4 DEF ForgetGuard
    <3>3. QED
      BY <3>1, <3>2
  <2>2. LockInv' /\ OwnerInv'
    BY <1>4 DEF ForgetGuard
  <2>3. StartInv' /\ StopInv'
    BY <1>4 DEF ForgetGuard
  <2>4. PacketInv' /\ NoLostWakeup' /\ NoStaleTimestamp'
    BY <1>4 DEF ForgetGuard
  <2>5. QED
    BY <2>1, <2>2, <2>3, <2>4
<1>5. CASE CallDrop /\ UNCHANGED sessionVars
  BY <1>5 DEF CallDrop, Unborrowed
<1>6. QED
  BY <1>1, <1>2, <1>3, <1>4, <1>5 DEF UserCalls

\* The steps of start preserve the invariant.
LEMMA StartingPreserve ==
  IInv /\ Starting => IInv'
<1> SUFFICES ASSUME IInv, Starting PROVE IInv'
  OBVIOUS
<1>1. CASE StartRunning
  BY <1>1 DEF StartRunning, Goto
<1>2. CASE CaptureStart
  BY <1>2 DEF CaptureStart, Goto
<1>3. CASE PlaybackStart
  BY <1>3 DEF PlaybackStart, Goto
<1>4. CASE NewMainloop
  BY <1>4 DEF NewMainloop, Goto
<1>5. CASE NewMainloopFails
  BY <1>5 DEF NewMainloopFails, Goto
<1>6. CASE ConnectContext
  BY <1>6 DEF ConnectContext, Goto
<1>7. CASE ConnectContextFails
  BY <1>7 DEF ConnectContextFails, Fail, Call
<1>8. CASE ContextFailed
  BY <1>8 DEF ContextFailed, Fail, Call
<1>9. CASE WaitContext
  BY <1>9 DEF WaitContext, Wait, Goto
<1>10. CASE ConnectStream
  BY <1>10 DEF ConnectStream, Goto
<1>11. CASE ConnectStreamFails
  BY <1>11 DEF ConnectStreamFails, Fail, Call
<1>12. CASE StreamFailed
  BY <1>12 DEF StreamFailed, Fail, Call
<1>13. CASE WaitStream
  BY <1>13 DEF WaitStream, Wait, Goto
<1>14. CASE Relock
  BY <1>14 DEF Relock, Goto
<1>15. CASE SetRunning
  BY <1>15 DEF SetRunning, Goto
<1>16. QED
  BY <1>1, <1>2, <1>3, <1>4, <1>5, <1>6, <1>7, <1>8, <1>9, <1>10,
     <1>11, <1>12, <1>13, <1>14, <1>15 DEF Starting

\* The steps of stop and destroy preserve the invariant.
LEMMA StoppingPreserve ==
  IInv /\ Stopping => IInv'
<1> SUFFICES ASSUME IInv, Stopping PROVE IInv'
  OBVIOUS
<1>1. CASE DestroyNothing
  <2>1. TypeOK'
    BY <1>1 DEF DestroyNothing, Goto
  <2>2. LockInv' /\ OwnerInv'
    BY <1>1 DEF DestroyNothing, Goto
  <2>3. StartInv'
    BY <1>1 DEF DestroyNothing, Goto
  <2>4. StopInv'
    BY <1>1 DEF DestroyNothing, Goto
  <2>5. PacketInv' /\ NoLostWakeup' /\ NoStaleTimestamp'
    BY <1>1 DEF DestroyNothing, Goto
  <2>6. QED
    BY <2>1, <2>2, <2>3, <2>4, <2>5
<1>2. CASE DestroyConnection
  <2>1. TypeOK'
    BY <1>2, MaxPacketsAssumption DEF DestroyConnection, ReleaseObjects, Goto
  <2>2. LockInv' /\ OwnerInv'
    BY <1>2 DEF DestroyConnection, ReleaseObjects, Goto
  <2>3. StartInv'
    BY <1>2 DEF DestroyConnection, ReleaseObjects, Goto
  <2>4. StopInv'
    BY <1>2 DEF DestroyConnection, ReleaseObjects, Goto
  <2>5. PacketInv' /\ NoLostWakeup' /\ NoStaleTimestamp'
    BY <1>2, MaxPacketsAssumption DEF DestroyConnection, ReleaseObjects, Goto
  <2>6. QED
    BY <2>1, <2>2, <2>3, <2>4, <2>5
<1>3. CASE FreeMainloop
  <2>1. TypeOK'
    BY <1>3 DEF FreeMainloop, Goto
  <2>2. LockInv' /\ OwnerInv'
    BY <1>3 DEF FreeMainloop, Goto
  <2>3. StartInv'
    BY <1>3 DEF FreeMainloop, Goto
  <2>4. StopInv'
    BY <1>3 DEF FreeMainloop, Goto
  <2>5. PacketInv' /\ NoLostWakeup' /\ NoStaleTimestamp'
    BY <1>3 DEF FreeMainloop, Goto
  <2>6. QED
    BY <2>1, <2>2, <2>3, <2>4, <2>5
<1>4. CASE CStop
  <2>1. TypeOK'
    BY <1>4 DEF CStop, Goto
  <2>2. LockInv' /\ OwnerInv'
    BY <1>4 DEF CStop, Goto
  <2>3. StartInv'
    BY <1>4 DEF CStop, Goto
  <2>4. StopInv'
    BY <1>4 DEF CStop, Goto
  <2>5. PacketInv' /\ NoLostWakeup' /\ NoStaleTimestamp'
    BY <1>4 DEF CStop, Goto
  <2>6. QED
    BY <2>1, <2>2, <2>3, <2>4, <2>5
<1>5. CASE CDestroy
  <2>1. TypeOK'
    BY <1>5 DEF CDestroy, Call
  <2>2. LockInv' /\ OwnerInv'
    BY <1>5 DEF CDestroy, Call
  <2>3. StartInv'
    BY <1>5 DEF CDestroy, Call
  <2>4. StopInv'
    BY <1>5 DEF CDestroy, Call
  <2>5. PacketInv' /\ NoLostWakeup' /\ NoStaleTimestamp'
    BY <1>5 DEF CDestroy, Call
  <2>6. QED
    BY <2>1, <2>2, <2>3, <2>4, <2>5
<1>6. CASE CDestroyResources
  <2>1. TypeOK'
    BY <1>6 DEF CDestroyResources, Call
  <2>2. LockInv' /\ OwnerInv'
    BY <1>6 DEF CDestroyResources, Call
  <2>3. StartInv'
    BY <1>6 DEF CDestroyResources, Call
  <2>4. StopInv'
    BY <1>6 DEF CDestroyResources, Call
  <2>5. PacketInv' /\ NoLostWakeup' /\ NoStaleTimestamp'
    BY <1>6 DEF CDestroyResources, Call
  <2>6. QED
    BY <2>1, <2>2, <2>3, <2>4, <2>5
<1>7. QED
  BY <1>1, <1>2, <1>3, <1>4, <1>5, <1>6 DEF Stopping

\* The returns of the C functions preserve the invariant.
LEMMA OwnerReturnPreserve ==
  IInv /\ OwnerReturn /\ UNCHANGED sessionVars => IInv'
<1> SUFFICES ASSUME IInv, OwnerReturn /\ UNCHANGED sessionVars PROVE IInv'
  OBVIOUS
<1>1. CASE StartOk /\ UNCHANGED sessionVars
  <2>1. TypeOK'
    BY <1>1 DEF StartOk, Return
  <2>2. LockInv' /\ OwnerInv'
    BY <1>1 DEF StartOk, Return
  <2>3. StartInv'
    BY <1>1 DEF StartOk, Return
  <2>4. StopInv'
    BY <1>1 DEF StartOk, Return
  <2>5. PacketInv' /\ NoLostWakeup' /\ NoStaleTimestamp'
    BY <1>1 DEF StartOk, Return
  <2>6. QED
    BY <2>1, <2>2, <2>3, <2>4, <2>5
<1>2. CASE StartFailed /\ UNCHANGED sessionVars
  <2>1. TypeOK'
    BY <1>2 DEF StartFailed, Return
  <2>2. LockInv' /\ OwnerInv'
    BY <1>2 DEF StartFailed, Return
  <2>3. StartInv'
    BY <1>2 DEF StartFailed, Return
  <2>4. StopInv'
    BY <1>2 DEF StartFailed, Return
  <2>5. PacketInv' /\ NoLostWakeup' /\ NoStaleTimestamp'
    BY <1>2 DEF StartFailed, Return
  <2>6. QED
    BY <2>1, <2>2, <2>3, <2>4, <2>5
<1>3. CASE Stopped /\ UNCHANGED sessionVars
  <2>1. TypeOK'
    BY <1>3 DEF Stopped, Return
  <2>2. LockInv' /\ OwnerInv'
    BY <1>3 DEF Stopped, Return
  <2>3. StartInv'
    BY <1>3 DEF Stopped, Return
  <2>4. StopInv'
    BY <1>3 DEF Stopped, Return
  <2>5. PacketInv' /\ NoLostWakeup' /\ NoStaleTimestamp'
    BY <1>3 DEF Stopped, Return
  <2>6. QED
    BY <2>1, <2>2, <2>3, <2>4, <2>5
<1>4. CASE DropStopped /\ UNCHANGED sessionVars
  <2>1. TypeOK'
    BY <1>4 DEF DropStopped
  <2>2. LockInv' /\ OwnerInv'
    BY <1>4 DEF DropStopped
  <2>3. StartInv'
    BY <1>4 DEF DropStopped
  <2>4. StopInv'
    BY <1>4 DEF DropStopped
  <2>5. PacketInv' /\ NoLostWakeup' /\ NoStaleTimestamp'
    BY <1>4 DEF DropStopped
  <2>6. QED
    BY <2>1, <2>2, <2>3, <2>4, <2>5
<1>5. CASE Dropped /\ UNCHANGED sessionVars
  <2>1. TypeOK'
    BY <1>5 DEF Dropped, Return
  <2>2. LockInv' /\ OwnerInv'
    BY <1>5 DEF Dropped, Return
  <2>3. StartInv'
    BY <1>5 DEF Dropped, Return
  <2>4. StopInv'
    BY <1>5 DEF Dropped, Return
  <2>5. PacketInv' /\ NoLostWakeup' /\ NoStaleTimestamp'
    BY <1>5 DEF Dropped, Return
  <2>6. QED
    BY <2>1, <2>2, <2>3, <2>4, <2>5
<1>6. QED
  BY <1>1, <1>2, <1>3, <1>4, <1>5 DEF OwnerReturn

\* The events of the server preserve the invariant.
LEMMA ServerPreserve ==
  IInv /\ Server => IInv'
<1> SUFFICES ASSUME IInv, Server PROVE IInv'
  OBVIOUS
<1>1. CASE ContextProgress
  BY <1>1 DEF ContextProgress, ContextState, Dispatching,
  session_state_callback, Signal
<1>2. CASE ContextReady
  BY <1>2 DEF ContextReady, ContextState, Dispatching,
  session_state_callback, Signal
<1>3. CASE ContextLost
  BY <1>3 DEF ContextLost, ContextState, Dispatching,
  session_state_callback, Signal
<1>4. CASE StreamReady
  BY <1>4 DEF StreamReady, StreamState, Dispatching,
  stream_state_callback, Signal
<1>5. CASE StreamLost
  BY <1>5 DEF StreamLost, StreamState, Dispatching,
  stream_state_callback, Signal
<1>6. CASE ReadCallback
  BY <1>6, MaxPacketsAssumption DEF ReadCallback, Dispatching
<1>7. CASE WriteCallback
  BY <1>7 DEF WriteCallback, Dispatching
<1>8. QED
  BY <1>1, <1>2, <1>3, <1>4, <1>5, <1>6, <1>7 DEF Server

\* The steps of the mainloop thread preserve the invariant.
LEMMA MainloopPreserve ==
  IInv /\ Mainloop => IInv'
<1> SUFFICES ASSUME IInv, Mainloop PROVE IInv'
  OBVIOUS
<1>1. CASE DeliverPacket
  BY <1>1 DEF DeliverPacket
<1>2. CASE SkipPacket
  BY <1>2, MaxPacketsAssumption DEF SkipPacket
<1>3. CASE UserReturns
  BY <1>3, MaxPacketsAssumption DEF UserReturns
<1>4. CASE ReadDone
  BY <1>4 DEF ReadDone
<1>5. CASE WriteDone
  BY <1>5 DEF WriteDone
<1>6. CASE LoopExit
  BY <1>6 DEF LoopExit, Dispatching
<1>7. QED
  BY <1>1, <1>2, <1>3, <1>4, <1>5, <1>6 DEF Mainloop

\* A wake-up without a signal preserves the invariant.
LEMMA SpuriousWakePreserves == IInv /\ SpuriousWake => IInv'
  BY DEF SpuriousWake, Signal

\* So does a step that changes nothing.
LEMMA StutterPreserves == IInv /\ UNCHANGED vars => IInv'
  BY DEF vars

HIDE DEF IInv, TypeOK, OwnerTypeOK, LockInv, OwnerInv, StartInv, StopInv,
         PacketInv, NoLostWakeup, NoStaleTimestamp, Released, Connected,
         Settled, Opening, ContextStates, StreamStates, LoopStates,
         OwnerPositions, Positions, ownerVars, streamVars, sessionVars

\* Every step of the specification preserves the invariant.
LEMMA NextIInv == IInv /\ [Next]_vars => IInv'
  BY UserCallsPreserve, StartingPreserve, StoppingPreserve,
     OwnerReturnPreserve, ServerPreserve, MainloopPreserve,
     SpuriousWakePreserves, StutterPreserves DEF Next, Owner

\* The inductive invariant holds in every reachable state.
THEOREM Invariance == Spec => []IInv
  BY InitIInv, NextIInv, PTL DEF Spec

-----------------------------------------------------------------------------
\* Every variable keeps its type.
THEOREM TypeCorrect == Spec => []TypeOK
<1>1. IInv => TypeOK
  BY DEF IInv
<1>2. QED
  BY <1>1, Invariance, PTL

\* A stopped session, also one whose start failed, has released its thread
\* and its server objects: a retry starts from nothing.
THEOREM StoppedIsReleased == Spec => []StoppedMeansReleased
<1>1. IInv => StoppedMeansReleased
  <2> SUFFICES ASSUME IInv, op = "none", ~rustRunning
               PROVE ~running /\ lock = "free" /\ context = "none"
                     /\ stream = "none" /\ loop = "none"
    BY DEF StoppedMeansReleased
  <2>1. pc = "idle"
    BY DEF IInv, OwnerInv
  <2>2. Released
    BY <2>1 DEF IInv, StartInv, Settled
  <2>3. lock = "free"
    BY <2>1, <2>2 DEF IInv, TypeOK, LockInv, Released
  <2>4. QED
    BY <2>2, <2>3 DEF Released
<1>2. QED
  BY <1>1, Invariance, PTL

\* What a stream callback uses is not released while it executes.
THEOREM CallbackUsesLiveData == Spec => []NoUseAfterFree
<1>1. IInv => NoUseAfterFree
  <2> SUFFICES ASSUME IInv, loop \in {"read", "user"}
               PROVE handle = "alive" /\ context # "none" /\ stream # "none"
                     /\ pc \notin {"join", "freed"}
    BY DEF NoUseAfterFree
  <2>1. ~Released /\ pc \notin {"join", "freed"}
    BY DEF IInv, Released, StopInv
  <2>2. context # "none" /\ stream # "none"
    BY <2>1 DEF IInv, TypeOK, OwnerTypeOK, OwnerPositions, Positions,
                StartInv, StopInv, Connected, Settled
  <2>3. handle = "alive"
    BY <2>1 DEF IInv, OwnerInv, StartInv, Settled
  <2>4. QED
    BY <2>1, <2>2, <2>3
<1>2. QED
  BY <1>1, Invariance, PTL

\* No wake-up of the connecting owner is lost.
THEOREM WakeupsArrive == Spec => []NoLostWakeup
<1>1. IInv => NoLostWakeup
  BY DEF IInv
<1>2. QED
  BY <1>1, Invariance, PTL

\* A new capture stream never continues the timestamps of the last one.
THEOREM TimestampsRestart == Spec => []NoStaleTimestamp
<1>1. IInv => NoStaleTimestamp
  BY DEF IInv
<1>2. QED
  BY <1>1, Invariance, PTL

-----------------------------------------------------------------------------
(* The refinement: every step is a step of the contract, or leaves the     *)
(* owner's phase and the callback in progress as they are.                 *)
USE DEF IInv, LockInv, OwnerInv, StartInv, StopInv, Released, Connected,
        Settled, Opening, ownerVars, streamVars, sessionVars, Phase,
        Contract!contractVars, Contract!Next, Contract!Move, Contract!Silent

\* A callback in progress belongs to a session its owner knows as active.
LEMMA CallbackPhase ==
  ASSUME IInv, running \/ loop \in {"read", "user"}
  PROVE  Phase \in Contract!Active
<1>1. pc \in {"idle", "cStart", "startOk", "cStop", "destroy"}
  BY DEF TypeOK, OwnerTypeOK, OwnerPositions, Positions
<1>2. op = "start" \/ rustRunning
  <2>1. CASE pc \in {"idle", "cStart", "startOk", "cStop"}
    BY <2>1
  <2>2. CASE pc = "destroy"
    BY <2>2
  <2>3. QED
    BY <1>1, <2>1, <2>2
<1>3. handle = "alive" /\ op \in {"none", "start", "stop", "drop"}
  BY DEF TypeOK, OwnerTypeOK
<1>4. QED
  BY <1>2, <1>3 DEF Contract!Active

\* The public calls map to the contract.
LEMMA UserCallsRefine ==
  IInv /\ UserCalls
    => [Contract!Next]_(Contract!contractVars)
<1> SUFFICES ASSUME IInv, UserCalls
             PROVE  [Contract!Next]_(Contract!contractVars)
  OBVIOUS
<1>1. CASE Create
  BY <1>1 DEF Create, New, Contract!Create
<1>2. CASE CallStart /\ UNCHANGED sessionVars
  BY <1>2 DEF CallStart, Unborrowed, Contract!BeginStart
<1>3. CASE CallStop /\ UNCHANGED sessionVars
  BY <1>3 DEF CallStop, Contract!BeginStop
<1>4. CASE ForgetGuard /\ UNCHANGED sessionVars
  BY <1>4 DEF ForgetGuard
<1>5. CASE CallDrop /\ UNCHANGED sessionVars
  BY <1>5 DEF CallDrop, Unborrowed, Contract!BeginStop
<1>6. QED
  BY <1>1, <1>2, <1>3, <1>4, <1>5 DEF UserCalls

\* The steps of start map to the contract.
LEMMA StartingRefine ==
  IInv /\ Starting
    => [Contract!Next]_(Contract!contractVars)
<1> SUFFICES ASSUME IInv, Starting
             PROVE  [Contract!Next]_(Contract!contractVars)
  OBVIOUS
<1>1. CASE StartRunning
  BY <1>1 DEF StartRunning, Goto
<1>2. CASE CaptureStart
  BY <1>2 DEF CaptureStart, Goto
<1>3. CASE PlaybackStart
  BY <1>3 DEF PlaybackStart, Goto
<1>4. CASE NewMainloop
  BY <1>4 DEF NewMainloop, Goto
<1>5. CASE NewMainloopFails
  BY <1>5 DEF NewMainloopFails, Goto
<1>6. CASE ConnectContext
  BY <1>6 DEF ConnectContext, Goto
<1>7. CASE ConnectContextFails
  BY <1>7 DEF ConnectContextFails, Fail, Call
<1>8. CASE ContextFailed
  BY <1>8 DEF ContextFailed, Fail, Call
<1>9. CASE WaitContext
  BY <1>9 DEF WaitContext, Wait, Goto
<1>10. CASE ConnectStream
  BY <1>10 DEF ConnectStream, Goto
<1>11. CASE ConnectStreamFails
  BY <1>11 DEF ConnectStreamFails, Fail, Call
<1>12. CASE StreamFailed
  BY <1>12 DEF StreamFailed, Fail, Call
<1>13. CASE WaitStream
  BY <1>13 DEF WaitStream, Wait, Goto
<1>14. CASE Relock
  BY <1>14 DEF Relock, Goto
<1>15. CASE SetRunning
  BY <1>15 DEF SetRunning, Goto
<1>16. QED
  BY <1>1, <1>2, <1>3, <1>4, <1>5, <1>6, <1>7, <1>8, <1>9, <1>10,
     <1>11, <1>12, <1>13, <1>14, <1>15 DEF Starting

\* The steps of stop and destroy map to the contract.
LEMMA StoppingRefine ==
  IInv /\ Stopping
    => [Contract!Next]_(Contract!contractVars)
<1> SUFFICES ASSUME IInv, Stopping
             PROVE  [Contract!Next]_(Contract!contractVars)
  OBVIOUS
<1>1. CASE DestroyNothing
  BY <1>1 DEF DestroyNothing, Goto
<1>2. CASE DestroyConnection
  BY <1>2 DEF DestroyConnection, ReleaseObjects, Goto
<1>3. CASE FreeMainloop
  BY <1>3 DEF FreeMainloop, Goto
<1>4. CASE CStop
  BY <1>4 DEF CStop, Goto
<1>5. CASE CDestroy
  BY <1>5 DEF CDestroy, Call
<1>6. CASE CDestroyResources
  BY <1>6 DEF CDestroyResources, Call
<1>7. QED
  BY <1>1, <1>2, <1>3, <1>4, <1>5, <1>6 DEF Stopping

\* The returns of the C functions map to the contract.
LEMMA OwnerReturnRefine ==
  IInv /\ OwnerReturn /\ UNCHANGED sessionVars
    => [Contract!Next]_(Contract!contractVars)
<1> SUFFICES ASSUME IInv, OwnerReturn /\ UNCHANGED sessionVars
             PROVE  [Contract!Next]_(Contract!contractVars)
  OBVIOUS
<1>1. CASE StartOk /\ UNCHANGED sessionVars
  BY <1>1 DEF StartOk, Return, Contract!StartOk
<1>2. CASE StartFailed /\ UNCHANGED sessionVars
  BY <1>2 DEF StartFailed, Return, Contract!StartFailed
<1>3. CASE Stopped /\ UNCHANGED sessionVars
  BY <1>3 DEF Stopped, Return, Contract!StopDone
<1>4. CASE DropStopped /\ UNCHANGED sessionVars
  BY <1>4 DEF DropStopped, Contract!StopDone
<1>5. CASE Dropped /\ UNCHANGED sessionVars
  BY <1>5 DEF Dropped, Return, Contract!Destroy
<1>6. QED
  BY <1>1, <1>2, <1>3, <1>4, <1>5 DEF OwnerReturn

\* The events of the server map to the contract.
LEMMA ServerRefine ==
  IInv /\ Server
    => [Contract!Next]_(Contract!contractVars)
<1> SUFFICES ASSUME IInv, Server
             PROVE  [Contract!Next]_(Contract!contractVars)
  OBVIOUS
<1>1. CASE ContextProgress
  BY <1>1 DEF ContextProgress, ContextState, Dispatching,
     session_state_callback, Signal
<1>2. CASE ContextReady
  BY <1>2 DEF ContextReady, ContextState, Dispatching,
     session_state_callback, Signal
<1>3. CASE ContextLost
  BY <1>3 DEF ContextLost, ContextState, Dispatching,
     session_state_callback, Signal
<1>4. CASE StreamReady
  BY <1>4 DEF StreamReady, StreamState, Dispatching,
     stream_state_callback, Signal
<1>5. CASE StreamLost
  BY <1>5 DEF StreamLost, StreamState, Dispatching,
     stream_state_callback, Signal
<1>6. CASE ReadCallback
  BY <1>6 DEF ReadCallback, Dispatching
<1>7. CASE WriteCallback
  <2>1. (running \/ loop = "read") /\ loop # "user" /\ loop' = "user"
    BY <1>7 DEF WriteCallback, Dispatching
  <2>2. Phase \in Contract!Active
    BY <2>1, CallbackPhase
  <2>3. Phase' = Phase
    BY <1>7 DEF WriteCallback
  <2>4. Contract!EnterCallback
    BY <2>1, <2>2, <2>3 DEF Contract!EnterCallback
  <2>5. QED
    BY <2>4
<1>8. QED
  BY <1>1, <1>2, <1>3, <1>4, <1>5, <1>6, <1>7 DEF Server

\* The steps of the mainloop thread map to the contract.
LEMMA MainloopRefine ==
  IInv /\ Mainloop
    => [Contract!Next]_(Contract!contractVars)
<1> SUFFICES ASSUME IInv, Mainloop
             PROVE  [Contract!Next]_(Contract!contractVars)
  OBVIOUS
<1>1. CASE DeliverPacket
  <2>1. (running \/ loop = "read") /\ loop # "user" /\ loop' = "user"
    BY <1>1 DEF DeliverPacket, Dispatching
  <2>2. Phase \in Contract!Active
    BY <2>1, CallbackPhase
  <2>3. Phase' = Phase
    BY <1>1 DEF DeliverPacket
  <2>4. Contract!EnterCallback
    BY <2>1, <2>2, <2>3 DEF Contract!EnterCallback
  <2>5. QED
    BY <2>4
<1>2. CASE SkipPacket
  BY <1>2 DEF SkipPacket
<1>3. CASE UserReturns
  BY <1>3 DEF UserReturns, Contract!LeaveCallback
<1>4. CASE ReadDone
  BY <1>4 DEF ReadDone
<1>5. CASE WriteDone
  BY <1>5 DEF WriteDone, Contract!LeaveCallback
<1>6. CASE LoopExit
  BY <1>6 DEF LoopExit, Dispatching
<1>7. QED
  BY <1>1, <1>2, <1>3, <1>4, <1>5, <1>6 DEF Mainloop

\* A spurious wake-up is invisible to the contract.
LEMMA SpuriousWakeRefines ==
  SpuriousWake => [Contract!Next]_(Contract!contractVars)
  BY DEF SpuriousWake, Signal

\* So is a step that changes nothing.
LEMMA StutterRefines ==
  UNCHANGED vars => [Contract!Next]_(Contract!contractVars)
  BY DEF vars

HIDE DEF IInv, LockInv, OwnerInv, StartInv, StopInv, Released, Connected,
         Settled, Opening, ownerVars, streamVars, sessionVars, Phase,
         Contract!contractVars, Contract!Next, Contract!Move, Contract!Silent

\* The PulseAudio backend keeps the contract of audio.h: its sessions are
\* silent outside start, run and stop, stop returns after the last callback
\* and callbacks are serial.
THEOREM Refinement == Spec => ImplementsContract
<1>1. Init => Contract!Init
  BY DEF Init, OwnerInit, Contract!Init, Phase
<1>2. IInv /\ [Next]_vars => [Contract!Next]_(Contract!contractVars)
  BY UserCallsRefine, StartingRefine, StoppingRefine, OwnerReturnRefine,
     ServerRefine, MainloopRefine, SpuriousWakeRefines, StutterRefines
     DEF Next, Owner
<1>3. QED
  BY <1>1, <1>2, Invariance, PTL DEF Spec, ImplementsContract, Contract!Spec

\* The contract alone keeps its promise: a stopped or destroyed session calls
\* nobody and calls are serial, for a start that fails and a stop that returns
\* have waited for the callback.
THEOREM ContractIsSilent == Contract!Spec => []Contract!SilentWhenStopped
<1> USE DEF Contract!SilentWhenStopped, Contract!Phases, Contract!Silent
<1>1. Contract!Init => Contract!SilentWhenStopped
  BY DEF Contract!Init, Contract!Active
<1>2. Contract!SilentWhenStopped /\ [Contract!Next]_(Contract!contractVars)
        => Contract!SilentWhenStopped'
  <2> SUFFICES ASSUME Contract!SilentWhenStopped,
                      [Contract!Next]_(Contract!contractVars)
               PROVE  Contract!SilentWhenStopped'
    OBVIOUS
  <2> USE DEF Contract!Active, Contract!Move
  <2>1. CASE Contract!Create \/ Contract!BeginStart \/ Contract!StartOk
             \/ Contract!BeginStop \/ Contract!Destroy
    BY <2>1 DEF Contract!Create, Contract!BeginStart, Contract!StartOk,
                Contract!BeginStop, Contract!Destroy
  <2>2. CASE Contract!StartFailed \/ Contract!StopDone
    BY <2>2 DEF Contract!StartFailed, Contract!StopDone
  <2>3. CASE Contract!EnterCallback \/ Contract!LeaveCallback
    BY <2>3 DEF Contract!EnterCallback, Contract!LeaveCallback
  <2>4. CASE UNCHANGED Contract!contractVars
    BY <2>4 DEF Contract!contractVars
  <2>5. QED
    BY <2>1, <2>2, <2>3, <2>4 DEF Contract!Next
<1>3. QED
  BY <1>1, <1>2, PTL DEF Contract!Spec

\* What the contract promises holds of the PulseAudio backend: the user
\* callback never runs in a stopped session, and never twice at once.
THEOREM SilentSession == Spec => []Contract!SilentWhenStopped
  BY Refinement, ContractIsSilent, PTL DEF ImplementsContract

=============================================================================
