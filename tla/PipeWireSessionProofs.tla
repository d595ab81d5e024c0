------------------------ MODULE PipeWireSessionProofs ------------------------
(***************************************************************************)
(* The PipeWire session for any number of buffers and queued invokes and   *)
(* any timeout: a stopped session has released everything, no queued       *)
(* invoke finds its stream gone, every buffer goes back, and the contract  *)
(* of audio.h is kept.                                                     *)
(***************************************************************************)
EXTENDS PipeWireSession, TLAPS

-----------------------------------------------------------------------------
(* The inductive invariant.                                                *)

Released ==
  /\ ~running
  /\ core = "none" /\ stream = "none" /\ loop = "stopped"
  /\ pending = 0 /\ held = 0

\* The thread of the thread loop is there and has not been told to stop.
Looping == loop \in {"polling", "process", "user"}

\* start has succeeded and no stop has begun to take it back.
Connected == running /\ core # "none" /\ stream # "none" /\ Looping

\* Stopped or running as the Rust flag says, between two C calls.
Settled == IF rustRunning THEN Connected ELSE Released

\* The owner is inside start and has not set the flag yet.
Opening == op = "start" /\ ~rustRunning /\ ~running

LockInv ==
  /\ lock = "owner" <=> pc = "checkState"
  /\ lock = "loop" <=> loop \in {"process", "user"}

OperationInv ==
  /\ op = "none" <=> pc = "idle"
  /\ op # "none" => handle = "alive"
  /\ guard => rustRunning /\ op \in {"none", "stop"}
  /\ rustRunning => handle = "alive"

StartInv ==
  /\ pc \in {"idle", "cStart"} => Settled
  /\ pc = "cStart" => op = "start"
  /\ pc = "connect" =>
       /\ Opening /\ loop = "polling" /\ core = "none" /\ stream = "none"
       /\ pending = 0
  /\ pc \in {"checkState", "blocked", "woken"} =>
       /\ Opening /\ Looping /\ core # "none" /\ stream # "none"
       /\ coreError => core = "errored"
  /\ pc = "startOk" => op = "start" /\ Connected
  /\ pc = "startFailed" => Opening /\ Released

\* Whatever has happened before it, a join finds the stream disconnected: no
\* invoke comes any more, and the thread exits after the last one.
StopInv ==
  /\ pc = "cStop" =>
       \/ ret \in {"stopped", "dropStopped"} /\ rustRunning /\ Connected
       \/ ret = "destroyContext" /\ ~rustRunning /\ Released
  /\ pc = "lockStop" =>
       /\ ~running /\ core # "none" /\ stream # "none" /\ Looping
       /\ ret \in {"stopped", "dropStopped"}
  /\ pc = "join" =>
       /\ ~running /\ stream \in {"none", "unconnected"}
       /\ loop # "stopped" /\ (loop = "exited" => pending = 0)
       /\ ret \in {"startFailed", "stopped", "dropStopped"}
  /\ loop = "exited" => pc = "join"
  /\ pc \in {"cStop", "lockStop", "join"} =>
       /\ ret = "startFailed" <=> op = "start"
       /\ ret = "stopped" <=> op = "stop"
       /\ ret \in {"stopped", "dropStopped"} <=> rustRunning
  /\ pc = "stopped" => op = "stop" /\ rustRunning /\ Released
  /\ pc = "dropStopped" => op = "drop" /\ rustRunning /\ Released
  /\ pc \in {"cDestroy", "destroyContext", "freed"} =>
       op = "drop" /\ ~rustRunning /\ Released

\* Invokes have a stream, and a process callback has one buffer.
InvokeInv ==
  /\ pending > 0 \/ loop \in {"process", "user"} => stream # "none"
  /\ NoBufferLeak

Control == LockInv /\ OperationInv /\ StartInv /\ StopInv
IInv == TypeOK /\ Control /\ InvokeInv

-----------------------------------------------------------------------------
(* Each leaf below compares the values of a few variables before and after *)
(* one action, so the parts of the invariant are visible in all of them.   *)
USE DEF IInv, Control, TypeOK, OwnerTypeOK, LockInv, OperationInv, StartInv,
        StopInv, InvokeInv, NoBufferLeak, Released, Looping, Connected,
        Settled, Opening, OwnerPositions, Positions, StreamStates, LoopStates,
        ownerVars, bufferVars, sessionVars

\* The numbers of the model within their bounds.
Counted ==
  /\ pending \in 0..MaxPending /\ ready \in 0..NumBuffers
  /\ held \in 0..NumBuffers /\ ready + held <= NumBuffers
  /\ elapsed \in 0..Timeout

\* A step that leaves the numbers alone leaves them within their bounds.
LEMMA SameCounts ==
  ASSUME Counted, UNCHANGED <<bufferVars, elapsed>>
  PROVE  Counted'
  BY DEF Counted

\* So does a disconnect, which takes the buffers that are ready.
LEMMA DisconnectCounts ==
  ASSUME Counted, NEW s, Disconnect(s), elapsed' \in 0..Timeout
  PROVE  Counted'
  BY PipeWireAssumption DEF Counted, Disconnect

LEMMA InitIInv == Init => IInv
<1> SUFFICES ASSUME Init PROVE IInv
  OBVIOUS
<1>1. Counted
  BY PipeWireAssumption DEF Init, Counted
<1>2. TypeOK
  BY <1>1 DEF Init, OwnerInit, Counted
<1>3. Control
  BY DEF Init, OwnerInit
<1>4. InvokeInv
  BY DEF Init
<1> QED
  BY <1>2, <1>3, <1>4

\* The public calls keep the invariant.
LEMMA UserCallsStep == IInv /\ UserCalls => IInv'
<1> SUFFICES ASSUME IInv, UserCalls PROVE IInv'
  OBVIOUS
<1>0. Counted
  BY DEF Counted
<1>c. Counted'
  BY <1>0, SameCounts DEF UserCalls, Create
<1>1. CASE Create
  BY <1>1, <1>c DEF Create, New, Counted
<1>2. CASE CallStart /\ UNCHANGED sessionVars
  BY <1>2, <1>c DEF CallStart, Unborrowed, Counted
<1>3. CASE CallStop /\ UNCHANGED sessionVars
  BY <1>3, <1>c DEF CallStop, Counted
<1>4. CASE ForgetGuard /\ UNCHANGED sessionVars
  <2>1. /\ op = "none" /\ guard' \in BOOLEAN /\ ~guard'
        /\ UNCHANGED <<handle, rustRunning, op, pc, ret, sessionVars>>
    BY <1>4 DEF ForgetGuard
  <2>2. TypeOK'
    BY <2>1, <1>c DEF Counted
  <2>3. Control' /\ InvokeInv'
    BY <2>1
  <2> QED
    BY <2>2, <2>3
<1>5. CASE CallDrop /\ UNCHANGED sessionVars
  BY <1>5, <1>c DEF CallDrop, Unborrowed, Counted
<1> QED
  BY <1>1, <1>2, <1>3, <1>4, <1>5 DEF UserCalls

\* A wait that gives up leaves a disconnected stream to the join.
LEMMA WaitFailsStep ==
  ASSUME IInv, NEW place \in {"checkState", "woken"}, WaitFails(place),
         place = "woken" => lock = "free"
  PROVE  IInv'
<1>1. /\ pc = place /\ pc' = "join" /\ ret' = "startFailed"
      /\ UNCHANGED <<handle, guard, rustRunning, op>>
      /\ stream' = "unconnected" /\ ready' = 0 /\ lock' = "free"
      /\ UNCHANGED <<pending, held>>
      /\ UNCHANGED <<direction, running, core, coreError, loop, elapsed, hasLast>>
  BY DEF WaitFails, Call, Disconnect
<1>2. loop = "polling"
  BY <1>1
<1>3. Counted'
  BY <1>1, PipeWireAssumption DEF Counted
<1>4. TypeOK'
  BY <1>1, <1>3 DEF Counted
<1>5. Control'
  BY <1>1, <1>2
<1>6. InvokeInv'
  BY <1>1
<1> QED
  BY <1>4, <1>5, <1>6

\* The steps of start keep the invariant.
LEMMA StartStep == IInv /\ Starting => IInv'
<1> SUFFICES ASSUME IInv, Starting PROVE IInv'
  OBVIOUS
<1>0. Counted
  BY DEF Counted
<1>1. CASE StartRunning
  BY <1>1, <1>0, SameCounts DEF StartRunning, Goto, Counted
<1>2. CASE StartLoop
  <2>1. /\ pc = "cStart" /\ ~running
        /\ \/ pc' = "connect" /\ loop' = "polling"
           \/ pc' = "startFailed" /\ loop' = loop
        /\ hasLast' \in BOOLEAN
        /\ UNCHANGED <<handle, guard, rustRunning, op, ret>>
        /\ UNCHANGED <<direction, running, lock, core, coreError, stream,
                       bufferVars, elapsed>>
    BY <1>2 DEF StartLoop, Goto
  <2>2. Counted'
    BY <1>0, <2>1, SameCounts
  <2> QED
    BY <2>1, <2>2 DEF Counted
<1>3. CASE ConnectCore
  <2>1. Counted'
    BY <1>0, <1>3, PipeWireAssumption DEF ConnectCore, Counted
  <2> QED
    BY <1>3, <2>1 DEF ConnectCore, Goto, Counted
<1>4. CASE ConnectCoreFails
  <2>1. /\ pc = "connect" /\ pc' = "join" /\ ret' = "startFailed"
        /\ UNCHANGED <<handle, guard, rustRunning, op>>
        /\ coreError' = FALSE /\ core' \in {"none", "connected"}
        /\ stream' \in {"none", "unconnected"} /\ ready' = 0 /\ lock' = "free"
        /\ UNCHANGED <<pending, held>>
        /\ UNCHANGED <<direction, running, loop, elapsed, hasLast>>
    BY <1>4 DEF ConnectCoreFails, Call, Disconnect
  <2>2. Counted'
    BY <1>0, <2>1, PipeWireAssumption DEF Counted
  <2> QED
    BY <2>1, <2>2 DEF Counted
<1>5. CASE CoreFailed \/ StreamFailed \/ TimedOut \/ ClockFails \/ WaitErrors
  BY <1>5, WaitFailsStep
     DEF CoreFailed, StreamFailed, TimedOut, ClockFails, WaitErrors
<1>6. CASE StreamStarted \/ StreamActivated
  <2>1. CASE WaitFails("checkState")
    BY <2>1, WaitFailsStep
  <2>2. CASE SetRunning
    <3>1. Counted'
      BY <1>0, <2>2, SameCounts DEF SetRunning
    <3> QED
      BY <2>2, <3>1 DEF SetRunning, Goto, Counted
  <2> QED
    BY <1>6, <2>1, <2>2 DEF StreamStarted, StreamActivated
<1>7. CASE TimedWait \/ PollInterval
  <2>1. Counted'
    BY <1>0, <1>7, SameCounts DEF TimedWait, PollInterval
  <2> QED
    BY <1>7, <2>1 DEF TimedWait, PollInterval, Goto, Counted
<1>8. CASE Relock
  <2>1. Counted'
    BY <1>0, <1>8, SameCounts DEF Relock
  <2> QED
    BY <1>8, <2>1 DEF Relock, Goto, Counted
<1> QED
  BY <1>1, <1>2, <1>3, <1>4, <1>5, <1>6, <1>7, <1>8 DEF Starting

\* The steps of stop and destroy keep it.
LEMMA StopStep == IInv /\ Stopping => IInv'
<1> SUFFICES ASSUME IInv, Stopping PROVE IInv'
  OBVIOUS
<1>0. Counted
  BY DEF Counted
<1>1. CASE CStop
  <2>1. Counted'
    BY <1>0, <1>1, SameCounts DEF CStop
  <2>2. /\ pc = "cStop" /\ pc' = IF Nothing THEN ret ELSE "lockStop"
        /\ UNCHANGED <<handle, guard, rustRunning, op, ret>>
        /\ running' \in BOOLEAN /\ ~running'
        /\ UNCHANGED <<direction, lock, core, coreError, stream, loop,
                       bufferVars, elapsed, hasLast>>
    BY <1>1 DEF CStop, Goto
  <2>3. CASE rustRunning /\ Connected
    <3>1. pc' = "lockStop" /\ ret \in {"stopped", "dropStopped"}
      BY <2>2, <2>3 DEF Nothing
    <3>2. TypeOK'
      BY <2>1, <2>2, <3>1 DEF Counted
    <3>3. Control' /\ InvokeInv'
      BY <2>2, <2>3, <3>1
    <3> QED
      BY <3>2, <3>3
  <2>4. CASE ~rustRunning /\ Released
    <3>1. pc' = "destroyContext" /\ op = "drop"
      BY <2>2, <2>4 DEF Nothing
    <3> QED
      BY <2>1, <2>2, <2>4, <3>1 DEF Counted
  <2> QED
    BY <2>2, <2>3, <2>4
<1>2. CASE LockStop
  <2>1. /\ pc = "lockStop" /\ pc' = "join" /\ lock = "free"
        /\ UNCHANGED <<handle, guard, rustRunning, op, ret>>
        /\ stream' \in {"none", "unconnected"}
        /\ stream # "none" => stream' # "none"
        /\ ready' = 0 /\ lock' = "free" /\ UNCHANGED <<pending, held>>
        /\ UNCHANGED <<direction, running, core, coreError, loop, elapsed,
                       hasLast>>
    BY <1>2 DEF LockStop, Goto, Disconnect
  <2>2. Counted'
    BY <1>0, <2>1, PipeWireAssumption DEF Counted
  <2> QED
    BY <2>1, <2>2 DEF Counted
<1>3. CASE DestroyStreamAndCore
  <2>1. Counted'
    BY <1>0, <1>3, SameCounts DEF DestroyStreamAndCore
  <2> QED
    BY <1>3, <2>1 DEF DestroyStreamAndCore, Goto, Counted
<1>4. CASE CDestroy
  <2>1. Counted'
    BY <1>0, <1>4, SameCounts DEF CDestroy
  <2> QED
    BY <1>4, <2>1 DEF CDestroy, Call, Counted
<1>5. CASE DestroyContext
  <2>1. Counted'
    BY <1>0, <1>5, SameCounts DEF DestroyContext
  <2> QED
    BY <1>5, <2>1 DEF DestroyContext, Goto, Counted
<1> QED
  BY <1>1, <1>2, <1>3, <1>4, <1>5 DEF Stopping

\* The returns of the C functions keep it.
LEMMA ReturnStep == IInv /\ OwnerReturn /\ UNCHANGED sessionVars => IInv'
<1> SUFFICES ASSUME IInv, OwnerReturn, UNCHANGED sessionVars PROVE IInv'
  OBVIOUS
<1>0. Counted'
  BY SameCounts DEF Counted
<1>1. CASE StartOk
  BY <1>0, <1>1 DEF StartOk, Return, Counted
<1>2. CASE StartFailed
  BY <1>0, <1>2 DEF StartFailed, Return, Counted
<1>3. CASE Stopped
  BY <1>0, <1>3 DEF Stopped, Return, Counted
<1>4. CASE DropStopped
  BY <1>0, <1>4 DEF DropStopped, Counted
<1>5. CASE Dropped
  BY <1>0, <1>5 DEF Dropped, Return, Counted
<1> QED
  BY <1>1, <1>2, <1>3, <1>4, <1>5 DEF OwnerReturn

\* The data thread and the server keep it: what they signal wakes the owner,
\* and an invoke is queued for a streaming stream alone.
LEMMA ServerStep == IInv /\ Server => IInv'
<1> SUFFICES ASSUME IInv, Server PROVE IInv'
  OBVIOUS
<1>0. Counted
  BY DEF Counted
<1>1. CASE session_core_error
  <2>1. /\ loop = "polling" /\ lock = "free" /\ core # "none"
        /\ core' = "errored" /\ coreError' = TRUE
        /\ stream \in {"none", "unconnected"} => stream' = stream
        /\ stream \notin {"none", "unconnected"} => stream' \in {stream, "error"}
        /\ pc' = IF pc = "blocked" THEN "woken" ELSE pc
        /\ UNCHANGED <<handle, guard, rustRunning, op, ret>>
        /\ UNCHANGED <<direction, running, lock, loop, bufferVars, elapsed,
                       hasLast>>
    BY <1>1 DEF session_core_error, Dispatching, Signal
  <2>2. Counted'
    BY <1>0, <2>1, SameCounts
  <2>3. TypeOK'
    BY <2>1, <2>2 DEF Counted
  <2>4. Control' /\ InvokeInv'
    BY <2>1
  <2> QED
    BY <2>3, <2>4
<1>2. CASE on_stream_state_changed
  <2>1. /\ loop = "polling" /\ lock = "free"
        /\ stream \in {"connecting", "paused", "streaming"}
        /\ stream' \in {"paused", "streaming", "error", "unconnected"}
        /\ pc' = IF pc = "blocked" THEN "woken" ELSE pc
        /\ UNCHANGED <<handle, guard, rustRunning, op, ret>>
        /\ UNCHANGED <<direction, running, lock, core, coreError, loop,
                       bufferVars, elapsed, hasLast>>
    BY <1>2 DEF on_stream_state_changed, Dispatching, Signal
  <2>2. Counted'
    BY <1>0, <2>1, SameCounts
  <2>3. TypeOK'
    BY <2>1, <2>2 DEF Counted
  <2>4. Control' /\ InvokeInv'
    BY <2>1
  <2> QED
    BY <2>3, <2>4
<1>3. CASE DataCycle
  <2>1. /\ stream = "streaming" /\ pending < MaxPending
        /\ pending' = pending + 1
        /\ ready' = IF ready + held < NumBuffers THEN ready + 1 ELSE ready
        /\ UNCHANGED <<ownerVars, direction, running, lock, core, coreError,
                       stream, loop, held, elapsed, hasLast>>
    BY <1>3 DEF DataCycle
  <2>2. Counted'
    BY <1>0, <2>1, PipeWireAssumption DEF Counted
  <2>3. TypeOK'
    BY <2>1, <2>2 DEF Counted
  <2>4. Control' /\ InvokeInv'
    BY <2>1
  <2> QED
    BY <2>3, <2>4
<1> QED
  BY <1>1, <1>2, <1>3 DEF Server

\* The thread of the thread loop keeps it: each exit of the process callback
\* queues the one buffer it has dequeued.
LEMMA LoopStep == IInv /\ Loop => IInv'
<1> SUFFICES ASSUME IInv, Loop PROVE IInv'
  OBVIOUS
<1>0. Counted
  BY DEF Counted
<1>1. CASE ProcessNothing
  <2>1. /\ loop = "polling" /\ lock = "free"
        /\ pending > 0 /\ pending' = pending - 1
        /\ UNCHANGED <<ownerVars, direction, running, lock, core, coreError,
                       stream, loop, ready, held, elapsed, hasLast>>
    BY <1>1 DEF ProcessNothing, Dispatching
  <2>2. Counted'
    BY <1>0, <2>1, PipeWireAssumption DEF Counted
  <2> QED
    BY <2>1, <2>2 DEF Counted
<1>2. CASE ProcessDequeues
  <2>1. /\ loop = "polling" /\ lock = "free" /\ pending > 0 /\ ready > 0
        /\ pending' = pending - 1 /\ ready' = ready - 1 /\ held' = held + 1
        /\ loop' = "process" /\ lock' = "loop"
        /\ UNCHANGED <<ownerVars, direction, running, core, coreError, stream,
                       elapsed, hasLast>>
    BY <1>2 DEF ProcessDequeues, Dispatching
  <2>2. Counted' /\ held' = 1
    BY <1>0, <2>1, PipeWireAssumption DEF Counted
  <2>3. TypeOK'
    BY <2>1, <2>2 DEF Counted
  <2>4. Control' /\ InvokeInv'
    BY <2>1, <2>2
  <2> QED
    BY <2>3, <2>4
<1>3. CASE ProcessRequeues \/ UserReturns
  <2>1. /\ loop \in {"process", "user"} /\ held = 1 /\ held' = held - 1
        /\ loop' = "polling" /\ lock' = "free"
        /\ UNCHANGED <<ownerVars, direction, running, core, coreError, stream,
                       pending, ready, elapsed, hasLast>>
    BY <1>3 DEF ProcessRequeues, UserReturns
  <2>2. Counted' /\ held' = 0
    BY <1>0, <2>1, PipeWireAssumption DEF Counted
  <2>3. TypeOK'
    BY <2>1, <2>2 DEF Counted
  <2>4. Control' /\ InvokeInv'
    BY <2>1, <2>2
  <2> QED
    BY <2>3, <2>4
<1>4. CASE ProcessCallsUser
  <2>1. /\ loop = "process" /\ loop' = "user" /\ hasLast' \in BOOLEAN
        /\ UNCHANGED <<ownerVars, direction, running, lock, core, coreError,
                       stream, bufferVars, elapsed>>
    BY <1>4 DEF ProcessCallsUser
  <2>2. Counted'
    BY <1>0, <2>1, SameCounts
  <2> QED
    BY <2>1, <2>2 DEF Counted
<1>5. CASE LoopExit
  <2>1. Counted'
    BY <1>0, <1>5, SameCounts DEF LoopExit
  <2> QED
    BY <1>5, <2>1 DEF LoopExit, Dispatching, Counted
<1> QED
  BY <1>1, <1>2, <1>3, <1>4, <1>5 DEF Loop

\* So does the clock.
LEMMA TickStep == IInv /\ Tick => IInv'
<1> SUFFICES ASSUME IInv, Tick PROVE IInv'
  OBVIOUS
<1>1. Counted'
  BY PipeWireAssumption DEF Tick, Counted
<1>2. UNCHANGED <<ownerVars, direction, running, lock, core, coreError, stream,
                  loop, bufferVars, hasLast>>
  BY DEF Tick
<1> QED
  BY <1>1, <1>2 DEF Counted

LEMMA Inductive == IInv /\ [Next]_vars => IInv'
<1>1. IInv /\ UNCHANGED vars => IInv'
  BY DEF vars
<1> QED
  BY <1>1, UserCallsStep, StartStep, StopStep, ReturnStep, ServerStep, LoopStep,
     TickStep DEF Next, Owner

HIDE DEF IInv

LEMMA Invariance == Spec => []IInv
  BY InitIInv, Inductive, PTL DEF Spec

-----------------------------------------------------------------------------
(* The safety properties.                                                  *)

\* Every variable keeps its type, every number its bound.
THEOREM TypeCorrect == Spec => []TypeOK
<1>1. IInv => TypeOK
  BY DEF IInv
<1> QED
  BY <1>1, Invariance, PTL

\* A stopped session has released everything, also after a failed start.
THEOREM StoppedIsReleased == Spec => []StoppedMeansReleased
<1>1. IInv => StoppedMeansReleased
  BY DEF IInv, StoppedMeansReleased
<1> QED
  BY <1>1, Invariance, PTL

\* No invoke queued before the disconnect finds the stream destroyed.
THEOREM InvokesFindTheStream == Spec => []NoInvokeAfterDestroy
<1>1. IInv => NoInvokeAfterDestroy
  BY DEF IInv, NoInvokeAfterDestroy
<1> QED
  BY <1>1, Invariance, PTL

\* Every dequeued buffer is queued again, on each exit.
THEOREM BuffersGoBack == Spec => []NoBufferLeak
<1>1. IInv => NoBufferLeak
  BY DEF IInv
<1> QED
  BY <1>1, Invariance, PTL

\* No start fails for an error that an earlier connection has left behind.
THEOREM ErrorsAreFresh == Spec => []NoStaleCoreError
<1>1. IInv => NoStaleCoreError
  BY DEF IInv, NoStaleCoreError
<1> QED
  BY <1>1, Invariance, PTL

-----------------------------------------------------------------------------
(* The refinement of the contract.                                         *)

USE DEF IInv, Phase, Contract!Next, Contract!contractVars, Contract!Move,
        Contract!Silent

\* A process callback runs in the active phases alone.
LEMMA CallbackPhase ==
  ASSUME IInv, loop \in {"process", "user"}
  PROVE  Phase \in Contract!Active
<1>1. handle = "alive"
  OBVIOUS
<1>2. rustRunning \/ op = "start"
  OBVIOUS
<1> QED
  BY <1>1, <1>2 DEF Contract!Active

\* The public calls map to the contract.
LEMMA UserCallsRefine ==
  IInv /\ UserCalls => [Contract!Next]_(Contract!contractVars)
<1> SUFFICES ASSUME IInv, UserCalls
             PROVE  [Contract!Next]_(Contract!contractVars)
  OBVIOUS
<1>1. CASE Create
  BY <1>1 DEF Create, New, Contract!Create
<1>2. CASE CallStart /\ UNCHANGED sessionVars
  BY <1>2 DEF CallStart, Unborrowed, Contract!BeginStart
<1>3. CASE CallStop /\ UNCHANGED sessionVars
  BY <1>3 DEF CallStop, Contract!BeginStop
<1>4. CASE ForgetGuard /\ UNCHANGED sessionVars
  BY <1>4 DEF ForgetGuard
<1>5. CASE CallDrop /\ UNCHANGED sessionVars
  BY <1>5 DEF CallDrop, Unborrowed, Contract!BeginStop
<1> QED
  BY <1>1, <1>2, <1>3, <1>4, <1>5 DEF UserCalls

\* The returns of the C functions are the ends of the operations.
LEMMA ReturnRefine ==
  IInv /\ OwnerReturn /\ UNCHANGED sessionVars
    => [Contract!Next]_(Contract!contractVars)
<1> SUFFICES ASSUME IInv, OwnerReturn, UNCHANGED sessionVars
             PROVE  [Contract!Next]_(Contract!contractVars)
  OBVIOUS
<1>1. CASE StartOk
  BY <1>1 DEF StartOk, Return, Contract!StartOk
<1>2. CASE StartFailed
  BY <1>2 DEF StartFailed, Return, Contract!StartFailed
<1>3. CASE Stopped
  BY <1>3 DEF Stopped, Return, Contract!StopDone
<1>4. CASE DropStopped
  BY <1>4 DEF DropStopped, Contract!StopDone
<1>5. CASE Dropped
  BY <1>5 DEF Dropped, Return, Contract!Destroy
<1> QED
  BY <1>1, <1>2, <1>3, <1>4, <1>5 DEF OwnerReturn

\* The contract sees these of the session.
Seen == <<handle, rustRunning, op, loop = "user">>

\* What the C functions, the server and the clock do is invisible to it.
LEMMA InsideUnseen ==
  ASSUME IInv, Starting \/ Stopping \/ Server \/ Tick
  PROVE  UNCHANGED Seen
<1> USE DEF Seen
<1>1. CASE Starting
  BY <1>1 DEF Starting, StartRunning, StartLoop, ConnectCore, ConnectCoreFails,
    CoreFailed, StreamStarted, StreamActivated, StreamFailed, TimedOut,
    ClockFails, TimedWait, PollInterval, Relock, WaitErrors, WaitFails,
    SetRunning, Goto, Call
<1>2. CASE Stopping
  BY <1>2 DEF Stopping, CStop, LockStop, DestroyStreamAndCore, CDestroy,
    DestroyContext, Goto, Call
<1>3. CASE Server \/ Tick
  BY <1>3 DEF Server, session_core_error, on_stream_state_changed, DataCycle,
    Tick, Signal
<1> QED
  BY <1>1, <1>2, <1>3

\* The thread enters and leaves the user callback.
LEMMA LoopRefine == IInv /\ Loop => [Contract!Next]_(Contract!contractVars)
<1> SUFFICES ASSUME IInv, Loop
             PROVE  [Contract!Next]_(Contract!contractVars)
  OBVIOUS
<1>1. UNCHANGED ownerVars
  BY DEF Loop, ProcessNothing, ProcessDequeues, ProcessRequeues,
         ProcessCallsUser, UserReturns, LoopExit
<1>2. CASE ProcessCallsUser
  <2>1. loop = "process" /\ loop' = "user"
    BY <1>2 DEF ProcessCallsUser
  <2>2. Phase \in Contract!Active
    BY <2>1, CallbackPhase
  <2> QED
    BY <1>1, <2>1, <2>2 DEF Contract!EnterCallback
<1>3. CASE UserReturns
  <2>1. loop = "user" /\ loop' = "polling"
    BY <1>3 DEF UserReturns
  <2> QED
    BY <1>1, <2>1 DEF Contract!LeaveCallback
<1>4. CASE ~ ProcessCallsUser /\ ~ UserReturns
  <2>1. (loop = "user") = (loop' = "user")
    BY <1>4 DEF Loop, ProcessNothing, ProcessDequeues, ProcessRequeues,
                LoopExit, Dispatching
  <2> QED
    BY <1>1, <2>1
<1> QED
  BY <1>2, <1>3, <1>4

HIDE DEF IInv, Control, TypeOK, OwnerTypeOK, LockInv, OperationInv, StartInv,
         StopInv, InvokeInv, NoBufferLeak, Released, Looping, Connected,
         Settled, Opening

\* A step that changes nothing of it is a stutter of the contract.
LEMMA UnseenRefines ==
  ASSUME UNCHANGED Seen
  PROVE  UNCHANGED Contract!contractVars
  BY DEF Seen

HIDE DEF Phase, Contract!Next, Contract!contractVars, Contract!Move,
         Contract!Silent

\* The PipeWire backend keeps the contract of audio.h, whatever the data
\* thread and the server do.
THEOREM Refinement == Spec => ImplementsContract
<1>1. Init => Contract!Init
  BY DEF Init, OwnerInit, Contract!Init, Phase
<1>2. UNCHANGED vars => UNCHANGED Contract!contractVars
  BY UnseenRefines DEF vars, Seen
<1>3. IInv /\ [Next]_vars => [Contract!Next]_(Contract!contractVars)
  BY <1>2, UserCallsRefine, ReturnRefine, InsideUnseen, UnseenRefines,
     LoopRefine DEF Next, Owner
<1> QED
  BY <1>1, <1>3, Invariance, PTL DEF Spec, ImplementsContract, Contract!Spec

\* So a PipeWire session that is stopped calls nobody, not even from a process
\* callback that was on its way when stop was called.
THEOREM SilentSession == Spec => []Contract!SilentWhenStopped
<1> USE DEF Phase, Contract!Silent, Contract!SilentWhenStopped
<1>1. IInv => Phase \in Contract!Phases
  BY DEF IInv, TypeOK, OwnerTypeOK, Contract!Phases
<1>2. IInv /\ loop = "user" => Phase \in Contract!Active
  BY CallbackPhase
<1>3. IInv => Contract!SilentWhenStopped
  BY <1>1, <1>2
<1> QED
  BY <1>3, Invariance, PTL

=============================================================================
