------------------------ MODULE CoreAudioSessionProofs ------------------------
(***************************************************************************)
(* The CoreAudio session for any number of buffers: the ring of a running  *)
(* session lacks only what a re-enqueue was refused, the queue is empty    *)
(* when the session has stopped, a callback owns its buffer, and the       *)
(* contract of audio.h is kept.                                            *)
(***************************************************************************)
EXTENDS CoreAudioSession, TLAPS

-----------------------------------------------------------------------------
(* The inductive invariant.                                                *)

\* Nothing runs.  Buffers may still be in the stopped queue, where a start
\* that failed has left them.
Quiet == ~running /\ queue = "stopped" /\ callback = "none"

Playing == running /\ queue = "started"

Drained == Quiet /\ \A b \in Buffers : where[b] = "session"

OperationInv ==
  /\ op = "none" <=> pc = "idle"
  /\ op # "none" => handle = "alive"
  /\ guard => rustRunning /\ op \in {"none", "stop"}
  /\ rustRunning => handle = "alive"
  /\ handle = "none" => ~running /\ queue = "none" /\ callback = "none"

\* What each position of the owner has done so far.  The stop of destroy is
\* never needed: drop has stopped the session before.
PositionInv ==
  /\ pc \in {"idle", "cStart"} /\ handle = "alive" =>
       IF rustRunning THEN Playing ELSE Quiet
  /\ pc = "cStart" => op = "start"
  /\ pc = "enqueue" =>
       /\ op = "start" /\ ~rustRunning
       /\ running /\ queue = "stopped" /\ callback = "none"
       /\ lost = {} /\ \A b \in Buffers : b < next => where[b] = "queue"
  /\ pc = "startOk" => op = "start" /\ Playing
  /\ pc = "startFailed" => op = "start" /\ ~rustRunning /\ Quiet
  /\ pc \in {"cStop", "audioQueueStop"} =>
       /\ rustRunning /\ op \in {"stop", "drop"} /\ queue = "started"
       /\ ret = IF op = "stop" THEN "stopped" ELSE "dropStopped"
       /\ pc = "cStop" <=> running
  /\ pc = "stopped" => op = "stop" /\ rustRunning /\ Drained
  /\ pc = "dropStopped" => op = "drop" /\ rustRunning /\ Drained
  /\ pc \in {"cDestroy", "dispose"} => op = "drop" /\ ~rustRunning /\ Quiet
  /\ pc = "freed" => /\ op = "drop" /\ ~rustRunning
                     /\ ~running /\ queue = "none" /\ callback = "none"

\* A callback in progress has exactly one buffer, of a started queue.
CallbackInv ==
  /\ callback # "none" => queue = "started" /\ \E b \in Buffers : Busy(b)
  /\ \A b \in Buffers : Busy(b) => callback # "none"
  /\ \A b, c \in Buffers : Busy(b) /\ Busy(c) => b = c

IInv ==
  TypeOK /\ OperationInv /\ PositionInv /\ CallbackInv /\ OnlyRefusedLeaveRing

-----------------------------------------------------------------------------
(* Each leaf below compares the values of a few variables before and after *)
(* one action, so the parts of the invariant are visible in all of them.   *)
USE DEF IInv, TypeOK, OwnerTypeOK, OperationInv, PositionInv, CallbackInv,
        OnlyRefusedLeaveRing, Quiet, Playing, Drained, OwnerPositions,
        Positions, ownerVars, sessionVars, Busy, Buffers

\* The initial state, no session yet, satisfies the invariant.
LEMMA InitIInv == Init => IInv
<1> SUFFICES ASSUME Init PROVE IInv
  OBVIOUS
<1>1. TypeOK
  <2>1. next \in 1..(NumBuffers + 1)
    BY NumBuffersAssumption DEF Init
  <2>2. where \in [Buffers -> {"session", "queue", "callback"}]
    BY DEF Init
  <2> QED
    BY <2>1, <2>2 DEF Init, OwnerInit
<1>2. OperationInv /\ PositionInv
  BY DEF Init, OwnerInit
<1>3. CallbackInv /\ OnlyRefusedLeaveRing
  BY DEF Init
<1> QED
  BY <1>1, <1>2, <1>3

\* The public calls keep the invariant.
LEMMA UserCallsStep == IInv /\ UserCalls => IInv'
<1> SUFFICES ASSUME IInv, UserCalls PROVE IInv'
  OBVIOUS
<1>1. CASE Create
  BY <1>1 DEF Create, New
<1>2. CASE CallStart /\ UNCHANGED sessionVars
  BY <1>2 DEF CallStart, Unborrowed
<1>3. CASE CallStop /\ UNCHANGED sessionVars
  BY <1>3 DEF CallStop
<1>4. CASE ForgetGuard /\ UNCHANGED sessionVars
  BY <1>4 DEF ForgetGuard
<1>5. CASE CallDrop /\ UNCHANGED sessionVars
  BY <1>5 DEF CallDrop, Unborrowed
<1> QED
  BY <1>1, <1>2, <1>3, <1>4, <1>5 DEF UserCalls

\* The steps of start keep it: after the last enqueue the ring is whole.
LEMMA StartStep ==
  IInv /\ (StartRunning \/ BeginEnqueue \/ EnqueueNext \/ EnqueueFails
           \/ StartQueue \/ StartQueueFails) => IInv'
<1> SUFFICES ASSUME IInv, \/ StartRunning \/ BeginEnqueue \/ EnqueueNext
                          \/ EnqueueFails \/ StartQueue \/ StartQueueFails
             PROVE  IInv'
  OBVIOUS
<1> USE NumBuffersAssumption
<1>1. CASE StartRunning
  BY <1>1 DEF StartRunning, Goto
<1>2. CASE BeginEnqueue
  BY <1>2 DEF BeginEnqueue, Goto
<1>3. CASE EnqueueNext
  <2>1. /\ pc = "enqueue" /\ next \in Buffers /\ next' \in 1..(NumBuffers + 1)
        /\ where' = [where EXCEPT ![next] = "queue"] /\ next' = next + 1
        /\ UNCHANGED <<ownerVars, direction, running, queue, callback, lost>>
    BY <1>3 DEF EnqueueNext
  <2>2. \A b \in Buffers : b < next' => where'[b] = "queue"
    BY <2>1
  <2>3. \A b \in Buffers : where'[b] # "callback"
    BY <2>1
  <2> QED
    BY <2>1, <2>2, <2>3
<1>4. CASE EnqueueFails \/ StartQueueFails
  <2>1. /\ pc = "enqueue" /\ pc' = "startFailed" /\ running' = FALSE
        /\ UNCHANGED <<handle, guard, rustRunning, op, ret>>
        /\ UNCHANGED <<direction, queue, where, next, callback, lost>>
    BY <1>4 DEF EnqueueFails, StartQueueFails, Fail, Goto
  <2> QED
    BY <2>1
<1>5. CASE StartQueue
  <2>1. \A b \in Buffers : where[b] = "queue"
    BY <1>5 DEF StartQueue, Goto
  <2> QED
    BY <1>5, <2>1 DEF StartQueue, Goto
<1> QED
  BY <1>1, <1>2, <1>3, <1>4, <1>5

\* The steps of stop and destroy keep it.
LEMMA StopStep ==
  IInv /\ (CStop \/ AudioQueueStop \/ CDestroy \/ Dispose) => IInv'
<1> SUFFICES ASSUME IInv, CStop \/ AudioQueueStop \/ CDestroy \/ Dispose
             PROVE  IInv'
  OBVIOUS
<1>1. CASE CStop
  BY <1>1 DEF CStop, Goto
<1>2. CASE AudioQueueStop
  BY <1>2 DEF AudioQueueStop, Goto
<1>3. CASE CDestroy
  BY <1>3 DEF CDestroy, Goto, Call
<1>4. CASE Dispose
  BY <1>4 DEF Dispose, Goto
<1> QED
  BY <1>1, <1>2, <1>3, <1>4

\* The returns of the C functions keep it.
LEMMA ReturnStep == IInv /\ OwnerReturn /\ UNCHANGED sessionVars => IInv'
<1> SUFFICES ASSUME IInv, OwnerReturn, UNCHANGED sessionVars PROVE IInv'
  OBVIOUS
<1>1. CASE StartOk
  BY <1>1 DEF StartOk, Return
<1>2. CASE StartFailed
  BY <1>2 DEF StartFailed, Return
<1>3. CASE Stopped
  BY <1>3 DEF Stopped, Return
<1>4. CASE DropStopped
  BY <1>4 DEF DropStopped
<1>5. CASE Dropped
  BY <1>5 DEF Dropped, Return
<1> QED
  BY <1>1, <1>2, <1>3, <1>4, <1>5 DEF OwnerReturn

\* The callbacks keep it: a buffer leaves the ring with the flag cleared, or
\* when it enters lost.
LEMMA CallbackStep ==
  IInv /\ (Callback \/ \E b \in Buffers : Enter(b)) => IInv'
<1> SUFFICES ASSUME IInv, Callback \/ \E b \in Buffers : Enter(b) PROVE IInv'
  OBVIOUS
<1>1. CASE \E b \in Buffers : Enter(b)
  <2>1. PICK b \in Buffers : Enter(b)
    BY <1>1
  <2>2. \A c \in Buffers : where[c] # "callback"
    BY <2>1 DEF Enter
  <2>3. \A c \in Buffers :
          where'[c] = IF c = b THEN "callback" ELSE where[c]
    BY <2>1 DEF Enter
  <2> QED
    BY <2>1, <2>2, <2>3 DEF Enter
<1>2. CASE CallUser \/ NoPackets \/ UserReturns \/ InputStillRunning
  <2>1. /\ callback # "none" /\ callback' \in {"user", "returned", "enqueue"}
        /\ UNCHANGED <<ownerVars, direction, running, queue, where, next>>
        /\ UNCHANGED lost
    BY <1>2 DEF CallUser, NoPackets, UserReturns, InputStillRunning, CallbackGoes
  <2> QED
    BY <2>1
<1>3. CASE OutputGivesUp \/ InputGivesUp
  <2>1. PICK b \in Buffers : LeaveBuffer(b) /\ ~running
    BY <1>3 DEF OutputGivesUp, InputGivesUp
  <2>2. \A c \in Buffers : where'[c] = IF c = b THEN "session" ELSE where[c]
    BY <2>1 DEF LeaveBuffer
  <2>3. \A c \in Buffers : where'[c] # "callback"
    BY <2>1, <2>2 DEF LeaveBuffer
  <2> QED
    BY <2>1, <2>2, <2>3 DEF LeaveBuffer
<1>4. CASE Enqueue
  <2>1. PICK b \in Buffers :
          where[b] = "callback" /\ where' = [where EXCEPT ![b] = "queue"]
    BY <1>4 DEF Enqueue
  <2>2. \A c \in Buffers : where'[c] = IF c = b THEN "queue" ELSE where[c]
    BY <2>1
  <2>3. \A c \in Buffers : where'[c] # "callback"
    BY <2>1, <2>2
  <2> QED
    BY <1>4, <2>1, <2>2, <2>3 DEF Enqueue
<1>5. CASE EnqueueRefused
  <2>1. PICK b \in Buffers :
          /\ where[b] = "callback" /\ where' = [where EXCEPT ![b] = "session"]
          /\ lost' = lost \union {b}
    BY <1>5 DEF EnqueueRefused
  <2>2. \A c \in Buffers : where'[c] = IF c = b THEN "session" ELSE where[c]
    BY <2>1
  <2>3. \A c \in Buffers : where'[c] # "callback"
    BY <2>1, <2>2
  <2>4. OnlyRefusedLeaveRing'
    BY <1>5, <2>1, <2>2 DEF EnqueueRefused
  <2>5. lost' \subseteq Buffers
    BY <2>1
  <2> QED
    BY <1>5, <2>2, <2>3, <2>4, <2>5 DEF EnqueueRefused
<1> QED
  BY <1>1, <1>2, <1>3, <1>4, <1>5 DEF Callback

LEMMA Inductive == IInv /\ [Next]_vars => IInv'
<1>1. IInv /\ UNCHANGED vars => IInv'
  BY DEF vars
<1> QED
  BY <1>1, UserCallsStep, StartStep, StopStep, ReturnStep, CallbackStep
     DEF Next, Owner

LEMMA Invariance == Spec => []IInv
<1> HIDE DEF IInv
<1> QED
  BY InitIInv, Inductive, PTL DEF Spec

-----------------------------------------------------------------------------
(* The safety properties.                                                  *)

HIDE DEF IInv

\* Every variable keeps its type, for any number of buffers.
THEOREM TypeCorrect == Spec => []TypeOK
<1>1. IInv => TypeOK
  BY DEF IInv
<1> QED
  BY <1>1, Invariance, PTL

\* While the session runs, the buffers out of the ring are those whose
\* re-enqueue was refused since its start, and no others.
THEOREM OnlyRefusedBuffersLeave == Spec => []OnlyRefusedLeaveRing
<1>1. IInv => OnlyRefusedLeaveRing
  BY DEF IInv
<1> QED
  BY <1>1, Invariance, PTL

\* A stop that returns has emptied the queue, and no callback is in progress.
THEOREM StopEmptiesTheQueue == Spec => []StopDrains
<1>1. IInv => StopDrains
  BY DEF IInv, StopDrains
<1> QED
  BY <1>1, Invariance, PTL

\* A callback in progress has exactly one buffer, and what it uses exists.
THEOREM CallbackHasItsBuffer == Spec => []CallbackOwnsBuffer
<1>1. IInv => CallbackOwnsBuffer
  BY DEF IInv, CallbackOwnsBuffer
<1> QED
  BY <1>1, Invariance, PTL

-----------------------------------------------------------------------------
(* The refinement of the contract.                                         *)

USE DEF IInv, Phase, Contract!Next, Contract!contractVars, Contract!Move,
        Contract!Silent

\* The queue is started, and its callbacks come, in the active phases alone.
LEMMA CallbackPhase ==
  ASSUME IInv, queue = "started"
  PROVE  Phase \in Contract!Active
  BY DEF Contract!Active

\* The public calls map to the contract.
LEMMA UserCallsRefine ==
  IInv /\ UserCalls => [Contract!Next]_(Contract!contractVars)
<1> SUFFICES ASSUME IInv, UserCalls
             PROVE  [Contract!Next]_(Contract!contractVars)
  OBVIOUS
<1>1. CASE Create
  BY <1>1 DEF Create, New, Contract!Create
<1>2. CASE CallStart /\ UNCHANGED sessionVars
  BY <1>2 DEF CallStart, Unborrowed, Contract!BeginStart
<1>3. CASE CallStop /\ UNCHANGED sessionVars
  BY <1>3 DEF CallStop, Contract!BeginStop
<1>4. CASE ForgetGuard /\ UNCHANGED sessionVars
  BY <1>4 DEF ForgetGuard
<1>5. CASE CallDrop /\ UNCHANGED sessionVars
  BY <1>5 DEF CallDrop, Unborrowed, Contract!BeginStop
<1> QED
  BY <1>1, <1>2, <1>3, <1>4, <1>5 DEF UserCalls

\* The returns of the C functions are the ends of the operations.
LEMMA ReturnRefine ==
  IInv /\ OwnerReturn /\ UNCHANGED sessionVars
    => [Contract!Next]_(Contract!contractVars)
<1> SUFFICES ASSUME IInv, OwnerReturn, UNCHANGED sessionVars
             PROVE  [Contract!Next]_(Contract!contractVars)
  OBVIOUS
<1>1. CASE StartOk
  BY <1>1 DEF StartOk, Return, Contract!StartOk
<1>2. CASE StartFailed
  BY <1>2 DEF StartFailed, Return, Contract!StartFailed
<1>3. CASE Stopped
  BY <1>3 DEF Stopped, Return, Contract!StopDone
<1>4. CASE DropStopped
  BY <1>4 DEF DropStopped, Contract!StopDone
<1>5. CASE Dropped
  BY <1>5 DEF Dropped, Return, Contract!Destroy
<1> QED
  BY <1>1, <1>2, <1>3, <1>4, <1>5 DEF OwnerReturn

\* What the C functions do inside is invisible to it.
LEMMA InsideRefine ==
  ASSUME \/ StartRunning \/ BeginEnqueue \/ EnqueueNext \/ EnqueueFails
         \/ StartQueue \/ StartQueueFails
         \/ CStop \/ AudioQueueStop \/ CDestroy \/ Dispose
  PROVE  [Contract!Next]_(Contract!contractVars)
<1>1. UNCHANGED <<handle, rustRunning, op, callback>>
  BY DEF StartRunning, BeginEnqueue, EnqueueNext, EnqueueFails, StartQueue,
         StartQueueFails, Fail, CStop, AudioQueueStop, CDestroy, Dispose,
         Goto, Call
<1> QED
  BY <1>1

\* The callbacks enter and leave the user callback.
LEMMA CallbackRefine ==
  IInv /\ (Callback \/ \E b \in Buffers : Enter(b))
    => [Contract!Next]_(Contract!contractVars)
<1> SUFFICES ASSUME IInv, Callback \/ \E b \in Buffers : Enter(b)
             PROVE  [Contract!Next]_(Contract!contractVars)
  OBVIOUS
<1>1. UNCHANGED ownerVars
  BY DEF Callback, Enter, CallUser, NoPackets, OutputGivesUp, UserReturns,
         InputStillRunning, InputGivesUp, Enqueue, EnqueueRefused,
         CallbackGoes, LeaveBuffer
<1>2. CASE CallUser
  <2>1. callback = "entered" /\ callback' = "user"
    BY <1>2 DEF CallUser, CallbackGoes
  <2>2. Phase \in Contract!Active
    BY <2>1, CallbackPhase
  <2> QED
    BY <1>1, <2>1, <2>2 DEF Contract!EnterCallback
<1>3. CASE UserReturns
  <2>1. callback = "user" /\ callback' \in {"returned", "enqueue"}
    BY <1>3 DEF UserReturns, CallbackGoes
  <2> QED
    BY <1>1, <2>1 DEF Contract!LeaveCallback
<1>4. CASE ~ CallUser /\ ~ UserReturns
  <2>1. callback # "user" /\ callback' # "user"
    BY <1>4 DEF Callback, Enter, NoPackets, OutputGivesUp, InputStillRunning,
                InputGivesUp, Enqueue, EnqueueRefused, CallbackGoes,
                LeaveBuffer
  <2> QED
    BY <1>1, <2>1
<1> QED
  BY <1>2, <1>3, <1>4

HIDE DEF IInv, TypeOK, OwnerTypeOK, OperationInv, PositionInv, CallbackInv,
         OnlyRefusedLeaveRing, Quiet, Playing, Drained, Phase, Contract!Next,
         Contract!contractVars, Contract!Move, Contract!Silent

\* The CoreAudio backend keeps the contract of audio.h: AudioQueueStop waits
\* for the callback in progress, so that a stopped session is silent.
THEOREM Refinement == Spec => ImplementsContract
<1>1. Init => Contract!Init
  BY DEF Init, OwnerInit, Contract!Init, Phase
<1>2. UNCHANGED vars => UNCHANGED Contract!contractVars
  BY DEF vars, Contract!contractVars, Phase
<1>3. IInv /\ [Next]_vars => [Contract!Next]_(Contract!contractVars)
  BY <1>2, UserCallsRefine, ReturnRefine, InsideRefine, CallbackRefine
     DEF Next, Owner
<1> QED
  BY <1>1, <1>3, Invariance, PTL DEF Spec, ImplementsContract, Contract!Spec

\* So an AudioQueue of a stopped session runs no user callback.
THEOREM SilentSession == Spec => []Contract!SilentWhenStopped
<1> USE DEF Phase, Contract!Silent, Contract!SilentWhenStopped
<1>1. IInv => Phase \in Contract!Phases
  BY DEF IInv, TypeOK, OwnerTypeOK, Contract!Phases
<1>2. IInv /\ callback = "user" => queue = "started"
  BY DEF IInv, CallbackInv
<1>3. IInv => Contract!SilentWhenStopped
  BY <1>1, <1>2, CallbackPhase
<1> QED
  BY <1>3, Invariance, PTL

=============================================================================
