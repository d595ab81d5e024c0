------------------------- MODULE WasapiSessionProofs -------------------------
(***************************************************************************)
(* The WASAPI session for any number of packets: the flag, the client and  *)
(* the worker agree, the worker never outlives what it uses, and the       *)
(* contract of the session is kept.                                        *)
(***************************************************************************)
EXTENDS WasapiSession, TLAPS

-----------------------------------------------------------------------------
(* The inductive invariant.                                                *)

\* An operation is where its kind may be.
OperationInv ==
  /\ op = "none" <=> pc = "idle"
  /\ pc \in {"startClient", "spawn"} => op = "start"
  /\ pc \in {"stop", "setEvent", "join", "stopClient", "close"}
       => op \in {"stop", "drop"}
  /\ op = "drop" => ~guard
  /\ pc = "close" => op = "drop"

\* What exists at each position: outside the middle of an operation the flag,
\* the client and the thread go together; a start sets them in the order flag
\* and client, thread, and never meets an old thread; a stop takes them back in
\* the order flag, thread, client.
WorkerInv ==
  /\ handle = "none" =>
       op = "none" /\ ~guard /\ ~running /\ client = "none" /\ thread = "none"
  /\ handle = "alive" => client # "none"
  /\ pc \in {"idle", "startClient", "stop"} =>
       /\ running <=> client = "started"
       /\ running <=> thread # "none"
  /\ pc = "spawn" => running /\ client = "started" /\ thread = "none"
  /\ pc \in {"setEvent", "join"} =>
       ~running /\ client = "started" /\ thread # "none"
  /\ pc = "stopClient" => ~running /\ client = "started" /\ thread = "none"
  /\ pc = "close" => ~running /\ client = "stopped" /\ thread = "none"

\* A buffer stands for a packet that is still in the client.
PacketInv == thread \in {"buffer", "user"} => packets > 0

IInv == TypeOK /\ OperationInv /\ WorkerInv /\ PacketInv

LEMMA InitIInv == Init => IInv
<1> SUFFICES ASSUME Init PROVE IInv
  OBVIOUS
<1>1. packets \in 0..MaxPackets
  BY MaxPacketsAssumption DEF Init
<1>2. TypeOK
  BY <1>1 DEF Init, TypeOK, Positions, Threads
<1>3. OperationInv /\ WorkerInv /\ PacketInv
  BY DEF Init, OperationInv, WorkerInv, PacketInv
<1> QED
  BY <1>2, <1>3 DEF IInv

\* The calls of the user keep the invariant.
LEMMA UserCallsStep == IInv /\ UserCalls => IInv'
<1> SUFFICES ASSUME IInv, UserCalls PROVE IInv'
  OBVIOUS
<1> USE MaxPacketsAssumption
    DEF IInv, TypeOK, OperationInv, WorkerInv, PacketInv, Positions, Threads,
        clientVars
<1>1. CASE Create
  <2>1. packets' \in 0..MaxPackets
    BY <1>1 DEF Create
  <2> QED
    BY <1>1, <2>1 DEF Create
<1>2. CASE CallStart
  BY <1>2 DEF CallStart, Call
<1>3. CASE CallStop
  BY <1>3 DEF CallStop, Call
<1>4. CASE CallDrop
  BY <1>4 DEF CallDrop, Call
<1>5. CASE ForgetGuard
  BY <1>5 DEF ForgetGuard
<1> QED
  BY <1>1, <1>2, <1>3, <1>4, <1>5 DEF UserCalls

\* The steps of start, stop and drop keep it.
LEMMA OwnerStep == IInv /\ Owner => IInv'
<1> SUFFICES ASSUME IInv, Owner PROVE IInv'
  OBVIOUS
<1> USE MaxPacketsAssumption
    DEF IInv, TypeOK, OperationInv, WorkerInv, PacketInv, Positions, Threads,
        clientVars
<1>1. CASE StartClient
  BY <1>1 DEF StartClient, Goto
<1>2. CASE StartClientFails
  BY <1>2 DEF StartClientFails, Return
<1>3. CASE Spawn
  BY <1>3 DEF Spawn, Return
<1>4. CASE SpawnFails
  BY <1>4 DEF SpawnFails, Return
<1>5. CASE StopNothing
  BY <1>5 DEF StopNothing, Return, Goto
<1>6. CASE ClearRunning
  BY <1>6 DEF ClearRunning, Goto
<1>7. CASE SetEvent
  BY <1>7 DEF SetEvent, Goto
<1>8. CASE Join
  BY <1>8 DEF Join, Goto
<1>9. CASE StopClient
  BY <1>9 DEF StopClient, Return, Goto
<1>10. CASE Close
  BY <1>10 DEF Close
<1> QED
  BY <1>1, <1>2, <1>3, <1>4, <1>5, <1>6, <1>7, <1>8, <1>9, <1>10 DEF Owner

\* The worker moves through its loop, and the engine adds packets.
LEMMA WorkerStep ==
  IInv /\ (Worker \/ WaitTimeout \/ WaitFails \/ Period) => IInv'
<1> SUFFICES ASSUME IInv, Worker \/ WaitTimeout \/ WaitFails \/ Period
             PROVE  IInv'
  OBVIOUS
<1> USE MaxPacketsAssumption
    DEF IInv, TypeOK, OperationInv, WorkerInv, PacketInv, Positions, Threads,
        ownerVars, clientVars
<1>1. CASE LoopCondition \/ Woken
  BY <1>1 DEF LoopCondition, Woken, Look, ThreadGoes
<1>2. CASE WaitEvent
  BY <1>2 DEF WaitEvent
<1>3. CASE WaitTimeout \/ WaitFails \/ EndOfPackets
  BY <1>3 DEF WaitTimeout, WaitFails, EndOfPackets, ThreadGoes
<1>4. CASE GetBuffer
  BY <1>4 DEF GetBuffer, ThreadGoes
<1>5. CASE SkipPacket
  <2>1. packets \in 0..MaxPackets /\ packets > 0 /\ packets' = packets - 1
    BY <1>5 DEF SkipPacket, Release, ThreadGoes
  <2>2. packets' \in 0..MaxPackets
    BY <2>1
  <2> QED
    BY <1>5, <2>2 DEF SkipPacket, Release, ThreadGoes
<1>6. CASE CallUser \/ UserPanics
  BY <1>6 DEF CallUser, UserPanics, ThreadGoes
<1>7. CASE UserReturns
  <2>1. packets \in 0..MaxPackets /\ packets > 0 /\ packets' = packets - 1
    BY <1>7 DEF UserReturns, Release, ThreadGoes
  <2>2. packets' \in 0..MaxPackets
    BY <2>1
  <2> QED
    BY <1>7, <2>2 DEF UserReturns, Release, ThreadGoes
<1>8. CASE Period
  BY <1>8 DEF Period
<1> QED
  BY <1>1, <1>2, <1>3, <1>4, <1>5, <1>6, <1>7, <1>8 DEF Worker

LEMMA Inductive == IInv /\ [Next]_vars => IInv'
<1>1. IInv /\ UNCHANGED vars => IInv'
  BY DEF IInv, TypeOK, OperationInv, WorkerInv, PacketInv, vars, ownerVars,
         clientVars
<1> QED
  BY <1>1, UserCallsStep, OwnerStep, WorkerStep DEF Next

LEMMA Invariance == Spec => []IInv
  BY InitIInv, Inductive, PTL DEF Spec

-----------------------------------------------------------------------------
(* The safety properties.                                                  *)

\* Every variable keeps its type, the packets of the client their bound.
THEOREM TypeCorrect == Spec => []TypeOK
<1>1. IInv => TypeOK
  BY DEF IInv
<1> QED
  BY <1>1, Invariance, PTL

\* Between two operations is_running, the client and the thread agree, after
\* every failed start, forgotten guard and panic.
THEOREM FlagIsTrue == Spec => []FlagTellsTheTruth
<1>1. IInv => FlagTellsTheTruth
  BY DEF IInv, OperationInv, WorkerInv, FlagTellsTheTruth
<1> QED
  BY <1>1, Invariance, PTL

\* The pointers that start copies into the worker are valid as long as the
\* worker uses them, which is what its unsafe blocks rely on.
THEOREM WorkerUsesLiveClient == Spec => []NoUseAfterClose
<1>1. IInv => NoUseAfterClose
  BY DEF IInv, TypeOK, OperationInv, WorkerInv, NoUseAfterClose, Positions
<1> QED
  BY <1>1, Invariance, PTL

\* No way through a packet but a panic leaves its buffer held; no step of the
\* owner takes the worker out of a packet, as spawn never meets an old worker.
THEOREM BuffersAreReleased == Spec => NoBufferLeak
<1>1. ASSUME IInv, [Next]_vars
      PROVE  [(thread \in {"buffer", "user"} /\ thread' \in {"packets", "top"})
                => ~held']_vars
  <2>1. CASE UserCalls
    BY <2>1 DEF UserCalls, Create, CallStart, CallStop, CallDrop, Call,
                ForgetGuard
  <2>2. CASE Owner
    <3>1. CASE Spawn
      BY <1>1, <3>1 DEF Spawn, Return, IInv, WorkerInv
    <3>2. CASE ~Spawn
      BY <2>2, <3>2 DEF Owner, StartClient, StartClientFails, SpawnFails,
        StopNothing, ClearRunning, SetEvent, Join, StopClient, Close
    <3> QED
      BY <3>1, <3>2
  <2>3. CASE Worker \/ WaitTimeout \/ WaitFails \/ Period
    BY <2>3 DEF Worker, LoopCondition, WaitEvent, Woken, EndOfPackets,
                GetBuffer, SkipPacket, CallUser, UserReturns, UserPanics,
                WaitTimeout, WaitFails, Period, Look, Release, ThreadGoes
  <2>4. CASE UNCHANGED vars
    BY <2>4
  <2> QED
    BY <1>1, <2>1, <2>2, <2>3, <2>4 DEF Next
<1> QED
  BY <1>1, Invariance, PTL DEF Spec, NoBufferLeak

-----------------------------------------------------------------------------
(* The refinement of the contract.                                         *)

\* The worker calls the user in the active phases alone.
LEMMA CallbackPhase ==
  ASSUME IInv, thread \notin {"none", "exited"}
  PROVE  Phase \in Contract!Active
  BY DEF IInv, TypeOK, OperationInv, WorkerInv, Positions, Phase, Contract!Active

\* The calls of the user map to the contract.
LEMMA UserCallsRefine ==
  IInv /\ UserCalls => [Contract!Next]_(Contract!contractVars)
<1> SUFFICES ASSUME IInv, UserCalls
             PROVE  [Contract!Next]_(Contract!contractVars)
  OBVIOUS
<1> USE DEF IInv, TypeOK, OperationInv, WorkerInv, Positions, clientVars, Phase,
            Contract!Next, Contract!contractVars, Contract!Move
<1>1. CASE Create
  BY <1>1 DEF Create, Contract!Create
<1>2. CASE CallStart
  BY <1>2 DEF CallStart, Call, Contract!BeginStart
<1>3. CASE CallStop
  BY <1>3 DEF CallStop, Call, Contract!BeginStop
<1>4. CASE CallDrop
  BY <1>4 DEF CallDrop, Call, Contract!BeginStop
<1>5. CASE ForgetGuard
  BY <1>5 DEF ForgetGuard
<1> QED
  BY <1>1, <1>2, <1>3, <1>4, <1>5 DEF UserCalls

\* So do the steps of start, stop and drop.
LEMMA OwnerRefine ==
  IInv /\ Owner => [Contract!Next]_(Contract!contractVars)
<1> SUFFICES ASSUME IInv, Owner
             PROVE  [Contract!Next]_(Contract!contractVars)
  OBVIOUS
<1> USE DEF IInv, TypeOK, OperationInv, WorkerInv, Positions, clientVars, Phase,
            Contract!Next, Contract!contractVars, Contract!Move, Contract!Silent
<1>1. CASE StartClient
  BY <1>1 DEF StartClient, Goto
<1>2. CASE StartClientFails
  BY <1>2 DEF StartClientFails, Return, Contract!StartFailed
<1>3. CASE Spawn
  BY <1>3 DEF Spawn, Return, Contract!StartOk
<1>4. CASE SpawnFails
  BY <1>4 DEF SpawnFails, Return, Contract!StartFailed
<1>5. CASE StopNothing
  BY <1>5 DEF StopNothing, Return, Goto
<1>6. CASE ClearRunning
  BY <1>6 DEF ClearRunning, Goto
<1>7. CASE SetEvent
  BY <1>7 DEF SetEvent, Goto
<1>8. CASE Join
  BY <1>8 DEF Join, Goto
<1>9. CASE StopClient
  BY <1>9 DEF StopClient, Return, Goto, Contract!StopDone
<1>10. CASE Close
  BY <1>10 DEF Close, Contract!Destroy
<1> QED
  BY <1>1, <1>2, <1>3, <1>4, <1>5, <1>6, <1>7, <1>8, <1>9, <1>10 DEF Owner

\* The worker enters and leaves the callback, and does nothing else that the
\* contract sees.
LEMMA WorkerRefine ==
  IInv /\ (Worker \/ WaitTimeout \/ WaitFails \/ Period)
    => [Contract!Next]_(Contract!contractVars)
<1> SUFFICES ASSUME IInv, Worker \/ WaitTimeout \/ WaitFails \/ Period
             PROVE  [Contract!Next]_(Contract!contractVars)
  OBVIOUS
<1>1. UNCHANGED Phase
  BY DEF Worker, LoopCondition, WaitEvent, Woken, EndOfPackets, GetBuffer,
         SkipPacket, CallUser, UserReturns, UserPanics, WaitTimeout, WaitFails,
         Period, Look, Release, ThreadGoes, ownerVars, Phase
<1>2. CASE CallUser
  <2>1. Phase \in Contract!Active /\ thread = "buffer" /\ thread' = "user"
    BY <1>2, CallbackPhase DEF CallUser, ThreadGoes
  <2>2. Contract!EnterCallback
    BY <1>1, <2>1 DEF Contract!EnterCallback, Contract!Silent
  <2> QED
    BY <2>2 DEF Contract!Next
<1>3. CASE UserReturns \/ UserPanics
  <2>1. thread = "user" /\ thread' # "user"
    BY <1>3 DEF UserReturns, UserPanics, Release, ThreadGoes
  <2>2. Contract!LeaveCallback
    BY <1>1, <2>1 DEF Contract!LeaveCallback
  <2> QED
    BY <2>2 DEF Contract!Next
<1>4. CASE /\ ~(CallUser \/ UserReturns \/ UserPanics)
  <2>1. thread = "user" <=> thread' = "user"
    BY <1>4 DEF Worker, LoopCondition, WaitEvent, Woken, EndOfPackets, GetBuffer,
         SkipPacket, WaitTimeout, WaitFails, Period, Look, Release, ThreadGoes
  <2> QED
    BY <1>1, <2>1 DEF Contract!contractVars
<1> QED
  BY <1>2, <1>3, <1>4

\* The WASAPI backend keeps the contract of audio.h: stop and drop return
\* after the last callback, a failed start leaves a stopped session, and
\* callbacks are serial.
THEOREM Refinement == Spec => ImplementsContract
<1>1. Init => Contract!Init
  BY DEF Init, Contract!Init, Phase
<1>2. UNCHANGED vars => UNCHANGED Contract!contractVars
  BY DEF vars, ownerVars, clientVars, Contract!contractVars, Phase
<1>3. IInv /\ [Next]_vars => [Contract!Next]_(Contract!contractVars)
  BY <1>2, UserCallsRefine, OwnerRefine, WorkerRefine DEF Next
<1> QED
  BY <1>1, <1>3, Invariance, PTL DEF Spec, ImplementsContract, Contract!Spec

\* So the worker of a stopped WASAPI session is out of the user callback.
THEOREM SilentSession == Spec => []Contract!SilentWhenStopped
<1> USE DEF Phase, Contract!Silent, Contract!SilentWhenStopped
<1>1. IInv => Phase \in Contract!Phases
  BY DEF IInv, TypeOK, OperationInv, Contract!Phases
<1>2. IInv /\ thread = "user" => Phase \in Contract!Active
  BY CallbackPhase
<1>3. IInv => Contract!SilentWhenStopped
  BY <1>1, <1>2
<1> QED
  BY <1>3, Invariance, PTL

=============================================================================
