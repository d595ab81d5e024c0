-------------------------- MODULE ComApartmentProofs --------------------------
(***************************************************************************)
(* For any number of threads, nesting depth, configuration and field       *)
(* width: COM's counts balance, an object whose holder keeps the apartment *)
(* has valid pointers, its handle is accounted for and its format is       *)
(* exact.                                                                  *)
(***************************************************************************)
EXTENDS ComApartment, TLAPS

-----------------------------------------------------------------------------
(* Types.                                                                  *)

\* Every variable keeps its type: no thread gives back a count it does not
\* have, no handle is closed that was not open.  The second half needs the
\* account of the handles and the first the balance of the counts.
Typed == TypeOK /\ InitBalanced /\ HandlesAccounted

LEMMA TypedInit == Init => Typed
<1> SUFFICES ASSUME Init PROVE Typed
  OBVIOUS
<1>1. sta \subseteq Threads
  BY DEF Init
<1>2. InitBalanced
  BY DEF Init, InitBalanced
<1>3. count \in [Threads -> Nat] /\ guards \in [Threads -> Nat]
  BY DEF Init
<1>4. HandlesAccounted
  BY DEF Init, HandlesAccounted
<1> QED
  BY <1>1, <1>2, <1>3, <1>4 DEF Init, Typed, TypeOK

LEMMA TypedStep == Typed /\ [Next]_vars => Typed'
<1> SUFFICES ASSUME Typed, [Next]_vars PROVE Typed'
  OBVIOUS
<1> USE DEF Typed, TypeOK, InitBalanced, HandlesAccounted
<1>1. ASSUME NEW t \in Threads, InitializeThread(t) PROVE Typed'
  BY <1>1 DEF InitializeThread, object
<1>2. ASSUME NEW t \in Threads, DropGuard(t) PROVE Typed'
  BY <1>2 DEF DropGuard, object, Expose
<1>3. ASSUME NEW t \in Threads, GetClient(t) PROVE Typed'
  BY <1>3 DEF GetClient, com
<1>4. ASSUME NEW t \in Threads, Move(t) PROVE Typed'
  BY <1>4 DEF Move, com, Expose
<1>5. CASE CreateEvent \/ SetEventHandle \/ ClientFails \/ SetEventHandleFails
  BY <1>5 DEF CreateEvent, SetEventHandle, ClientFails, SetEventHandleFails,
              Becomes, com
<1>6. CASE Start \/ Stop \/ Joined \/ Drop
  BY <1>6 DEF Start, Stop, Joined, Drop, Becomes, com
<1>7. CASE WorkerStarts \/ WorkerEnds
  BY <1>7 DEF WorkerStarts, WorkerEnds, Expose, com, object
<1>8. CASE UNCHANGED vars
  BY <1>8 DEF vars, com, object
<1> QED
  BY <1>1, <1>2, <1>3, <1>4, <1>5, <1>6, <1>7, <1>8 DEF Next

LEMMA TypedAlways == Spec => []Typed
  BY TypedInit, TypedStep, PTL DEF Spec

\* Every variable of the COM model keeps its type.
THEOREM TypeCorrect == Spec => []TypeOK
  BY TypedAlways, PTL DEF Typed

\* ComGuard balances what init_mta counted, on every thread: nested guards
\* are given back one by one, and the STA of the program is left alone.
THEOREM CountsBalance == Spec => []InitBalanced
  BY TypedAlways, PTL DEF Typed

\* new, with each of its failures, and drop open and close one handle.
THEOREM OneHandle == Spec => []HandlesAccounted
  BY TypedAlways, PTL DEF Typed

-----------------------------------------------------------------------------
(* The COM pointers.                                                       *)

\* An object that is not exposed has a thread that keeps the apartment: the
\* one that holds it, which is in no STA, or its own worker.  A worker is
\* there only between start and the join of stop, so that no operation on
\* the object replaces the worker that keeps it.
Kept ==
  /\ PointersValid
  /\ session # "none" => home \notin sta
  /\ session \in {"none", "client", "event", "stopped"} => worker = "none"
  /\ session # "none" /\ ~ exposed => guards[home] > 0 \/ worker = "mta"

\* A thread with a guard, or the worker, is all that the apartment needs.
LEMMA GuardKeepsApartment ==
  ASSUME Typed, NEW t \in Threads \ sta, guards[t] > 0, NEW w
  PROVE  Apartment(count, w)
  BY DEF Typed, TypeOK, InitBalanced, Apartment

LEMMA KeptInit == Init => Kept
  BY DEF Init, Kept, PointersValid

LEMMA KeptStep == Typed /\ Kept /\ [Next]_vars => Kept'
<1> SUFFICES ASSUME Typed, Kept, [Next]_vars PROVE Kept'
  OBVIOUS
<1>0. Typed'
  BY TypedStep
<1>a. /\ home \in Threads /\ guards \in [Threads -> Nat]
      /\ valid \in BOOLEAN /\ exposed \in BOOLEAN
  BY DEF Typed, TypeOK
<1> USE DEF Kept, PointersValid
<1>1. ASSUME NEW t \in Threads, InitializeThread(t) PROVE Kept'
  BY <1>1, <1>a DEF InitializeThread, object
<1>2. ASSUME NEW t \in Threads, DropGuard(t) PROVE Kept'
  <2>1. session' # "none" /\ ~ exposed'
          => /\ session # "none" /\ ~ exposed /\ home \notin sta
             /\ guards'[home] > 0 \/ worker = "mta"
    BY <1>2, <1>a DEF DropGuard, object, Expose
  <2>2. session' # "none" /\ ~ exposed' => Apartment(count', worker)
    <3>1. ASSUME session' # "none", ~ exposed', guards'[home] > 0
          PROVE  Apartment(count', worker)
      BY <1>0, <1>2, <1>a, <2>1, <3>1
         DEF DropGuard, object, Typed, TypeOK, InitBalanced, Apartment
    <3> QED
      BY <2>1, <3>1 DEF Apartment
  <2> QED
    BY <1>2, <1>a, <2>1, <2>2 DEF DropGuard, object, Expose
<1>3. ASSUME NEW t \in Threads, GetClient(t) PROVE Kept'
  <2>1. ~ exposed' => guards'[home'] > 0
    <3>1. (exposed' <=> guards[t] = 0) /\ home' = t /\ guards' = guards
      BY <1>3 DEF GetClient, com
    <3>2. guards[t] \in Nat
      BY <1>a
    <3> QED
      BY <3>1, <3>2
  <2>2. valid' = TRUE
    BY <1>3 DEF GetClient
  <2>3. home' \notin sta' /\ session' = "client" /\ worker' = "none"
    BY <1>3 DEF GetClient, CanUse, com
  <2> QED
    BY <2>1, <2>2, <2>3
<1>4. ASSUME NEW t \in Threads, Move(t) PROVE Kept'
  BY <1>4, <1>a DEF Move, com, Expose
<1>5. CASE CreateEvent \/ SetEventHandle \/ ClientFails \/ SetEventHandleFails
  BY <1>5 DEF CreateEvent, SetEventHandle, ClientFails, SetEventHandleFails,
              Becomes, com
<1>6. CASE Start \/ Stop \/ Joined \/ Drop
  BY <1>6 DEF Start, Stop, Joined, Drop, Becomes, com
<1>7. CASE WorkerStarts
  BY <1>7 DEF WorkerStarts, com, object
<1>8. CASE WorkerEnds
  <2>1. session' # "none" /\ ~ exposed'
          => session # "none" /\ ~ exposed /\ guards[home] > 0
    BY <1>8, <1>a DEF WorkerEnds, com, object, Expose
  <2>2. session' # "none" /\ ~ exposed' => Apartment(count, "ended")
    BY <1>a, <2>1, GuardKeepsApartment
  <2> QED
    BY <1>8, <2>1, <2>2 DEF WorkerEnds, com, object, Expose
<1>9. CASE UNCHANGED vars
  BY <1>9 DEF vars, com, object
<1> QED
  BY <1>1, <1>2, <1>3, <1>4, <1>5, <1>6, <1>7, <1>8, <1>9 DEF Next

\* Send is sound under its condition: while the thread that holds a session
\* has a guard, or the worker runs in the apartment, the pointers are valid.
THEOREM SendIsSound == Spec => []PointersValid
<1>1. Init => Kept
  BY KeptInit
<1>2. Typed /\ Kept /\ [Next]_vars => Kept'
  BY KeptStep
<1>3. Kept => PointersValid
  BY DEF Kept
<1> QED
  BY <1>1, <1>2, <1>3, TypedAlways, PTL DEF Spec

-----------------------------------------------------------------------------
(* The format.                                                             *)

\* A value that stands for the default is replaced by one above zero.
LEMMA RoundedPositive ==
  ASSUME NEW value \in Int, NEW default \in Nat \ {0}
  PROVE  Rounded(value, default) \in Nat \ {0}
  BY DEF Rounded

\* What build_wave_format and the conversions let through is exact.
LEMMA BuiltFormatExact ==
  ASSUME NEW rate \in Nat \ {0}, NEW channels \in Nat \ {0},
         NEW f, f = build_wave_format(rate, channels), Representable(f)
  PROVE  /\ f.rate > 0 /\ f.channels > 0
         /\ f.block = 2 * f.channels
         /\ f.bytes = f.rate * f.block
         /\ f.block <= MaxU16 /\ f.bytes <= MaxU32
<1>1. rate * 2 * channels = rate * (2 * channels)
  OBVIOUS
<1> QED
  BY <1>1 DEF build_wave_format, Representable

LEMMA FormatStep == FormatExact /\ [Next]_vars => FormatExact'
<1> SUFFICES ASSUME FormatExact, [Next]_vars PROVE FormatExact'
  OBVIOUS
<1>1. ASSUME NEW t \in Threads, GetClient(t) PROVE FormatExact'
  <2>1. PICK rate \in Rates, channels \in Channels :
          /\ format' = build_wave_format(Rounded(rate, DefaultRate),
                                         Rounded(channels, 1))
          /\ Representable(format')
    BY <1>1 DEF GetClient
  <2>2. /\ Rounded(rate, DefaultRate) \in Nat \ {0}
        /\ Rounded(channels, 1) \in Nat \ {0}
    BY RoundedPositive, ComAssumption
  <2> QED
    BY <2>1, <2>2, BuiltFormatExact DEF FormatExact
<1>2. ASSUME NEW t \in Threads, InitializeThread(t) \/ DropGuard(t) \/ Move(t)
      PROVE  FormatExact'
  BY <1>2 DEF InitializeThread, DropGuard, Move, object, FormatExact
<1>3. CASE CreateEvent \/ SetEventHandle \/ ClientFails \/ SetEventHandleFails
  BY <1>3 DEF CreateEvent, SetEventHandle, ClientFails, SetEventHandleFails,
              Becomes, FormatExact
<1>4. CASE Start \/ Stop \/ Joined \/ Drop
  BY <1>4 DEF Start, Stop, Joined, Drop, Becomes, FormatExact
<1>5. CASE WorkerStarts \/ WorkerEnds \/ UNCHANGED vars
  BY <1>5 DEF WorkerStarts, WorkerEnds, object, vars, FormatExact
<1> QED
  BY <1>1, <1>2, <1>3, <1>4, <1>5 DEF Next

\* No field of a client's WAVEFORMATEX has wrapped, at any configuration.
THEOREM FormatsAreExact == Spec => []FormatExact
<1>1. Init => FormatExact
  BY DEF Init, FormatExact
<1> QED
  BY <1>1, FormatStep, PTL DEF Spec

=============================================================================
