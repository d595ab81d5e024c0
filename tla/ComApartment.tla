----------------------------- MODULE ComApartment -----------------------------
(***************************************************************************)
(* COM under the WASAPI backend: initialize_thread and its guards, the     *)
(* worker's own initialisation, and a session object that carries COM      *)
(* pointers and an event handle from thread to thread.                     *)
(*                                                                         *)
(* CoInitializeEx and CoUninitialize count for each thread.  The           *)
(* multithreaded apartment exists while some thread holds a count in it;   *)
(* it serves every other thread that has none, and takes the objects made  *)
(* in it along when it ends.                                               *)
(***************************************************************************)
EXTENDS Integers, FiniteSets

CONSTANTS
  Threads,
  MaxGuards,      \* bound on the guards of a thread
  Rates,          \* configured sample rates (i32)
  Channels,       \* configured channel counts (i32)
  DefaultRate,    \* 48000
  MaxU16, MaxU32  \* what the fields of WAVEFORMATEX hold

ASSUME ComAssumption ==
  /\ IsFiniteSet(Threads)
  /\ MaxGuards \in Nat \ {0}
  /\ Rates \subseteq Int /\ Channels \subseteq Int
  /\ DefaultRate \in Nat \ {0}
  /\ MaxU16 \in Nat /\ MaxU32 \in Nat

VARIABLES
  sta,      \* threads that the program has put in an STA of their own
  count,    \* COM's count of each thread
  guards,   \* the ThreadGuards alive on each thread
  session,  \* the capture or playback object, and how far it has come
  home,     \* the thread that holds it
  format,   \* the WAVEFORMATEX of its client
  valid,    \* the apartment that its COM pointers were made in still exists
  worker,   \* its thread
  handles,  \* open event handles
  exposed   \* history: nothing of the object's own kept its apartment

com    == <<sta, count, guards>>
object == <<session, home, format>>
vars   == <<com, object, valid, worker, handles, exposed>>

NoFormat == [channels |-> 0, rate |-> 0, block |-> 0, bytes |-> 0]

\* Some thread of the program is free for the crate.
Init ==
  /\ sta \in (SUBSET Threads) \ {Threads}
  /\ count = [t \in Threads |-> IF t \in sta THEN 1 ELSE 0]
  /\ guards = [t \in Threads |-> 0]
  /\ session = "none" /\ home \in Threads /\ format = NoFormat
  /\ valid = TRUE /\ worker = "none" /\ handles = 0 /\ exposed = FALSE

\* The thread is inside new or stop.
Busy(t) == home = t /\ session \in {"client", "event", "stopping"}

\* A thread of the apartment, or the worker, keeps it alive.
Apartment(counts, thread) ==
  thread = "mta" \/ \E t \in Threads \ sta : counts[t] > 0

\* The object is held by a thread without a guard while no worker is in the
\* apartment.
Expose ==
  exposed' = (exposed \/ (session' # "none" /\ guards'[home'] = 0 /\ worker' # "mta"))

-----------------------------------------------------------------------------
(* ComGuard and ThreadGuard.                                               *)

\* Mutant: RPC_E_CHANGED_MODE passes for a success.
InitAnyApartment(t) ==
  /\ guards[t] < MaxGuards /\ ~ Busy(t)
  /\ guards' = [guards EXCEPT ![t] = @ + 1]
  /\ count' = IF t \in sta THEN count ELSE [count EXCEPT ![t] = @ + 1]
  /\ UNCHANGED <<sta, object, valid, worker, handles, exposed>>

\* Mutant: S_FALSE is taken to leave the count as it was, and undone.
InitFirstOnly(t) ==
  /\ guards[t] < MaxGuards /\ ~ Busy(t) /\ t \notin sta
  /\ guards' = [guards EXCEPT ![t] = @ + 1]
  /\ count' = [count EXCEPT ![t] = 1]
  /\ UNCHANGED <<sta, object, valid, worker, handles, exposed>>

\* initialize_thread: init_mta counts each time, on a thread that is in the
\* apartment (S_FALSE) too, and fails on one of an STA (ComInitFailed).
InitializeThread(t) ==
  /\ guards[t] < MaxGuards /\ ~ Busy(t) /\ t \notin sta
  /\ guards' = [guards EXCEPT ![t] = @ + 1]
  /\ count' = [count EXCEPT ![t] = @ + 1]
  /\ UNCHANGED <<sta, object, valid, worker, handles, exposed>>

\* The drop of a guard, or the end of its thread, with or without a session
\* on the thread: nothing ties the one to the other.
DropGuard(t) ==
  /\ guards[t] > 0 /\ ~ Busy(t)
  /\ guards' = [guards EXCEPT ![t] = @ - 1]
  /\ count' = [count EXCEPT ![t] = @ - 1]
  /\ valid' = (valid /\ (session # "none" => Apartment(count', worker)))
  /\ UNCHANGED <<sta, object, worker, handles>>
  /\ Expose

-----------------------------------------------------------------------------
(* The object.                                                             *)

\* A value of zero or less stands for the default.
Rounded(value, default) == IF value <= 0 THEN default ELSE value

\* Mutant: the product of u32 values wraps.
WrappedFormat(rate, channels) ==
  [channels |-> channels, rate |-> rate, block |-> 2 * channels,
   bytes |-> (rate * 2 * channels) % (MaxU32 + 1)]

\* build_wave_format of S16 samples, calculated in u64.
build_wave_format(rate, channels) ==
  [channels |-> channels, rate |-> rate, block |-> 2 * channels,
   bytes |-> rate * 2 * channels]

\* The conversions that reject a format, of new and of build_wave_format.
Representable(f) ==
  f.channels <= MaxU16 /\ f.block <= MaxU16 /\ f.bytes <= MaxU32

\* CoCreateInstance works in the apartment of the thread or, on a thread that
\* has none, in the one that another thread keeps; else it is ComInitFailed.
\* The program heeds a failed initialize_thread: no STA uses the crate.
CanUse(t) == t \notin sta /\ Apartment(count, worker)

\* new, up to the client: the device, its client, the format, the service.
GetClient(t) ==
  /\ session = "none" /\ CanUse(t)
  /\ \E rate \in Rates, channels \in Channels :
       LET f == build_wave_format(Rounded(rate, DefaultRate), Rounded(channels, 1))
       IN Representable(f) /\ format' = f
  /\ session' = "client" /\ home' = t
  /\ valid' = TRUE /\ exposed' = (guards[t] = 0)
  /\ UNCHANGED <<com, worker, handles>>

Becomes(from, to) ==
  /\ session = from
  /\ session' = to
  /\ UNCHANGED <<com, home, format, valid, exposed>>

CreateEvent ==
  /\ Becomes("client", "event")
  /\ handles' = handles + 1 /\ UNCHANGED worker

SetEventHandle == Becomes("event", "stopped") /\ UNCHANGED <<worker, handles>>

\* Initialize, GetService or CreateEventW fails.
ClientFails == Becomes("client", "none") /\ UNCHANGED <<worker, handles>>

\* Mutant: the event is not closed.
SetEventHandleLeaks == Becomes("event", "none") /\ UNCHANGED <<worker, handles>>

SetEventHandleFails ==
  /\ Becomes("event", "none")
  /\ handles' = handles - 1 /\ UNCHANGED worker

\* Send: the object and its session guard go to any thread, between calls.
Move(t) ==
  /\ session \in {"stopped", "running"} /\ t # home /\ t \notin sta
  /\ home' = t
  /\ UNCHANGED <<com, session, format, valid, worker, handles>>
  /\ Expose

\* Start and spawn: the worker has a copy of a pointer and no apartment yet.
Start ==
  /\ Becomes("stopped", "running")
  /\ worker' = "spawned" /\ UNCHANGED handles

Stop == Becomes("running", "stopping") /\ UNCHANGED <<worker, handles>>

Joined ==
  /\ Becomes("stopping", "stopped") /\ worker = "ended"
  /\ worker' = "none" /\ UNCHANGED handles

\* The handle is closed and the COM pointers are released.
Drop ==
  /\ Becomes("stopped", "none")
  /\ handles' = handles - 1 /\ UNCHANGED worker

-----------------------------------------------------------------------------
(* The worker.                                                             *)

\* Its own init_mta; a failure is ignored.
WorkerStarts ==
  /\ worker = "spawned"
  /\ worker' \in {"mta", "bare"}
  /\ UNCHANGED <<com, object, valid, handles, exposed>>

\* The loop ends on a stop, or by a panic of the callback.
WorkerEnds ==
  /\ worker \in {"mta", "bare"}
  /\ worker' = "ended"
  /\ valid' = (valid /\ Apartment(count, "ended"))
  /\ UNCHANGED <<com, object, handles>>
  /\ Expose

Next ==
  \/ \E t \in Threads :
       InitializeThread(t) \/ DropGuard(t) \/ GetClient(t) \/ Move(t)
  \/ CreateEvent \/ SetEventHandle \/ ClientFails \/ SetEventHandleFails
  \/ Start \/ Stop \/ Joined \/ Drop
  \/ WorkerStarts \/ WorkerEnds

Spec == Init /\ [][Next]_vars

-----------------------------------------------------------------------------
(* Properties.                                                             *)

TypeOK ==
  /\ sta \subseteq Threads
  /\ count \in [Threads -> Nat] /\ guards \in [Threads -> Nat]
  /\ session \in {"none", "client", "event", "stopped", "running", "stopping"}
  /\ home \in Threads
  /\ valid \in BOOLEAN /\ exposed \in BOOLEAN
  /\ worker \in {"none", "spawned", "mta", "bare", "ended"}
  /\ handles \in Nat

\* Every count of COM is the program's own or that of a guard that will give
\* it back: guards nest, and a failed initialisation takes nothing from the
\* STA of the program.
InitBalanced ==
  \A t \in Threads : count[t] = guards[t] + (IF t \in sta THEN 1 ELSE 0)

\* The COM pointers of an object never outlive the apartment they were made
\* in, as long as the thread that holds the object has a guard or its worker
\* runs with one: the Send implementations rest on that.
PointersValid == session # "none" /\ ~ exposed => valid

\* The object owns one event handle, and a new that fails leaves none open.
HandlesAccounted ==
  handles = IF session \in {"none", "client"} THEN 0 ELSE 1

\* A client is initialised with a format in which no field has wrapped and
\* none is zero: a second of it is rate times channels samples of two bytes.
FormatExact ==
  session # "none" =>
    /\ format.rate > 0 /\ format.channels > 0
    /\ format.block = 2 * format.channels
    /\ format.bytes = format.rate * format.block
    /\ format.block <= MaxU16 /\ format.bytes <= MaxU32

=============================================================================
