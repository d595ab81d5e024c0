--------------------------- MODULE DeviceEnumeration ---------------------------
(***************************************************************************)
(* A call of AudioDeviceList::enumerate*, and the list it returns.         *)
(*                                                                         *)
(* The C backends collect the devices in an array of theirs and hand it to *)
(* FfiDeviceListImpl, which picks the wanted ones, keeps the array for as  *)
(* long as the list lives, and gives it back to the backend.  WASAPI       *)
(* collects into a Vec.  Devices come and go while the call goes on, the   *)
(* server can be lost, and any allocation or query can fail.               *)
(***************************************************************************)
EXTENDS Backends, Sequences

CONSTANTS
  Devices,
  Inputs,        \* the devices that record
  Outputs,       \* the devices that play; a headset does both
  Monitors,      \* sources that are the monitor of a sink
  FirstCapacity  \* entries of the first array (8 in the code)

ASSUME EnumerationAssumption ==
  /\ IsFiniteSet(Devices)
  /\ Inputs \subseteq Devices /\ Outputs \subseteq Devices
  /\ Monitors \subseteq Devices \ (Inputs \union Outputs)
  /\ FirstCapacity \in Nat \ {0}

Types == {"input", "output"}
Entry == [device : Devices, type : Types]

VARIABLES
  build,     \* the cfgs of the program
  present,   \* the devices there are
  server,    \* "up" or "lost": the server, or the connection to it
  list,      \* the AudioDeviceList of the user, or NoList
  live,      \* blocks of memory that the C code has allocated and not freed
  \* The call in progress.
  backend, filter,
  pc,        \* where it is, or "idle"
  side,      \* the list that is being asked for
  todo,      \* entries reported to the backend and not yet looked at
  slots,     \* elements of deviceIDs that hold no device ID
  ids,       \* deviceIDs is allocated
  found,     \* EnumerateContext::devices
  capacity,  \* its allocated length, 0 for NULL
  \* History of the call, for the properties.
  ever,      \* devices present at some time
  stable,    \* devices present all the time
  excused,   \* a query or an allocation has failed, or the devices changed
             \* under CoreAudio
  cut        \* the list was returned without the answers of PulseAudio

environment == <<build, present, server>>
query       == <<backend, filter, side>>
array       == <<found, capacity, live>>
history     == <<ever, stable, excused, cut>>
vars        == <<environment, list, query, pc, todo, slots, ids, array, history>>

NoList ==
  [backend |-> "none", entries |-> <<>>, array |-> FALSE, devices |-> <<>>]

Init ==
  /\ build \in Builds
  /\ present \in SUBSET Devices /\ server = "up"
  /\ list = NoList /\ live = 0
  /\ backend = "none" /\ filter = "all" /\ side = "input"
  /\ pc = "idle" /\ todo = {} /\ slots = 0 /\ ids = FALSE
  /\ found = <<>> /\ capacity = 0
  /\ ever = {} /\ stable = {} /\ excused = FALSE /\ cut = FALSE

\* The entries of devices on one side, and on both.
Entries(devices, type) ==
  {[device |-> d, type |-> type] :
     d \in devices \intersect (IF type = "input" THEN Inputs ELSE Outputs)}

Offered(devices) == Entries(devices, "input") \union Entries(devices, "output")

\* What PulseAudio reports as sources and as sinks.
Reported(devices, type) ==
  Entries(devices, type) \union
    {[device |-> d, type |-> type] :
       d \in IF type = "input" THEN devices \intersect Monitors ELSE {}}

\* Blocks of an array of n entries, each with its two strings, and of no
\* array.
ArrayBlocks(n, length) == IF length > 0 THEN 3 * n + 1 ELSE 0

-----------------------------------------------------------------------------
(* The user and the environment.                                           *)

\* enumerate, enumerate_input and enumerate_output, of any backend.
Enumerate(wanted) ==
  /\ pc = "idle" /\ list = NoList
  /\ pc' = "connect"
  /\ \E b \in Callable(build) : backend' = b
  /\ filter' = wanted
  /\ side' = "input"
  /\ ever' = present /\ stable' = present /\ excused' = FALSE /\ cut' = FALSE
  /\ UNCHANGED <<environment, list, todo, slots, ids, array>>

\* Mutant: only the devices of the list are freed, not those it left out.
DropListed ==
  /\ pc = "idle" /\ list # NoList
  /\ list' = NoList
  /\ live' = live - (IF list.array THEN 3 * Cardinality(DOMAIN list.devices) + 1 ELSE 0)
  /\ UNCHANGED <<environment, query, pc, todo, slots, ids, found, capacity,
                 history>>

\* The drop of FfiDeviceListImpl: free_devices, unless there is no array.
Drop ==
  /\ pc = "idle" /\ list # NoList
  /\ list' = NoList
  /\ live' = live - (IF list.array THEN 3 * Len(list.entries) + 1 ELSE 0)
  /\ UNCHANGED <<environment, query, pc, todo, slots, ids, found, capacity,
                 history>>

\* PipeWire announces a device that comes before it has seen the sync.  The
\* bound: during a call no device comes for the second time.
Plug(d) ==
  /\ d \notin present /\ (pc = "idle" \/ d \notin ever)
  /\ present' = present \union {d}
  /\ ever' = IF pc = "idle" THEN ever ELSE ever \union {d}
  /\ todo' = IF backend = "pipewire" /\ pc = "receive"
             THEN todo \union Offered({d}) ELSE todo
  /\ UNCHANGED <<build, server, list, query, pc, slots, ids, array, stable,
                 excused, cut>>

\* No backend is told that a device it has seen is gone.
Unplug(d) ==
  /\ d \in present
  /\ present' = present \ {d}
  /\ stable' = IF pc = "idle" THEN stable ELSE stable \ {d}
  /\ UNCHANGED <<build, server, list, query, pc, todo, slots, ids, array, ever,
                 excused, cut>>

LoseServer ==
  /\ server' = "lost"
  /\ UNCHANGED <<build, present, list, query, pc, todo, slots, ids, array,
                 history>>

\* A server that comes back knows nothing of an old connection.
RestartServer ==
  /\ pc = "idle"
  /\ server' = "up"
  /\ UNCHANGED <<build, present, list, query, pc, todo, slots, ids, array,
                 history>>

-----------------------------------------------------------------------------
(* Steps that the backends share.                                          *)

\* The call ends and its frame is gone.
Finish ==
  /\ pc' = "idle"
  /\ todo' = {} /\ slots' = 0 /\ ids' = FALSE
  /\ found' = <<>> /\ capacity' = 0
  /\ UNCHANGED <<environment, query, ever, stable>>

\* A negative result: Error::DeviceAccessDenied.
ReturnError(freed) ==
  /\ Finish
  /\ live' = live - freed
  /\ UNCHANGED <<list, excused, cut>>

Wanted(e) == filter = "all" \/ e.type = filter

\* FfiDeviceListImpl::enumerate and from_ffi: the list copies the wanted
\* pointers, in the order of the array, and owns the array.  from_wasapi moves
\* the devices and leaves an empty list behind.
ReturnList(short) ==
  /\ Finish
  /\ list' = [backend |-> backend,
              entries |-> IF backend = "wasapi" THEN <<>> ELSE found,
              array   |-> capacity > 0,
              devices |-> [i \in {i \in DOMAIN found : Wanted(found[i])} |->
                             found[i]]]
  /\ live' = live - (IF ids THEN 1 ELSE 0)
  /\ cut' = short
  /\ UNCHANGED excused

Goto(to) ==
  /\ pc' = to
  /\ UNCHANGED <<environment, list, backend, filter, slots, ids, array, history>>

\* The length of the array with room for one more after n entries.
Grown(length, n) ==
  IF n >= length THEN (IF length = 0 THEN FirstCapacity ELSE 2 * length)
                 ELSE length

\* The array itself is a block more.
NewArray == IF capacity = 0 THEN 1 ELSE 0

Add(e) ==
  /\ found' = Append(found, e)
  /\ capacity' = Grown(capacity, Len(found))
  /\ live' = live + NewArray + 3
  /\ UNCHANGED excused

\* The array does not grow, or an entry cannot be allocated after it grew:
\* the device is left out.
NoMemory ==
  /\ \/ capacity <= Len(found) /\ UNCHANGED <<capacity, live>>
     \/ /\ capacity' = Grown(capacity, Len(found))
        /\ live' = live + NewArray
  /\ excused' = TRUE
  /\ UNCHANGED found

LeaveOut == UNCHANGED <<array, excused>>

\* A callback or loop turn for one of the reported entries.
Take(e, backends) ==
  /\ backend \in backends /\ e \in todo
  /\ todo' = todo \ {e}
  /\ UNCHANGED <<environment, list, query, pc, slots, ids, ever, stable, cut>>

-----------------------------------------------------------------------------
(* PulseAudio and PipeWire: a connection to a server.                      *)

ByServer == {"pulse", "pipewire"}

\* The connection is made; both list functions fail alike without it.
Connected ==
  /\ pc = "connect" /\ backend \in ByServer /\ server = "up"
  /\ Goto("request") /\ UNCHANGED <<side, todo>>

\* A lost server, or no memory for the loop and the context.
ConnectFails ==
  /\ pc = "connect" /\ backend \in ByServer
  /\ ReturnError(0)

\* pa_context_get_source_info_list and ..._sink_info_list.
ServerAnswers ==
  /\ pc = "request" /\ backend = "pulse" /\ server = "up"
  /\ Goto("receive")
  /\ todo' = Reported(present, side) /\ UNCHANGED side

\* The callbacks ignore a negative eol: nothing ends the wait for done.
ServerRefuses ==
  /\ pc = "request" /\ backend = "pulse" /\ server = "up"
  /\ Goto("refused") /\ UNCHANGED <<side, todo>>

\* The list function returns NULL: an error for the sources, but the sources
\* alone for the sinks.
AskFails ==
  /\ pc = "request" /\ backend = "pulse"
  /\ IF side = "input" THEN ReturnError(0) ELSE ReturnList(TRUE)

\* The context has failed: the list ends with what has come.
PulseLost ==
  /\ pc \in {"request", "refused"} /\ backend = "pulse" /\ server = "lost"
  /\ ReturnList(TRUE)

\* Mutant: the monitors of sinks are not left out.
PulseDeviceWithMonitors(e) ==
  /\ pc = "receive" /\ Take(e, {"pulse"})
  /\ Add(e) \/ NoMemory

\* Mutant: the callback looks at the state of the context, and drops what comes
\* after the connection was lost.
PulseDeviceIfConnected(e) ==
  /\ pc = "receive" /\ Take(e, {"pulse"})
  /\ IF e.device \in Monitors \/ server = "lost" THEN LeaveOut
     ELSE Add(e) \/ NoMemory

\* source_info_callback and sink_info_callback.
PulseDevice(e) ==
  /\ pc = "receive" /\ Take(e, {"pulse"})
  /\ IF e.device \in Monitors THEN LeaveOut ELSE Add(e) \/ NoMemory

\* Mutant: the end of the list of sinks is not counted.
PulseEndUncounted ==
  /\ pc = "receive" /\ backend = "pulse" /\ todo = {} /\ side = "input"
  /\ Goto("request") /\ side' = "output" /\ UNCHANGED todo

\* The callback with eol > 0: the sources are followed by the sinks.
PulseEndOfList ==
  /\ pc = "receive" /\ backend = "pulse" /\ todo = {}
  /\ \/ /\ side = "input"
        /\ Goto("request") /\ side' = "output" /\ UNCHANGED todo
     \/ side = "output" /\ ReturnList(FALSE)

RegistryFails ==
  /\ pc = "request" /\ backend = "pipewire"
  /\ ReturnError(0)

\* The registry and the sync reach the server.
PipeWireAnnounces ==
  /\ pc = "request" /\ backend = "pipewire" /\ server = "up"
  /\ Goto("receive") /\ todo' = Offered(present) /\ UNCHANGED side

PipeWireSyncs ==
  /\ pc = "receive" /\ backend = "pipewire" /\ server = "up"
  /\ Goto("synced") /\ UNCHANGED <<side, todo>>

\* enum_registry_global.
PipeWireDevice(e) ==
  /\ pc \in {"receive", "synced"} /\ Take(e, {"pipewire"})
  /\ Add(e) \/ NoMemory

\* Mutant: the first done event ends the loop, whatever it answers.
PipeWireDoneEarly ==
  /\ pc \in {"receive", "synced"} /\ backend = "pipewire"
  /\ ReturnList(FALSE)

\* enum_core_done: its event comes after all that was announced before.
PipeWireDone ==
  /\ pc = "synced" /\ backend = "pipewire" /\ todo = {}
  /\ ReturnList(FALSE)

-----------------------------------------------------------------------------
(* CoreAudio.                                                              *)

\* deviceCount and the malloc of deviceIDs; without devices there is no array.
CountDevices ==
  /\ pc = "connect" /\ backend = "coreaudio"
  /\ \/ ReturnError(0)
     \/ present = {} /\ ReturnList(FALSE)
     \/ /\ present # {}
        /\ pc' = "request"
        /\ slots' = Cardinality(present) /\ ids' = TRUE /\ live' = live + 1
        /\ UNCHANGED <<environment, list, query, todo, found, capacity, history>>

\* deviceIDs is filled with the devices of this moment.  If there are fewer
\* now, the loop reads the rest of it uninitialised.
FillIds ==
  /\ pc = "request" /\ backend = "coreaudio"
  /\ \/ ReturnError(1)
     \/ \E S \in SUBSET present :
          /\ Cardinality(S) = IF Cardinality(present) < slots
                              THEN Cardinality(present) ELSE slots
          /\ pc' = "receive"
          /\ todo' = Offered(S) /\ slots' = slots - Cardinality(S)
          /\ excused' = (excused \/ S # present \/ slots' > 0)
          /\ UNCHANGED <<environment, list, query, ids, array, ever, stable, cut>>

\* A turn of the loop for a slot that holds no answer: memory that may be the
\* ID of any device, or of none.
VisitJunk ==
  /\ pc = "receive" /\ backend = "coreaudio" /\ todo = {} /\ slots > 0
  /\ slots' = slots - 1
  /\ \/ UNCHANGED todo
     \/ \E d \in present : todo' = Offered({d})
  /\ UNCHANGED <<environment, list, query, pc, ids, array, history>>

\* One side of a turn of the loop, the input first: the device is added, or a
\* query of it fails.
CoreAudioDevice(e) ==
  /\ pc = "receive" /\ Take(e, {"coreaudio"})
  /\ e.type = "output" => [e EXCEPT !.type = "input"] \notin todo
  /\ \/ Add(e)
     \/ excused' = TRUE /\ UNCHANGED array

\* add_device_to_array fails: everything is freed.
CoreAudioNoMemory ==
  /\ pc = "receive" /\ backend = "coreaudio" /\ todo # {}
  /\ ReturnError(ArrayBlocks(Len(found), capacity) + 1)

CoreAudioDone ==
  /\ pc = "receive" /\ backend = "coreaudio" /\ todo = {} /\ slots = 0
  /\ ReturnList(FALSE)

-----------------------------------------------------------------------------
(* WASAPI: the inputs, then the outputs, whatever the filter.              *)

\* The enumerator, the collection and its count; a failure of either list is
\* one of the call.
EndpointsOf ==
  /\ pc = "connect" /\ backend = "wasapi"
  /\ \/ ReturnError(0)
     \/ /\ Goto("receive")
        /\ todo' = Entries(present, side) /\ UNCHANGED side

\* A device without an interface or an identifier is left out.
WasapiDevice(e) ==
  /\ pc = "receive" /\ Take(e, {"wasapi"})
  /\ \/ found' = Append(found, e) /\ UNCHANGED <<capacity, live, excused>>
     \/ excused' = TRUE /\ UNCHANGED array

WasapiEndOfList ==
  /\ pc = "receive" /\ backend = "wasapi" /\ todo = {}
  /\ \/ /\ side = "input"
        /\ Goto("connect") /\ side' = "output" /\ UNCHANGED todo
     \/ side = "output" /\ ReturnList(FALSE)

-----------------------------------------------------------------------------

User == (\E wanted \in Types \union {"all"} : Enumerate(wanted)) \/ Drop

Environment ==
  \/ \E d \in Devices : Plug(d) \/ Unplug(d)
  \/ LoseServer \/ RestartServer

ServerStep ==
  Connected \/ ServerAnswers \/ ServerRefuses \/ PipeWireAnnounces \/ PipeWireSyncs

\* What the call does by itself.
CallStep ==
  \/ ConnectFails \/ AskFails \/ PulseLost \/ PulseEndOfList
  \/ RegistryFails \/ PipeWireDone
  \/ CountDevices \/ FillIds \/ VisitJunk \/ CoreAudioNoMemory \/ CoreAudioDone
  \/ EndpointsOf \/ WasapiEndOfList
  \/ \E e \in todo : PulseDevice(e) \/ PipeWireDevice(e) \/ CoreAudioDevice(e)
                     \/ WasapiDevice(e)

Next == User \/ Environment \/ ServerStep \/ CallStep

\* What the running thread of the call does without an answer of a server: to
\* fail is its only step once it finds the server gone.
Unaided ==
  /\ CallStep
  /\ pc = "connect" => backend \notin ByServer \/ server = "lost"
  /\ pc = "request" => backend = "coreaudio" \/ (backend = "pulse" /\ server = "lost")

Spec == Init /\ [][Next]_vars /\ WF_vars(Unaided)

-----------------------------------------------------------------------------
(* Properties.                                                             *)

\* The blocks of a list, and of a call.
ListBlocks == IF list.array THEN 3 * Len(list.entries) + 1 ELSE 0
CallBlocks == ArrayBlocks(Len(found), capacity) + (IF ids THEN 1 ELSE 0)

\* The types; those of list.devices are in FaithfulList.
TypeOK ==
  /\ build \in Builds
  /\ present \subseteq Devices /\ server \in {"up", "lost"}
  /\ list.backend \in Backend \union {"none"}
  /\ list.entries \in Seq(Entry) /\ list.array \in BOOLEAN
  /\ live \in Nat
  /\ backend \in Backend \union {"none"} /\ filter \in Types \union {"all"}
  /\ side \in Types
  /\ pc \in {"idle", "connect", "request", "refused", "receive", "synced"}
  /\ todo \subseteq Entry /\ slots \in Nat /\ ids \in BOOLEAN
  /\ found \in Seq(Entry) /\ capacity \in Nat
  /\ ever \subseteq Devices /\ stable \subseteq Devices /\ excused \in BOOLEAN
  /\ cut \in BOOLEAN

\* Every block the C code allocated belongs to the call in progress or to the
\* list of the user: an error path, a device that could not be copied or a
\* filter that left devices out never loses one, and none is freed twice.  The
\* array always has room for what it holds.
MemoryAccounted ==
  /\ live = ListBlocks + CallBlocks
  /\ backend # "wasapi" => Len(found) <= capacity

Listed(e) == {i \in DOMAIN list.devices : list.devices[i] = e}

\* A list holds only devices that were there during the call and that the
\* filter asked for, and, unless something failed, each of those that were
\* there all the time exactly once: audio.h and the documentation of
\* AudioDeviceList promise no less.
FaithfulList ==
  list # NoList =>
    /\ \A i \in DOMAIN list.devices :
         list.devices[i] \in Offered(ever) /\ Wanted(list.devices[i])
    /\ ~ excused /\ ~ cut =>
         \A e \in Offered(stable) : Wanted(e) => Cardinality(Listed(e)) = 1

\* A list that the loss of PulseAudio or a refused request for the sinks cuts
\* short is returned like any other, without an error.  What is missing from it
\* are whole sides: it holds no output, and of the inputs that were there all
\* the time each one once, or no input at all.
CutBySide ==
  list # NoList /\ cut =>
    /\ \A i \in DOMAIN list.devices : list.devices[i].type = "input"
    /\ ~ excused =>
         \/ \A e \in Entries(stable, "input") :
              Wanted(e) => Cardinality(Listed(e)) = 1
         \/ DOMAIN list.devices = {}

\* With a server that does its part, every call returns, but for two ways of
\* waiting for ever: PulseAudio answered with an error, and PipeWire was lost
\* before its sync.
EnumerationReturns ==
  WF_vars(ServerStep) =>
    (pc # "idle" ~> \/ pc \in {"idle", "refused"}
                    \/ backend = "pipewire" /\ server = "lost")

=============================================================================
