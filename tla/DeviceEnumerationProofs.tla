------------------------ MODULE DeviceEnumerationProofs ------------------------
(***************************************************************************)
(* For any set of devices and any first capacity of the array: whatever    *)
(* fails in an enumeration, no block of memory is lost or freed twice, the *)
(* list holds what was there, and what is missing from a list that was cut *)
(* short are whole sides of it.                                            *)
(***************************************************************************)
EXTENDS DeviceEnumeration, FiniteSetTheorems, TLAPS

-----------------------------------------------------------------------------
(* The cfgs of a build.                                                    *)

\* Choosing a default turns its backend on.
LEMMA DefaultsAreEnabled ==
  ASSUME NEW b \in Builds
  PROVE  Callable(b) = Provided(b) /\ Provided(b) \subseteq Backend
<1>1. PICK target \in Targets, named \in SUBSET Backend,
           defaults \in SUBSET Backend : b = Cfgs(target, named, defaults)
  BY DEF Builds
<1>2. /\ b.enabled = (named \union defaults) \intersect Supported(target)
      /\ b.defaults = defaults \intersect Supported(target)
  BY <1>1 DEF Cfgs, FeatureClosure
<1> QED
  BY <1>2 DEF Callable, Provided

-----------------------------------------------------------------------------
(* The memory of the C code.                                               *)

\* What the account of the blocks rests on: between two calls nothing of a
\* call is left; a list comes after its call; WASAPI has no array; the array
\* is empty as long as nothing has been reported, which for PulseAudio is
\* until the sinks are asked for; and deviceIDs is CoreAudio's alone.
Stages ==
  /\ pc = "idle" => capacity = 0 /\ found = <<>>
  /\ capacity = 0 /\ backend # "wasapi" => found = <<>>
  /\ pc # "idle" => list = NoList
  /\ backend = "wasapi" => capacity = 0
  /\ pc = "connect" => capacity = 0
  /\ pc = "request" /\ (backend # "pulse" \/ side = "input") => capacity = 0
  /\ ids <=> backend = "coreaudio" /\ pc \in {"request", "receive"}

MemoryInv == TypeOK /\ MemoryAccounted /\ Stages

\* Entries are entries.
LEMMA EntriesType ==
  ASSUME NEW S \in SUBSET Devices
  PROVE  /\ Offered(S) \subseteq Entry
         /\ \A type \in Types :
              Entries(S, type) \subseteq Entry /\ Reported(S, type) \subseteq Entry
  BY DEF Offered, Entries, Reported, Entry, Types

\* The number of the devices there are, or of some of them.
LEMMA CountType ==
  ASSUME NEW S \in SUBSET Devices
  PROVE  Cardinality(S) \in Nat
  BY FS_Subset, FS_CardinalityType, EnumerationAssumption

\* An array that has room for n entries has room for one more when it is grown.
LEMMA GrownHasRoom ==
  ASSUME NEW length \in Nat, NEW n \in Nat, n <= length
  PROVE  Grown(length, n) \in Nat \ {0} /\ n + 1 <= Grown(length, n)
  BY EnumerationAssumption DEF Grown

\* The blocks of an array, of a list and of a call are a number of blocks, and
\* of no array none.
LEMMA BlocksType ==
  ASSUME TypeOK
  PROVE  /\ Len(found) \in Nat /\ ArrayBlocks(Len(found), capacity) \in Nat
         /\ CallBlocks \in Nat /\ ListBlocks \in Nat
         /\ list = NoList => ListBlocks = 0
<1>1. Len(found) \in Nat /\ Len(list.entries) \in Nat /\ capacity \in Nat
  BY DEF TypeOK
<1>2. ArrayBlocks(Len(found), capacity) \in Nat
  BY <1>1 DEF ArrayBlocks
<1>3. list = NoList => ~ list.array
  BY DEF NoList
<1> QED
  BY <1>1, <1>2, <1>3 DEF CallBlocks, ListBlocks

\* Nothing is left of a call that has ended.
LEMMA NoCallBlocks ==
  ASSUME Finish
  PROVE  CallBlocks' = 0 /\ Len(found') = 0
<1>1. found' = <<>> /\ capacity' = 0 /\ ids' = FALSE
  BY DEF Finish
<1> QED
  BY <1>1 DEF CallBlocks, ArrayBlocks

\* What an array that grows, with a new entry or without, takes.
LEMMA GrownBlocks ==
  ASSUME NEW n \in Nat, NEW old \in Nat, NEW new \in Nat \ {0}, old = 0 => n = 0
  PROVE  LET first == IF old = 0 THEN 1 ELSE 0
         IN /\ ArrayBlocks(n + 1, new) = ArrayBlocks(n, old) + first + 3
            /\ ArrayBlocks(n, new) = ArrayBlocks(n, old) + first
            /\ ArrayBlocks(n, old) \in Nat
  BY DEF ArrayBlocks

LEMMA MemoryInit == Init => MemoryInv
<1> SUFFICES ASSUME Init PROVE MemoryInv
  OBVIOUS
<1>1. TypeOK
  <2>1. build \in Builds /\ present \subseteq Devices /\ server \in {"up", "lost"}
    BY DEF Init
  <2>2. /\ list.backend \in Backend \union {"none"}
        /\ list.entries \in Seq(Entry) /\ list.array \in BOOLEAN
    BY DEF Init, NoList
  <2>3. found \in Seq(Entry) /\ capacity \in Nat /\ live \in Nat /\ slots \in Nat
    BY DEF Init
  <2> QED
    BY <2>1, <2>2, <2>3 DEF Init, TypeOK, Types
<1>2. MemoryAccounted
  BY DEF Init, MemoryAccounted, ListBlocks, CallBlocks, ArrayBlocks, NoList
<1>3. Stages
  BY DEF Init, Stages
<1> QED
  BY <1>1, <1>2, <1>3 DEF MemoryInv

\* A call that returns a list hands the array over to it.
LEMMA ReturnListAccounts ==
  ASSUME MemoryInv, pc # "idle", NEW short \in BOOLEAN, ReturnList(short)
  PROVE  MemoryInv'
<1>0. TypeOK /\ MemoryAccounted /\ Stages /\ Finish
  BY DEF MemoryInv, ReturnList
<1>1. /\ list'.backend = backend /\ list'.array = (capacity > 0)
      /\ list'.entries = IF backend = "wasapi" THEN <<>> ELSE found
  BY DEF ReturnList
<1>2. ListBlocks' = ArrayBlocks(Len(found), capacity)
  <2>1. capacity > 0 => list'.entries = found
    BY <1>0, <1>1 DEF Stages
  <2> QED
    BY <1>1, <2>1 DEF ListBlocks, ArrayBlocks
<1>3. live' = ArrayBlocks(Len(found), capacity)
  <2>1. live' = live - (IF ids THEN 1 ELSE 0)
    BY DEF ReturnList
  <2>2. live = ArrayBlocks(Len(found), capacity) + (IF ids THEN 1 ELSE 0)
    <3>1. ListBlocks = 0
      BY <1>0, BlocksType DEF Stages
    <3> QED
      BY <1>0, <3>1, BlocksType DEF MemoryAccounted, CallBlocks
  <2> QED
    BY <1>0, <2>1, <2>2, BlocksType
<1>4. TypeOK'
  <2>1. /\ list'.backend \in Backend \union {"none"}
        /\ list'.entries \in Seq(Entry) /\ list'.array \in BOOLEAN
    BY <1>0, <1>1 DEF TypeOK
  <2>2. live' \in Nat
    BY <1>0, <1>3, BlocksType
  <2>3. found' \in Seq(Entry) /\ capacity' \in Nat /\ slots' \in Nat
    BY <1>0 DEF Finish
  <2>4. /\ excused' \in BOOLEAN /\ cut' \in BOOLEAN
        /\ ids' \in BOOLEAN /\ todo' \subseteq Entry
    BY <1>0 DEF Finish, ReturnList, TypeOK
  <2>5. UNCHANGED <<environment, query, ever, stable>> /\ pc' = "idle"
    BY <1>0 DEF Finish
  <2> QED
    BY <1>0, <2>1, <2>2, <2>3, <2>4, <2>5 DEF TypeOK, environment, query
<1>5. MemoryAccounted'
  <2>1. CallBlocks' = 0 /\ Len(found') = 0 /\ capacity' = 0
    BY <1>0, NoCallBlocks DEF Finish
  <2> QED
    BY <1>0, <1>2, <1>3, <2>1, BlocksType DEF MemoryAccounted
<1>6. Stages'
  BY <1>0 DEF Stages, Finish
<1> QED
  BY <1>4, <1>5, <1>6 DEF MemoryInv

\* A call that fails frees all it has.
LEMMA ReturnErrorAccounts ==
  ASSUME MemoryInv, pc # "idle", ReturnError(CallBlocks)
  PROVE  MemoryInv'
<1>0. /\ TypeOK /\ MemoryAccounted /\ Stages /\ Finish
      /\ live' = live - CallBlocks /\ UNCHANGED <<list, excused, cut>>
  BY DEF MemoryInv, ReturnError
<1>1. list = NoList /\ ListBlocks = 0 /\ CallBlocks \in Nat
  BY <1>0, BlocksType DEF Stages
<1>2. live' = 0
  BY <1>0, <1>1 DEF MemoryAccounted
<1>3. TypeOK'
  <2>1. found' \in Seq(Entry) /\ capacity' \in Nat /\ slots' \in Nat
    BY <1>0 DEF Finish
  <2>2. ids' \in BOOLEAN /\ todo' \subseteq Entry /\ pc' = "idle"
    BY <1>0 DEF Finish
  <2>3. UNCHANGED <<environment, query, ever, stable>>
    BY <1>0 DEF Finish
  <2> QED
    BY <1>0, <1>2, <2>1, <2>2, <2>3 DEF TypeOK, environment, query
<1>4. MemoryAccounted'
  <2>1. CallBlocks' = 0 /\ Len(found') = 0 /\ capacity' = 0
    BY <1>0, NoCallBlocks DEF Finish
  <2>2. ListBlocks' = 0
    BY <1>0, <1>1 DEF ListBlocks
  <2> QED
    BY <1>2, <2>1, <2>2 DEF MemoryAccounted
<1>5. Stages'
  BY <1>0, <1>1 DEF Stages, Finish
<1> QED
  BY <1>3, <1>4, <1>5 DEF MemoryInv

\* One more entry, or none for want of memory: the array grows by what is
\* allocated.
LEMMA AddAccounts ==
  ASSUME MemoryInv, NEW e \in Entry, Add(e) \/ NoMemory,
         pc \in {"receive", "synced"}, backend # "wasapi", todo' \subseteq Entry,
         UNCHANGED <<environment, list, query, pc, slots, ids, ever, stable, cut>>
  PROVE  MemoryInv'
<1>0. TypeOK /\ MemoryAccounted /\ Stages
  BY DEF MemoryInv
<1> DEFINE n == Len(found)
           room == Grown(capacity, n)
<1>1. /\ n \in Nat /\ capacity \in Nat /\ live \in Nat /\ n <= capacity
      /\ capacity = 0 => n = 0
  BY <1>0 DEF TypeOK, MemoryAccounted, Stages
<1>2. room \in Nat \ {0} /\ n + 1 <= room
  BY <1>1, GrownHasRoom
<1>3. /\ found' \in Seq(Entry) /\ Len(found') \in Nat
      /\ capacity' \in Nat /\ Len(found') <= capacity'
      /\ capacity' = 0 => found' = <<>>
  <2>1. CASE Add(e)
    BY <1>0, <1>1, <1>2, <2>1 DEF Add, TypeOK
  <2>2. CASE NoMemory
    BY <1>0, <1>1, <1>2, <2>2 DEF NoMemory, TypeOK, Stages
  <2> QED
    BY <2>1, <2>2
<1>b. /\ ArrayBlocks(Len(found'), capacity') \in Nat
      /\ live' = live + ArrayBlocks(Len(found'), capacity')
                      - ArrayBlocks(n, capacity)
      /\ live' \in Nat
  <2>0. NewArray = IF capacity = 0 THEN 1 ELSE 0
    BY DEF NewArray
  <2>1. CASE Add(e)
    <3>1. Len(found') = n + 1
      BY <1>0, <2>1 DEF Add, TypeOK
    <3>2. capacity' = room /\ live' = live + NewArray + 3
      BY <2>1 DEF Add
    <3> HIDE DEF n, room
    <3>3. /\ ArrayBlocks(n + 1, room) = ArrayBlocks(n, capacity) + NewArray + 3
          /\ ArrayBlocks(n, capacity) \in Nat /\ NewArray \in Nat
      BY <1>1, <1>2, <2>0, GrownBlocks
    <3> QED
      BY <1>1, <3>1, <3>2, <3>3
  <2>2. CASE NoMemory
    <3>1. Len(found') = n
      BY <2>2 DEF NoMemory
    <3>2. \/ capacity' = capacity /\ live' = live
          \/ capacity' = room /\ live' = live + NewArray
      BY <2>2 DEF NoMemory
    <3> HIDE DEF n, room
    <3>3. /\ ArrayBlocks(n, room) = ArrayBlocks(n, capacity) + NewArray
          /\ ArrayBlocks(n, capacity) \in Nat /\ NewArray \in Nat
      BY <1>1, <1>2, <2>0, GrownBlocks
    <3> QED
      BY <1>1, <3>1, <3>2, <3>3
  <2> QED
    BY <2>1, <2>2
<1>4. excused' \in BOOLEAN
  BY <1>0 DEF Add, NoMemory, TypeOK
<1>5. TypeOK'
  BY <1>0, <1>3, <1>b, <1>4 DEF TypeOK, environment, query
<1>6. MemoryAccounted'
  <2>1. ListBlocks' = ListBlocks /\ ListBlocks \in Nat
    BY <1>0, BlocksType DEF ListBlocks
  <2>2. live = ListBlocks + ArrayBlocks(n, capacity) + (IF ids THEN 1 ELSE 0)
    BY <1>0, <2>1, BlocksType DEF MemoryAccounted, CallBlocks
  <2>3. ArrayBlocks(n, capacity) \in Nat
    BY <1>0, BlocksType
  <2>4. live' = ListBlocks' + CallBlocks'
    <3> HIDE DEF n
    <3> QED
      BY <1>1, <1>b, <2>1, <2>2, <2>3 DEF CallBlocks
  <2> QED
    BY <1>3, <2>4 DEF MemoryAccounted
<1>7. Stages'
  BY <1>0, <1>3 DEF Stages, query
<1> QED
  BY <1>5, <1>6, <1>7 DEF MemoryInv

\* A step that allocates and frees nothing.
LEMMA SameBlocks ==
  ASSUME MemoryInv, UNCHANGED <<list, backend, array, ids>>, TypeOK', Stages'
  PROVE  MemoryInv'
  BY DEF MemoryInv, MemoryAccounted, ListBlocks, CallBlocks, array

LEMMA UserAccounts == MemoryInv /\ User => MemoryInv'
<1> SUFFICES ASSUME MemoryInv, User PROVE MemoryInv'
  OBVIOUS
<1>0. TypeOK /\ MemoryAccounted /\ Stages
  BY DEF MemoryInv
<1>1. ASSUME NEW wanted \in Types \union {"all"}, Enumerate(wanted)
      PROVE  MemoryInv'
  <2>1. backend' \in Backend
    BY <1>0, <1>1, DefaultsAreEnabled DEF Enumerate, TypeOK
  <2>2. TypeOK'
    BY <1>0, <1>1, <2>1 DEF Enumerate, TypeOK, environment, array, Types
  <2>3. /\ pc = "idle" /\ pc' = "connect" /\ list' = NoList /\ ids' = ids
        /\ UNCHANGED <<list, array>>
    BY <1>1 DEF Enumerate
  <2>4. Stages'
    BY <1>0, <2>3 DEF Stages, array
  <2>5. MemoryAccounted'
    <3>1. Len(found) <= capacity
      BY <1>0, <2>3 DEF Stages
    <3> QED
      BY <1>0, <2>3, <3>1
         DEF MemoryAccounted, ListBlocks, CallBlocks, array
  <2> QED
    BY <2>2, <2>4, <2>5 DEF MemoryInv
<1>2. CASE Drop
  <2>1. /\ pc = "idle" /\ list' = NoList /\ live' = live - ListBlocks
        /\ UNCHANGED <<environment, query, pc, todo, slots, ids, found, capacity,
                       history>>
    BY <1>2 DEF Drop, ListBlocks
  <2>2. live = ListBlocks + CallBlocks /\ ListBlocks \in Nat /\ CallBlocks \in Nat
    BY <1>0, BlocksType DEF MemoryAccounted
  <2>3. ListBlocks' = 0 /\ CallBlocks' = CallBlocks
    BY <2>1 DEF ListBlocks, CallBlocks, NoList
  <2>4. live' = CallBlocks /\ live' \in Nat
    BY <2>1, <2>2
  <2>5. /\ list'.backend \in Backend \union {"none"}
        /\ list'.entries \in Seq(Entry) /\ list'.array \in BOOLEAN
    BY <2>1 DEF NoList
  <2>6. TypeOK'
    BY <1>0, <2>1, <2>4, <2>5 DEF TypeOK, environment, query, history
  <2>7. MemoryAccounted'
    BY <1>0, <2>1, <2>2, <2>3, <2>4 DEF MemoryAccounted, query
  <2>8. Stages'
    BY <1>0, <2>1 DEF Stages, query
  <2> QED
    BY <2>6, <2>7, <2>8 DEF MemoryInv
<1> QED
  BY <1>1, <1>2 DEF User

LEMMA EnvironmentAccounts == MemoryInv /\ Environment => MemoryInv'
<1> SUFFICES ASSUME MemoryInv, Environment PROVE MemoryInv'
  OBVIOUS
<1>0. TypeOK /\ Stages
  BY DEF MemoryInv
<1>1. ASSUME NEW d \in Devices, Plug(d) PROVE MemoryInv'
  <2>1. todo' \subseteq Entry
    BY <1>0, <1>1, EntriesType DEF Plug, TypeOK
  <2>2. present' \subseteq Devices /\ ever' \subseteq Devices
    BY <1>0, <1>1 DEF Plug, TypeOK
  <2>3. /\ server' = server /\ build' = build /\ stable' = stable
        /\ UNCHANGED <<list, query, pc, slots, ids, array, excused, cut>>
    BY <1>1 DEF Plug
  <2>4. TypeOK' /\ Stages'
    BY <1>0, <2>1, <2>2, <2>3 DEF TypeOK, Stages, query, array
  <2> QED
    BY <2>3, <2>4, SameBlocks DEF query
<1>2. ASSUME NEW d \in Devices, Unplug(d) PROVE MemoryInv'
  BY <1>0, <1>2, SameBlocks DEF Unplug, TypeOK, Stages, query, array
<1>3. CASE LoseServer \/ RestartServer
  BY <1>0, <1>3, SameBlocks
     DEF LoseServer, RestartServer, TypeOK, Stages, query, array, history
<1> QED
  BY <1>1, <1>2, <1>3 DEF Environment

\* A step to another place of the call, with the array as it is.
LEMMA GotoAccounts ==
  ASSUME MemoryInv, pc # "idle", NEW to \in {"connect", "request", "refused",
                                              "receive", "synced"},
         Goto(to), side' \in Types, todo' \subseteq Entry,
         to = "connect" => backend = "wasapi",
         to = "request" => \/ backend \in ByServer /\ capacity = 0
                           \/ backend = "pulse" /\ side' = "output",
         to = "receive" => backend # "coreaudio",
         backend = "coreaudio" => pc \notin {"request", "receive"}
  PROVE  MemoryInv'
<1>0. TypeOK /\ Stages
  BY DEF MemoryInv
<1>1. /\ pc' = to
      /\ UNCHANGED <<environment, list, backend, filter, slots, ids, array,
                     history>>
  BY DEF Goto
<1>2. TypeOK'
  BY <1>0, <1>1 DEF TypeOK, environment, array, history
<1>3. Stages'
  BY <1>0, <1>1 DEF Stages, array, ByServer
<1> QED
  BY <1>1, <1>2, <1>3, SameBlocks

LEMMA ServerAccounts == MemoryInv /\ ServerStep => MemoryInv'
<1> SUFFICES ASSUME MemoryInv, ServerStep PROVE MemoryInv'
  OBVIOUS
<1>0. TypeOK /\ Stages
  BY DEF MemoryInv
<1>1. present \subseteq Devices /\ side \in Types /\ todo \subseteq Entry
  BY <1>0 DEF TypeOK
<1>2. CASE Connected
  BY <1>0, <1>1, <1>2, GotoAccounts DEF Connected, ByServer, Stages
<1>3. CASE ServerAnswers
  BY <1>1, <1>3, EntriesType, GotoAccounts DEF ServerAnswers
<1>4. CASE ServerRefuses
  BY <1>1, <1>4, GotoAccounts DEF ServerRefuses
<1>5. CASE PipeWireAnnounces
  BY <1>1, <1>5, EntriesType, GotoAccounts DEF PipeWireAnnounces
<1>6. CASE PipeWireSyncs
  BY <1>1, <1>6, GotoAccounts DEF PipeWireSyncs
<1> QED
  BY <1>2, <1>3, <1>4, <1>5, <1>6 DEF ServerStep

\* A call without an array and without deviceIDs fails.
LEMMA NothingToFree ==
  ASSUME MemoryInv, pc # "idle", capacity = 0, ~ ids, ReturnError(0)
  PROVE  MemoryInv'
<1>1. CallBlocks = 0
  BY DEF CallBlocks, ArrayBlocks
<1> QED
  BY <1>1, ReturnErrorAccounts

LEMMA PulseAccounts ==
  ASSUME MemoryInv,
         \/ ConnectFails \/ AskFails \/ PulseLost \/ PulseEndOfList
         \/ \E e \in todo : PulseDevice(e)
  PROVE  MemoryInv'
<1>0. TypeOK /\ Stages /\ todo \subseteq Entry
  BY DEF MemoryInv, TypeOK
<1>1. CASE ConnectFails
  BY <1>0, <1>1, NothingToFree DEF ConnectFails, ByServer, Stages
<1>2. CASE AskFails
  BY <1>0, <1>2, NothingToFree, ReturnListAccounts DEF AskFails, Stages
<1>3. CASE PulseLost
  BY <1>3, ReturnListAccounts DEF PulseLost
<1>4. CASE PulseEndOfList
  <2>1. CASE side = "input" /\ Goto("request") /\ side' = "output" /\ UNCHANGED todo
    BY <1>0, <1>4, <2>1, GotoAccounts DEF PulseEndOfList, Types
  <2>2. CASE ReturnList(FALSE)
    BY <1>4, <2>2, ReturnListAccounts DEF PulseEndOfList
  <2> QED
    BY <1>4, <2>1, <2>2 DEF PulseEndOfList
<1>5. ASSUME NEW e \in todo, PulseDevice(e) PROVE MemoryInv'
  <2>1. /\ pc = "receive" /\ backend = "pulse" /\ todo' \subseteq Entry
        /\ UNCHANGED <<environment, list, query, pc, slots, ids, ever, stable, cut>>
    BY <1>0, <1>5 DEF PulseDevice, Take
  <2>2. CASE Add(e) \/ NoMemory
    BY <1>0, <2>1, <2>2, AddAccounts
  <2>3. CASE LeaveOut
    <3>1. TypeOK' /\ Stages'
      BY <1>0, <2>1, <2>3 DEF LeaveOut, TypeOK, Stages, environment, query, array
    <3> QED
      BY <2>1, <2>3, <3>1, SameBlocks DEF LeaveOut, query
  <2> QED
    BY <1>5, <2>2, <2>3 DEF PulseDevice
<1> QED
  BY <1>1, <1>2, <1>3, <1>4, <1>5

LEMMA PipeWireAccounts ==
  ASSUME MemoryInv,
         RegistryFails \/ PipeWireDone \/ \E e \in todo : PipeWireDevice(e)
  PROVE  MemoryInv'
<1>0. TypeOK /\ Stages /\ todo \subseteq Entry
  BY DEF MemoryInv, TypeOK
<1>1. CASE RegistryFails
  BY <1>0, <1>1, NothingToFree DEF RegistryFails, Stages
<1>2. CASE PipeWireDone
  BY <1>2, ReturnListAccounts DEF PipeWireDone
<1>3. ASSUME NEW e \in todo, PipeWireDevice(e) PROVE MemoryInv'
  BY <1>0, <1>3, AddAccounts DEF PipeWireDevice, Take
<1> QED
  BY <1>1, <1>2, <1>3

\* deviceIDs is a block of its own from the count to the end of the call.
LEMMA CoreAudioAccounts ==
  ASSUME MemoryInv,
         \/ CountDevices \/ FillIds \/ VisitJunk \/ CoreAudioNoMemory
         \/ CoreAudioDone \/ \E e \in todo : CoreAudioDevice(e)
  PROVE  MemoryInv'
<1>0. /\ TypeOK /\ MemoryAccounted /\ Stages /\ todo \subseteq Entry
      /\ present \subseteq Devices
  BY DEF MemoryInv, TypeOK
<1>1. CASE CountDevices
  <2>1. CASE ReturnError(0) \/ ReturnList(FALSE)
    BY <1>0, <1>1, <2>1, NothingToFree, ReturnListAccounts
       DEF CountDevices, Stages
  <2>2. CASE /\ pc' = "request"
             /\ slots' = Cardinality(present) /\ ids' = TRUE /\ live' = live + 1
             /\ UNCHANGED <<environment, list, query, todo, found, capacity,
                            history>>
    <3>0. pc = "connect" /\ backend = "coreaudio"
      BY <1>1 DEF CountDevices
    <3>1. Stages'
      BY <1>0, <2>2, <3>0 DEF Stages, query
    <3>2. TypeOK'
      BY <1>0, <2>2, CountType DEF TypeOK, environment, query, history
    <3>3. MemoryAccounted'
      <4>1. ~ ids /\ ids' /\ capacity = 0
        BY <1>0, <2>2, <3>0 DEF Stages
      <4>2. CallBlocks = 0 /\ CallBlocks' = 1
        BY <2>2, <4>1 DEF CallBlocks, ArrayBlocks
      <4>3. ListBlocks' = ListBlocks /\ ListBlocks \in Nat
        BY <1>0, <2>2, BlocksType DEF ListBlocks
      <4> QED
        BY <1>0, <2>2, <4>2, <4>3 DEF MemoryAccounted, query
    <3> QED
      BY <3>1, <3>2, <3>3 DEF MemoryInv
  <2> QED
    BY <1>1, <2>1, <2>2 DEF CountDevices
<1>2. CASE FillIds
  <2>0. pc = "request" /\ backend = "coreaudio" /\ ids /\ capacity = 0
    BY <1>0, <1>2 DEF FillIds, Stages
  <2>1. CASE ReturnError(1)
    <3>1. CallBlocks = 1
      BY <2>0 DEF CallBlocks, ArrayBlocks
    <3> QED
      BY <2>0, <2>1, <3>1, ReturnErrorAccounts
  <2>2. ASSUME NEW S \in SUBSET present,
               Cardinality(S) = IF Cardinality(present) < slots
                                THEN Cardinality(present) ELSE slots,
               pc' = "receive", todo' = Offered(S),
               slots' = slots - Cardinality(S),
               excused' = (excused \/ S # present \/ slots' > 0),
               UNCHANGED <<environment, list, query, ids, array, ever, stable, cut>>
        PROVE  MemoryInv'
    <3>1. S \in SUBSET Devices /\ todo' \subseteq Entry
      BY <1>0, <2>2, EntriesType
    <3>2. slots' \in Nat
      <4>1. Cardinality(present) \in Nat /\ slots \in Nat
        BY <1>0, CountType DEF TypeOK
      <4> QED
        BY <2>2, <4>1
    <3>3. TypeOK' /\ Stages'
      BY <1>0, <2>0, <2>2, <3>1, <3>2
         DEF TypeOK, Stages, environment, query, array
    <3> QED
      BY <2>2, <3>3, SameBlocks DEF query
  <2> QED
    BY <1>2, <2>1, <2>2 DEF FillIds
<1>3. CASE VisitJunk
  <2>1. todo' \subseteq Entry
    BY <1>0, <1>3, EntriesType DEF VisitJunk
  <2>2. slots' \in Nat
    BY <1>0, <1>3 DEF VisitJunk, TypeOK
  <2>3. UNCHANGED <<environment, list, query, pc, ids, array, history>>
    BY <1>3 DEF VisitJunk
  <2>4. TypeOK' /\ Stages'
    BY <1>0, <2>1, <2>2, <2>3
       DEF TypeOK, Stages, environment, query, array, history
  <2> QED
    BY <2>3, <2>4, SameBlocks DEF query
<1>4. CASE CoreAudioNoMemory
  <2>1. CallBlocks = ArrayBlocks(Len(found), capacity) + 1
    BY <1>0, <1>4 DEF CoreAudioNoMemory, CallBlocks, Stages
  <2> QED
    BY <1>4, <2>1, ReturnErrorAccounts DEF CoreAudioNoMemory
<1>5. CASE CoreAudioDone
  BY <1>5, ReturnListAccounts DEF CoreAudioDone
<1>6. ASSUME NEW e \in todo, CoreAudioDevice(e) PROVE MemoryInv'
  <2>1. /\ pc = "receive" /\ backend = "coreaudio" /\ todo' \subseteq Entry
        /\ UNCHANGED <<environment, list, query, pc, slots, ids, ever, stable, cut>>
    BY <1>0, <1>6 DEF CoreAudioDevice, Take
  <2>2. CASE Add(e)
    BY <1>0, <2>1, <2>2, AddAccounts
  <2>3. CASE excused' = TRUE /\ UNCHANGED array
    <3>1. TypeOK' /\ Stages'
      BY <1>0, <2>1, <2>3 DEF TypeOK, Stages, environment, query, array
    <3> QED
      BY <2>1, <2>3, <3>1, SameBlocks DEF query
  <2> QED
    BY <1>6, <2>2, <2>3 DEF CoreAudioDevice
<1> QED
  BY <1>1, <1>2, <1>3, <1>4, <1>5, <1>6

\* WASAPI has no C array: its devices are counted nowhere.
LEMMA WasapiAccounts ==
  ASSUME MemoryInv,
         EndpointsOf \/ WasapiEndOfList \/ \E e \in todo : WasapiDevice(e)
  PROVE  MemoryInv'
<1>0. /\ TypeOK /\ MemoryAccounted /\ Stages /\ todo \subseteq Entry
      /\ present \subseteq Devices /\ side \in Types
  BY DEF MemoryInv, TypeOK
<1>1. CASE EndpointsOf
  <2>1. CASE ReturnError(0)
    BY <1>0, <1>1, <2>1, NothingToFree DEF EndpointsOf, Stages
  <2>2. CASE Goto("receive") /\ todo' = Entries(present, side) /\ UNCHANGED side
    BY <1>0, <1>1, <2>2, EntriesType, GotoAccounts DEF EndpointsOf
  <2> QED
    BY <1>1, <2>1, <2>2 DEF EndpointsOf
<1>2. CASE WasapiEndOfList
  <2>1. CASE Goto("connect") /\ side' = "output" /\ UNCHANGED todo
    BY <1>0, <1>2, <2>1, GotoAccounts DEF WasapiEndOfList, Types
  <2>2. CASE ReturnList(FALSE)
    BY <1>2, <2>2, ReturnListAccounts DEF WasapiEndOfList
  <2> QED
    BY <1>2, <2>1, <2>2 DEF WasapiEndOfList
<1>3. ASSUME NEW e \in todo, WasapiDevice(e) PROVE MemoryInv'
  <2>1. /\ pc = "receive" /\ backend = "wasapi" /\ todo' \subseteq Entry
        /\ UNCHANGED <<environment, list, query, pc, slots, ids, ever, stable, cut>>
    BY <1>0, <1>3 DEF WasapiDevice, Take
  <2>2. /\ found' \in Seq(Entry) /\ excused' \in BOOLEAN
        /\ UNCHANGED <<capacity, live>> /\ capacity = 0 /\ ~ ids
    <3>1. \/ found' = Append(found, e) /\ UNCHANGED <<capacity, live, excused>>
          \/ excused' = TRUE /\ UNCHANGED array
      BY <1>3 DEF WasapiDevice
    <3>2. e \in Entry /\ found \in Seq(Entry) /\ excused \in BOOLEAN
      BY <1>0 DEF TypeOK
    <3>3. capacity = 0 /\ ~ ids
      BY <1>0, <2>1 DEF Stages
    <3>4. found' \in Seq(Entry) /\ UNCHANGED <<capacity, live>>
      BY <3>1, <3>2 DEF array
    <3>5. excused' = excused \/ excused' = TRUE
      BY <3>1
    <3> QED
      BY <3>2, <3>3, <3>4, <3>5
  <2>3. TypeOK' /\ Stages'
    BY <1>0, <2>1, <2>2 DEF TypeOK, Stages, environment, query
  <2>4. MemoryAccounted'
    BY <1>0, <2>1, <2>2
       DEF MemoryAccounted, ListBlocks, CallBlocks, ArrayBlocks, query
  <2> QED
    BY <2>3, <2>4 DEF MemoryInv
<1> QED
  BY <1>1, <1>2, <1>3

LEMMA MemoryStep == MemoryInv /\ [Next]_vars => MemoryInv'
<1> SUFFICES ASSUME MemoryInv, [Next]_vars PROVE MemoryInv'
  OBVIOUS
<1>1. CASE CallStep
  BY <1>1, PulseAccounts, PipeWireAccounts, CoreAudioAccounts, WasapiAccounts
     DEF CallStep
<1>2. CASE UNCHANGED vars
  BY <1>2 DEF vars, environment, query, array, history, MemoryInv, TypeOK,
              MemoryAccounted, Stages, ListBlocks, CallBlocks
<1> QED
  BY <1>1, <1>2, UserAccounts, EnvironmentAccounts, ServerAccounts DEF Next

LEMMA MemoryAlways == Spec => []MemoryInv
  BY MemoryInit, MemoryStep, PTL DEF Spec

\* Every variable of the enumeration keeps its type; that no count of blocks
\* or of slots goes below zero rests on the account of the memory.
THEOREM TypeCorrect == Spec => []TypeOK
  BY MemoryAlways, PTL DEF MemoryInv

\* Whatever fails or changes during a call, the C code loses no block, frees
\* none twice and writes no entry behind the end of its array.
THEOREM MemoryIsAccounted == Spec => []MemoryAccounted
  BY MemoryAlways, PTL DEF MemoryInv

-----------------------------------------------------------------------------
(* The devices of the list.                                                *)

\* The backends that ask for the inputs first and for the outputs then.
BySide == {"pulse", "wasapi"}

\* The call has not been told of the devices of its side.
Unasked == pc \in {"connect", "request", "refused"}

\* The call has yet to be told of an entry like e.
Pending(e) ==
  \/ Unasked /\ (side = "input" \/ e.type = "output")
  \/ /\ pc = "receive" /\ backend \in BySide
     /\ side = "input" /\ e.type = "output"

\* What is there at any moment of the call is there at some moment, and what is
\* there at all moments is there at this one.
WindowInv ==
  /\ stable \subseteq ever
  /\ pc # "idle" => stable \subseteq present /\ present \subseteq ever

\* Nothing is collected before it is asked for, and the outputs after the
\* inputs.
SideInv ==
  /\ side = "output" => backend \in BySide
  /\ pc = "idle" \/ Unasked => todo = {}
  /\ Unasked /\ side = "input" => found = <<>>
  /\ backend \in BySide =>
       /\ \A e \in todo : e.type = side
       /\ \A i \in DOMAIN found :
            found[i].type = "input" \/ (side = "output" /\ pc = "receive")

\* Nothing is collected that was not there; PulseAudio reports monitors too.
OfferedInv ==
  /\ \A i \in DOMAIN found : found[i] \in Offered(ever)
  /\ \A e \in todo :
       e \in Offered(ever) \/ (backend = "pulse" /\ e.device \in Monitors)

\* Nothing is collected for the second time.
OnceInv ==
  ~excused =>
    /\ \A i, j \in DOMAIN found : found[i] = found[j] => i = j
    /\ \A i \in DOMAIN found : found[i] \notin todo

\* What was there all the time has been collected or reported, or is pending.
\* CoreAudio has no junk in deviceIDs then.
CompleteInv ==
  ~excused /\ pc # "idle" =>
    /\ backend = "coreaudio" /\ pc = "receive" => slots = 0
    /\ \A e \in Offered(stable) :
         \/ e \in todo \/ Pending(e)
         \/ \E i \in DOMAIN found : found[i] = e

CollectInv == WindowInv /\ SideInv /\ OfferedInv /\ OnceInv /\ CompleteInv

ListInv == CollectInv /\ FaithfulList /\ CutBySide

\* An entry that is offered is one of a device that is there and no monitor.
LEMMA OfferedIs ==
  ASSUME NEW S, NEW e \in Offered(S)
  PROVE  /\ e.device \in S /\ e.device \notin Monitors
         /\ e.type \in Types /\ e \in Entries(S, e.type)
  BY EnumerationAssumption DEF Offered, Entries, Types

\* What is asked for one side is of that side, and offered or a monitor.
LEMMA EntriesAre ==
  ASSUME NEW S, NEW type \in Types
  PROVE  /\ \A e \in Entries(S, type) : e.type = type /\ e \in Offered(S)
         /\ \A e \in Reported(S, type) :
              e.type = type /\ (e \in Offered(S) \/ e.device \in Monitors)
         /\ Entries(S, type) \subseteq Reported(S, type)
  BY DEF Offered, Entries, Reported, Types

\* More devices offer more entries.
LEMMA OfferedGrows ==
  ASSUME NEW S, NEW T, S \subseteq T
  PROVE  /\ Offered(S) \subseteq Offered(T)
         /\ \A type \in Types : Entries(S, type) \subseteq Entries(T, type)
  BY DEF Offered, Entries, Types

LEMMA ListInit == Init => ListInv
<1> SUFFICES ASSUME Init PROVE ListInv
  OBVIOUS
<1>1. /\ pc = "idle" /\ side = "input" /\ todo = {} /\ found = <<>>
      /\ list = NoList /\ ever = {} /\ stable = {} /\ backend = "none"
  BY DEF Init
<1> QED
  BY <1>1 DEF ListInv, CollectInv, WindowInv, SideInv, OfferedInv, OnceInv,
              CompleteInv, FaithfulList, CutBySide, Unasked, BySide

\* A list that is not made is not wrong.
LEMMA NoListIsFaithful ==
  ASSUME list' = NoList
  PROVE  FaithfulList' /\ CutBySide'
  BY DEF FaithfulList, CutBySide

\* During a call there is no list.
LEMMA NoListInCall ==
  ASSUME MemoryInv, pc # "idle"
  PROVE  list = NoList
  BY DEF MemoryInv, Stages

\* Nothing is left to be wrong when a call has ended.
LEMMA FinishCollects ==
  ASSUME CollectInv, Finish
  PROVE  CollectInv'
<1>1. /\ pc' = "idle" /\ todo' = {} /\ found' = <<>>
      /\ backend' = backend /\ side' = side /\ ever' = ever /\ stable' = stable
  BY DEF Finish, query
<1>2. DOMAIN found' = {}
  BY <1>1
<1>3. WindowInv'
  BY <1>1 DEF CollectInv, WindowInv
<1>4. SideInv'
  BY <1>1, <1>2 DEF CollectInv, SideInv, Unasked, BySide
<1>5. OfferedInv' /\ OnceInv' /\ CompleteInv'
  BY <1>1, <1>2 DEF OfferedInv, OnceInv, CompleteInv
<1> QED
  BY <1>3, <1>4, <1>5 DEF CollectInv

LEMMA ReturnErrorLists ==
  ASSUME MemoryInv, ListInv, pc # "idle", NEW freed, ReturnError(freed)
  PROVE  ListInv'
<1>1. Finish /\ list' = NoList
  BY NoListInCall DEF ReturnError
<1> QED
  BY <1>1, FinishCollects, NoListIsFaithful DEF ListInv

\* What has been collected once is listed once if it is wanted.
LEMMA ListedOnce ==
  ASSUME OnceInv, ~excused, NEW short, ReturnList(short),
         NEW e, Wanted(e), \E i \in DOMAIN found : found[i] = e
  PROVE  Cardinality(Listed(e)') = 1
<1>1. list'.devices = [i \in {i \in DOMAIN found : Wanted(found[i])} |-> found[i]]
  BY DEF ReturnList
<1>2. PICK k \in DOMAIN found : found[k] = e
  OBVIOUS
<1>3. \A i \in DOMAIN found : found[i] = e => i = k
  BY <1>2 DEF OnceInv
<1>4. {i \in DOMAIN list'.devices : list'.devices[i] = e} = {k}
  BY <1>1, <1>2, <1>3
<1>5. Listed(e)' = {k}
  BY <1>4 DEF Listed
<1> QED
  BY <1>5, FS_Singleton

\* A call that returns a list has collected all that is not excused, or, if the
\* list is cut short, all the inputs or nothing.
LEMMA ReturnListLists ==
  ASSUME MemoryInv, ListInv, pc # "idle", NEW short \in BOOLEAN,
         ReturnList(short),
         ~short /\ ~excused =>
           \A e \in Offered(stable) : \E i \in DOMAIN found : found[i] = e,
         short =>
           /\ \A i \in DOMAIN found : found[i].type = "input"
           /\ ~excused =>
                \/ \A e \in Entries(stable, "input") :
                     \E i \in DOMAIN found : found[i] = e
                \/ DOMAIN found = {}
  PROVE  ListInv'
<1>1. Finish
  BY DEF ReturnList
<1>2. CollectInv'
  BY <1>1, FinishCollects DEF ListInv
<1>3. /\ ever' = ever /\ stable' = stable /\ filter' = filter
      /\ cut' = short /\ excused' = excused
      /\ list'.devices = [i \in {i \in DOMAIN found : Wanted(found[i])} |->
                            found[i]]
  BY DEF ReturnList, Finish, query
<1> DEFINE D == {i \in DOMAIN found : Wanted(found[i])}
<1>4. DOMAIN list'.devices = D /\ \A i \in D : list'.devices[i] = found[i]
  BY <1>3
<1>5. \A i \in DOMAIN list'.devices :
        list'.devices[i] \in Offered(ever) /\ Wanted(list'.devices[i])
  <2> SUFFICES ASSUME NEW i \in DOMAIN list'.devices
               PROVE  /\ list'.devices[i] \in Offered(ever)
                      /\ Wanted(list'.devices[i])
    OBVIOUS
  <2>1. i \in DOMAIN found /\ list'.devices[i] = found[i] /\ Wanted(found[i])
    BY <1>4
  <2> QED
    BY <2>1 DEF ListInv, CollectInv, OfferedInv
<1>6. ASSUME ~excused, NEW e, Wanted(e), \E i \in DOMAIN found : found[i] = e
      PROVE  Cardinality(Listed(e)') = 1
  BY <1>6, ListedOnce DEF ListInv, CollectInv
<1>7. FaithfulList'
  <2>1. Offered(ever)' = Offered(ever) /\ Offered(stable)' = Offered(stable)
    BY <1>3 DEF Offered, Entries
  <2>2. \A i \in DOMAIN list'.devices :
          list'.devices[i] \in Offered(ever)' /\ Wanted(list.devices[i])'
    BY <1>3, <1>5, <2>1 DEF Wanted
  <2>3. ASSUME ~excused', ~cut', NEW e \in Offered(stable), Wanted(e)
        PROVE  Cardinality(Listed(e)') = 1
    <3>1. ~short /\ ~excused
      BY <1>3, <2>3
    <3> QED
      BY <1>6, <2>3, <3>1
  <2>4. \A e : Wanted(e)' <=> Wanted(e)
    BY <1>3 DEF Wanted
  <2> QED
    BY <2>1, <2>2, <2>3, <2>4 DEF FaithfulList
<1>8. CutBySide'
  <2> SUFFICES ASSUME cut'
               PROVE  /\ \A i \in DOMAIN list'.devices :
                           list'.devices[i].type = "input"
                      /\ ~excused' =>
                           \/ \A e \in Entries(stable, "input")' :
                                Wanted(e)' => Cardinality(Listed(e)') = 1
                           \/ DOMAIN list'.devices = {}
    BY DEF CutBySide
  <2>1. short
    BY <1>3
  <2>2. \A i \in DOMAIN list'.devices : list'.devices[i].type = "input"
    BY <1>4, <2>1
  <2>3. Entries(stable, "input")' = Entries(stable, "input")
    BY <1>3 DEF Entries
  <2>4. ASSUME ~excused', DOMAIN list'.devices # {},
               NEW e \in Entries(stable, "input"), Wanted(e)
        PROVE  Cardinality(Listed(e)') = 1
    <3>1. ~excused /\ DOMAIN found # {}
      BY <1>3, <1>4, <2>4
    <3>2. \E i \in DOMAIN found : found[i] = e
      BY <2>1, <2>4, <3>1
    <3> QED
      BY <1>6, <2>4, <3>1, <3>2
  <2>5. \A e : Wanted(e)' <=> Wanted(e)
    BY <1>3 DEF Wanted
  <2> QED
    BY <2>2, <2>3, <2>4, <2>5
<1> QED
  BY <1>2, <1>7, <1>8 DEF ListInv

LEMMA UserLists == MemoryInv /\ ListInv /\ User => ListInv'
<1> SUFFICES ASSUME MemoryInv, ListInv, User PROVE ListInv'
  OBVIOUS
<1>1. ASSUME NEW wanted \in Types \union {"all"}, Enumerate(wanted)
      PROVE  ListInv'
  <2>1. /\ pc' = "connect" /\ side' = "input" /\ list' = NoList
        /\ ever' = present /\ stable' = present /\ present' = present
        /\ todo' = todo /\ found' = found /\ pc = "idle"
    BY <1>1 DEF Enumerate, environment, array
  <2>2. todo = {} /\ found = <<>> /\ DOMAIN found = {}
    BY <2>1 DEF MemoryInv, Stages, ListInv, CollectInv, SideInv
  <2>3. WindowInv' /\ SideInv' /\ OfferedInv' /\ OnceInv'
    BY <2>1, <2>2
       DEF WindowInv, SideInv, OfferedInv, OnceInv, Unasked, BySide
  <2>4. CompleteInv'
    BY <2>1 DEF CompleteInv, Pending, Unasked
  <2> QED
    BY <2>1, <2>3, <2>4, NoListIsFaithful DEF ListInv, CollectInv
<1>2. CASE Drop
  <2>1. /\ pc = "idle" /\ list' = NoList
        /\ UNCHANGED <<environment, query, pc, todo, found, history>>
    BY <1>2 DEF Drop
  <2>2. CollectInv'
    BY <2>1 DEF environment, query, history, ListInv, CollectInv, WindowInv,
      SideInv, OfferedInv, OnceInv, CompleteInv, Unasked, BySide, Offered,
      Entries
  <2> QED
    BY <2>1, <2>2, NoListIsFaithful DEF ListInv
<1> QED
  BY <1>1, <1>2 DEF User

\* Between two calls a list stays right whatever the devices do: what it is
\* measured by is that of its call.
LEMMA ListStaysFaithful ==
  ASSUME FaithfulList, CutBySide,
         UNCHANGED <<list, filter, ever, stable, excused, cut>>
  PROVE  FaithfulList' /\ CutBySide'
<1>1. /\ Offered(ever)' = Offered(ever) /\ Offered(stable)' = Offered(stable)
      /\ Entries(stable, "input")' = Entries(stable, "input")
      /\ \A e : Listed(e)' = Listed(e) /\ (Wanted(e)' <=> Wanted(e))
  BY DEF Offered, Entries, Listed, Wanted
<1>2. FaithfulList'
  BY <1>1 DEF FaithfulList
<1>3. CutBySide'
  BY <1>1 DEF CutBySide
<1> QED
  BY <1>2, <1>3

\* A device that comes is not one that has been there during the call, and a
\* device that goes was not there all the time.
LEMMA EnvironmentLists == MemoryInv /\ ListInv /\ Environment => ListInv'
<1> SUFFICES ASSUME MemoryInv, ListInv, Environment PROVE ListInv'
  OBVIOUS
<1>0. /\ WindowInv /\ SideInv /\ OfferedInv /\ OnceInv /\ CompleteInv
      /\ FaithfulList /\ CutBySide
  BY DEF ListInv, CollectInv
<1>1. ASSUME NEW d \in Devices, Plug(d) PROVE ListInv'
  <2>1. /\ d \notin present /\ (pc = "idle" \/ d \notin ever)
        /\ present' = present \union {d}
        /\ ever' = IF pc = "idle" THEN ever ELSE ever \union {d}
        /\ todo' = IF backend = "pipewire" /\ pc = "receive"
                   THEN todo \union Offered({d}) ELSE todo
        /\ list' = list /\ backend' = backend /\ filter' = filter
        /\ side' = side /\ pc' = pc /\ slots' = slots /\ found' = found
        /\ stable' = stable /\ excused' = excused /\ cut' = cut
    BY <1>1 DEF Plug, query, array
  <2>2. WindowInv'
    BY <1>0, <2>1 DEF WindowInv
  <2>3. SideInv'
    BY <1>0, <2>1 DEF SideInv, Unasked, BySide
  <2>4. Offered(ever) \subseteq Offered(ever')
    BY <2>1, OfferedGrows
  <2>5. Offered({d}) \subseteq Offered(ever') \/ pc = "idle"
    BY <2>1, OfferedGrows
  <2>6. OfferedInv'
    <3>1. \A i \in DOMAIN found' : found'[i] \in Offered(ever')
      BY <1>0, <2>1, <2>4 DEF OfferedInv
    <3>2. ASSUME NEW e \in todo'
          PROVE  e \in Offered(ever') \/ (backend' = "pulse" /\ e.device \in Monitors)
      BY <1>0, <2>1, <2>4, <2>5, <3>2 DEF OfferedInv
    <3>3. Offered(ever)' = Offered(ever')
      BY DEF Offered, Entries
    <3> QED
      BY <3>1, <3>2, <3>3 DEF OfferedInv
  <2>7. OnceInv'
    <3>1. ASSUME ~excused, NEW i \in DOMAIN found PROVE found[i] \notin todo'
      <4>1. found[i] \notin todo /\ found[i].device \in ever
        BY <1>0, <3>1, OfferedIs DEF OfferedInv, OnceInv
      <4>2. pc = "receive" => found[i] \notin Offered({d})
        BY <2>1, <4>1, OfferedIs
      <4> QED
        BY <2>1, <4>1, <4>2
    <3> QED
      BY <1>0, <2>1, <3>1 DEF OnceInv
  <2>8. CompleteInv'
    <3>1. Offered(stable)' = Offered(stable) /\ todo \subseteq todo'
      BY <2>1 DEF Offered, Entries
    <3>2. \A e : Pending(e)' <=> Pending(e)
      BY <2>1 DEF Pending, Unasked
    <3> QED
      BY <1>0, <2>1, <3>1, <3>2 DEF CompleteInv
  <2>9. FaithfulList' /\ CutBySide'
    <3>1. pc # "idle" => list' = NoList
      BY <2>1, NoListInCall
    <3>2. pc = "idle" => UNCHANGED <<list, filter, ever, stable, excused, cut>>
      BY <2>1
    <3> QED
      BY <1>0, <3>1, <3>2, NoListIsFaithful, ListStaysFaithful
  <2> QED
    BY <2>2, <2>3, <2>6, <2>7, <2>8, <2>9 DEF ListInv, CollectInv
<1>2. ASSUME NEW d \in Devices, Unplug(d) PROVE ListInv'
  <2>1. /\ present' = present \ {d}
        /\ stable' = IF pc = "idle" THEN stable ELSE stable \ {d}
        /\ list' = list /\ backend' = backend /\ filter' = filter
        /\ side' = side /\ pc' = pc /\ todo' = todo /\ slots' = slots
        /\ found' = found /\ ever' = ever /\ excused' = excused /\ cut' = cut
    BY <1>2 DEF Unplug, query, array
  <2>2. WindowInv'
    BY <1>0, <2>1 DEF WindowInv
  <2>3. Offered(ever)' = Offered(ever)
    BY <2>1 DEF Offered, Entries
  <2>4. SideInv' /\ OfferedInv' /\ OnceInv'
    BY <1>0, <2>1, <2>3 DEF SideInv, OfferedInv, OnceInv, Unasked, BySide
  <2>5. Offered(stable)' \subseteq Offered(stable)
    <3>1. Offered(stable') \subseteq Offered(stable)
      BY <2>1, OfferedGrows
    <3> QED
      BY <3>1 DEF Offered, Entries
  <2>6. CompleteInv'
    <3>1. \A e : Pending(e)' <=> Pending(e)
      BY <2>1 DEF Pending, Unasked
    <3> QED
      BY <1>0, <2>1, <2>5, <3>1 DEF CompleteInv
  <2>7. FaithfulList' /\ CutBySide'
    <3>1. pc # "idle" => list' = NoList
      BY <2>1, NoListInCall
    <3>2. pc = "idle" => UNCHANGED <<list, filter, ever, stable, excused, cut>>
      BY <2>1
    <3> QED
      BY <1>0, <3>1, <3>2, NoListIsFaithful, ListStaysFaithful
  <2> QED
    BY <2>2, <2>4, <2>6, <2>7 DEF ListInv, CollectInv
<1>3. CASE LoseServer \/ RestartServer
  <2>1. UNCHANGED <<present, list, query, pc, todo, slots, array, history>>
    BY <1>3 DEF LoseServer, RestartServer
  <2>2. CollectInv'
    BY <1>0, <2>1 DEF query, array, history, CollectInv, WindowInv, SideInv,
      OfferedInv, OnceInv, CompleteInv, Pending, Unasked, BySide, Offered,
      Entries
  <2>3. FaithfulList' /\ CutBySide'
    BY <1>0, <2>1, ListStaysFaithful DEF query, history
  <2> QED
    BY <2>2, <2>3 DEF ListInv
<1> QED
  BY <1>1, <1>2, <1>3 DEF Environment

\* A step of a call that has yet to be told of the devices.
LEMMA WaitLists ==
  ASSUME MemoryInv, ListInv, Unasked, Unasked',
         UNCHANGED <<present, list, backend, side, todo, found, history>>
  PROVE  ListInv'
<1>0. WindowInv /\ SideInv /\ OfferedInv /\ OnceInv /\ CompleteInv
  BY DEF ListInv, CollectInv
<1>1. /\ pc # "idle" /\ pc # "receive" /\ pc' # "idle" /\ pc' # "receive"
      /\ list' = NoList
  BY NoListInCall DEF Unasked
<1>2. /\ present' = present /\ backend' = backend /\ side' = side
      /\ todo' = todo /\ found' = found
      /\ ever' = ever /\ stable' = stable /\ excused' = excused
  BY DEF history
<1>3. WindowInv' /\ SideInv'
  BY <1>0, <1>1, <1>2 DEF WindowInv, SideInv, BySide
<1>4. OfferedInv' /\ OnceInv'
  BY <1>0, <1>2 DEF OfferedInv, OnceInv, Offered, Entries
<1>5. CompleteInv'
  BY <1>0, <1>1, <1>2 DEF CompleteInv, Pending, Offered, Entries
<1> QED
  BY <1>1, <1>3, <1>4, <1>5, NoListIsFaithful DEF ListInv, CollectInv

\* The call is told of the devices there are: of all of them, or of those of
\* the side it asked for.
LEMMA AskLists ==
  ASSUME MemoryInv, ListInv, Unasked, pc' = "receive",
         UNCHANGED <<present, list, backend, side, found, ever, stable>>,
         \A e \in todo' :
           /\ e \in Offered(present) \/ (backend = "pulse" /\ e.device \in Monitors)
           /\ backend \in BySide => e.type = side,
         ~excused' =>
           /\ ~excused
           /\ backend = "coreaudio" => slots' = 0
           /\ \A e \in Offered(present) :
                e \in todo' \/ (backend \in BySide /\ e.type # side)
  PROVE  ListInv'
<1>0. WindowInv /\ SideInv /\ OfferedInv /\ OnceInv /\ CompleteInv
  BY DEF ListInv, CollectInv
<1>1. pc # "idle" /\ pc # "receive" /\ list' = NoList /\ side \in Types
  BY NoListInCall DEF Unasked, MemoryInv, TypeOK
<1>2. /\ present' = present /\ backend' = backend /\ side' = side
      /\ found' = found /\ ever' = ever /\ stable' = stable
  OBVIOUS
<1>3. /\ Offered(stable) \subseteq Offered(present)
      /\ Offered(present) \subseteq Offered(ever)
      /\ Offered(ever)' = Offered(ever) /\ Offered(stable)' = Offered(stable)
  <2>1. stable \subseteq present /\ present \subseteq ever
    BY <1>0, <1>1 DEF WindowInv
  <2> QED
    BY <1>2, <2>1, OfferedGrows DEF Offered, Entries
<1>4. /\ todo = {}
      /\ side = "input" => DOMAIN found = {}
      /\ side = "output" => /\ backend \in BySide
                            /\ \A i \in DOMAIN found : found[i].type = "input"
  BY <1>0, <1>1 DEF SideInv
<1>5. WindowInv'
  BY <1>0, <1>1, <1>2 DEF WindowInv
<1>6. SideInv'
  <2>1. ~Unasked' /\ pc' # "idle"
    BY DEF Unasked
  <2>2. \A i \in DOMAIN found' : side' = "output" \/ found'[i].type = "input"
    BY <1>1, <1>2, <1>4 DEF Types
  <2> QED
    BY <1>2, <1>4, <2>1, <2>2 DEF SideInv, BySide
<1>7. OfferedInv'
  BY <1>0, <1>2, <1>3 DEF OfferedInv
<1>8. OnceInv'
  <2>1. ASSUME NEW i \in DOMAIN found' PROVE found'[i] \notin todo'
    BY <1>1, <1>2, <1>4 DEF Types
  <2>2. ~excused' => \A i, j \in DOMAIN found : found[i] = found[j] => i = j
    BY <1>0 DEF OnceInv
  <2> QED
    BY <1>2, <2>1, <2>2 DEF OnceInv
<1>9. CompleteInv'
  <2>1. ASSUME ~excused', NEW e \in Offered(stable)
        PROVE  \/ e \in todo' \/ Pending(e)'
               \/ \E i \in DOMAIN found : found[i] = e
    <3>1. ~excused /\ e.type \in Types
      BY <2>1, OfferedIs
    <3>2. e \in todo' \/ (backend \in BySide /\ e.type # side)
      BY <1>3, <2>1
    <3>3. CASE side = "input" /\ e \notin todo'
      BY <1>2, <3>1, <3>2, <3>3 DEF Pending, BySide, Types
    <3>4. CASE side = "output" /\ e \notin todo'
      <4>1. ~Pending(e) /\ e \notin todo
        BY <1>1, <1>4, <3>1, <3>2, <3>4 DEF Pending, Types
      <4> QED
        BY <1>0, <1>1, <2>1, <3>1, <4>1 DEF CompleteInv
    <3> QED
      BY <1>1, <3>3, <3>4 DEF Types
  <2>2. ~excused' => (backend' = "coreaudio" => slots' = 0)
    BY <1>2
  <2> QED
    BY <1>2, <1>3, <2>1, <2>2 DEF CompleteInv
<1> QED
  BY <1>1, <1>5, <1>6, <1>7, <1>8, <1>9, NoListIsFaithful DEF ListInv, CollectInv

\* What is not changed by a step that looks at a reported entry.
Looking ==
  /\ pc \in {"receive", "synced"} /\ (backend \in BySide => pc = "receive")
  /\ UNCHANGED <<present, list, backend, side, pc, slots, ever, stable>>

\* A reported entry is collected.
LEMMA CollectLists ==
  ASSUME MemoryInv, ListInv, Looking, NEW e \in todo, todo' = todo \ {e},
         found' = Append(found, e), excused' = excused,
         backend = "pulse" => e.device \notin Monitors
  PROVE  ListInv'
<1>0. WindowInv /\ SideInv /\ OfferedInv /\ OnceInv /\ CompleteInv
  BY DEF ListInv, CollectInv
<1>1. /\ pc # "idle" /\ ~Unasked /\ list' = NoList
      /\ backend \in BySide => pc = "receive"
  BY NoListInCall DEF Looking, Unasked
<1>2. /\ present' = present /\ backend' = backend /\ side' = side /\ pc' = pc
      /\ slots' = slots /\ ever' = ever /\ stable' = stable
  BY DEF Looking
<1> DEFINE n == Len(found)
<1>3. /\ n \in Nat /\ DOMAIN found = 1 .. n /\ DOMAIN found' = 1 .. (n + 1)
      /\ found'[n + 1] = e /\ \A i \in 1 .. n : found'[i] = found[i]
      /\ e \in Entry /\ side \in Types
  BY DEF MemoryInv, TypeOK
<1> HIDE DEF n
<1>4. \A i \in DOMAIN found' :
        (i \in DOMAIN found /\ found'[i] = found[i]) \/ (i = n + 1 /\ found'[i] = e)
  BY <1>3
<1>5. /\ Offered(ever)' = Offered(ever) /\ Offered(stable)' = Offered(stable)
      /\ \A x : Pending(x)' <=> Pending(x)
  BY <1>2 DEF Offered, Entries, Pending, Unasked
<1>6. WindowInv'
  BY <1>0, <1>2 DEF WindowInv
<1>7. SideInv'
  <2>1. ~Unasked' /\ pc' # "idle"
    BY <1>1, <1>2 DEF Unasked
  <2>2. backend \in BySide => e.type = side
    BY <1>0 DEF SideInv
  <2>3. backend \in BySide =>
          \A i \in DOMAIN found' :
            found'[i].type = "input" \/ (side = "output" /\ pc = "receive")
    BY <1>0, <1>1, <1>3, <1>4, <2>2 DEF SideInv, Types
  <2> QED
    BY <1>0, <1>2, <2>1, <2>3 DEF SideInv, BySide
<1>8. OfferedInv'
  <2>1. e \in Offered(ever)
    BY <1>0 DEF OfferedInv
  <2>2. \A i \in DOMAIN found' : found'[i] \in Offered(ever)
    BY <1>0, <1>4, <2>1 DEF OfferedInv
  <2> QED
    BY <1>0, <1>2, <1>5, <2>2 DEF OfferedInv
<1>9. OnceInv'
  <2> SUFFICES ASSUME ~excused'
               PROVE  /\ \A i, j \in DOMAIN found' : found'[i] = found'[j] => i = j
                      /\ \A i \in DOMAIN found' : found'[i] \notin todo'
    BY DEF OnceInv
  <2>1. /\ \A i, j \in DOMAIN found : found[i] = found[j] => i = j
        /\ \A i \in DOMAIN found : found[i] \notin todo
    BY <1>0 DEF OnceInv
  <2>2. \A i \in DOMAIN found : found[i] # e
    BY <2>1
  <2> QED
    BY <1>4, <2>1, <2>2
<1>10. CompleteInv'
  <2> SUFFICES ASSUME ~excused'
               PROVE  /\ backend' = "coreaudio" /\ pc' = "receive" => slots' = 0
                      /\ \A x \in Offered(stable)' :
                           \/ x \in todo' \/ Pending(x)'
                           \/ \E i \in DOMAIN found' : found'[i] = x
    BY DEF CompleteInv
  <2>1. ~excused
    OBVIOUS
  <2>2. ASSUME NEW x \in Offered(stable)
        PROVE  \/ x \in todo' \/ Pending(x)
               \/ \E i \in DOMAIN found' : found'[i] = x
    <3>1. \/ x \in todo \/ Pending(x)
          \/ \E i \in DOMAIN found : found[i] = x
      BY <1>0, <1>1, <2>1, <2>2 DEF CompleteInv
    <3>2. CASE x \in todo
      <4>1. x = e \/ x \in todo'
        BY <3>2
      <4>2. n + 1 \in DOMAIN found'
        BY <1>3
      <4> QED
        BY <1>3, <4>1, <4>2
    <3>3. CASE \E i \in DOMAIN found : found[i] = x
      <4>1. \A i \in DOMAIN found : i \in DOMAIN found' /\ found'[i] = found[i]
        BY <1>3
      <4> QED
        BY <3>3, <4>1
    <3> QED
      BY <3>1, <3>2, <3>3
  <2> QED
    BY <1>0, <1>1, <1>2, <1>5, <2>1, <2>2 DEF CompleteInv
<1> QED
  BY <1>1, <1>6, <1>7, <1>8, <1>9, <1>10, NoListIsFaithful DEF ListInv, CollectInv

\* A reported entry is left out: it failed, or it is a monitor.
LEMMA LeaveOutLists ==
  ASSUME MemoryInv, ListInv, Looking, NEW e \in todo, todo' = todo \ {e},
         found' = found,
         ~excused' => ~excused /\ e.device \in Monitors
  PROVE  ListInv'
<1>0. WindowInv /\ SideInv /\ OfferedInv /\ OnceInv /\ CompleteInv
  BY DEF ListInv, CollectInv
<1>1. pc # "idle" /\ ~Unasked /\ list' = NoList
  BY NoListInCall DEF Looking, Unasked
<1>2. /\ present' = present /\ backend' = backend /\ side' = side /\ pc' = pc
      /\ slots' = slots /\ ever' = ever /\ stable' = stable
  BY DEF Looking
<1>3. /\ Offered(ever)' = Offered(ever) /\ Offered(stable)' = Offered(stable)
      /\ \A x : Pending(x)' <=> Pending(x)
  BY <1>2 DEF Offered, Entries, Pending, Unasked
<1>4. WindowInv' /\ SideInv'
  BY <1>0, <1>2 DEF WindowInv, SideInv, Unasked, BySide
<1>5. OfferedInv'
  BY <1>0, <1>2, <1>3 DEF OfferedInv
<1>6. OnceInv'
  BY <1>0 DEF OnceInv
<1>7. CompleteInv'
  <2> SUFFICES ASSUME ~excused'
               PROVE  /\ backend' = "coreaudio" /\ pc' = "receive" => slots' = 0
                      /\ \A x \in Offered(stable)' :
                           \/ x \in todo' \/ Pending(x)'
                           \/ \E i \in DOMAIN found' : found'[i] = x
    BY DEF CompleteInv
  <2>1. ~excused /\ e.device \in Monitors
    OBVIOUS
  <2>2. e \notin Offered(stable)
    BY <2>1, OfferedIs
  <2> QED
    BY <1>0, <1>1, <1>2, <1>3, <2>1, <2>2 DEF CompleteInv
<1> QED
  BY <1>1, <1>4, <1>5, <1>6, <1>7, NoListIsFaithful DEF ListInv, CollectInv

\* The inputs have been told of: the outputs are next.
LEMMA NextSideLists ==
  ASSUME MemoryInv, ListInv, pc = "receive", backend \in BySide, side = "input",
         todo = {}, side' = "output", Unasked',
         UNCHANGED <<present, list, backend, todo, found, history>>
  PROVE  ListInv'
<1>0. WindowInv /\ SideInv /\ OfferedInv /\ OnceInv /\ CompleteInv
  BY DEF ListInv, CollectInv
<1>1. pc' # "idle" /\ pc' # "receive" /\ ~Unasked /\ list' = NoList
  BY NoListInCall DEF Unasked
<1>2. /\ present' = present /\ backend' = backend /\ todo' = todo
      /\ found' = found /\ ever' = ever /\ stable' = stable /\ excused' = excused
  BY DEF history
<1>3. WindowInv'
  BY <1>0, <1>2 DEF WindowInv
<1>4. SideInv'
  BY <1>0, <1>1, <1>2 DEF SideInv, BySide
<1>5. OfferedInv' /\ OnceInv'
  BY <1>0, <1>2 DEF OfferedInv, OnceInv, Offered, Entries
<1>6. CompleteInv'
  <2>1. \A e : Pending(e) => Pending(e)'
    BY <1>1 DEF Pending
  <2>2. Offered(stable)' = Offered(stable)
    BY <1>2 DEF Offered, Entries
  <2> QED
    BY <1>0, <1>1, <1>2, <2>1, <2>2 DEF CompleteInv
<1> QED
  BY <1>1, <1>3, <1>4, <1>5, <1>6, NoListIsFaithful DEF ListInv, CollectInv

LEMMA ServerLists == MemoryInv /\ ListInv /\ ServerStep => ListInv'
<1> SUFFICES ASSUME MemoryInv, ListInv, ServerStep PROVE ListInv'
  OBVIOUS
<1>0. side \in Types /\ WindowInv /\ SideInv /\ OfferedInv /\ OnceInv /\ CompleteInv
  BY DEF MemoryInv, TypeOK, ListInv, CollectInv
<1>1. CASE Connected \/ ServerRefuses
  <2>1. /\ Unasked /\ Unasked'
        /\ UNCHANGED <<present, list, backend, side, todo, found, history>>
    BY <1>1 DEF Connected, ServerRefuses, Goto, Unasked, environment, array
  <2> QED
    BY <2>1, WaitLists
<1>2. CASE ServerAnswers
  <2>1. /\ Unasked /\ pc' = "receive" /\ backend = "pulse"
        /\ todo' = Reported(present, side)
        /\ UNCHANGED <<present, list, backend, side, found, ever, stable>>
    BY <1>2 DEF ServerAnswers, Goto, Unasked, environment, array, history
  <2>2. \A e \in todo' :
          /\ e \in Offered(present) \/ (backend = "pulse" /\ e.device \in Monitors)
          /\ backend \in BySide => e.type = side
    BY <1>0, <2>1, EntriesAre
  <2>3. \A e \in Offered(present) :
          e \in todo' \/ (backend \in BySide /\ e.type # side)
    <3>1. ASSUME NEW e \in Offered(present), e.type = side PROVE e \in todo'
      BY <1>0, <2>1, <3>1, OfferedIs, EntriesAre
    <3> QED
      BY <2>1, <3>1 DEF BySide
  <2>4. ~excused' => ~excused /\ backend # "coreaudio"
    BY <1>2, <2>1 DEF ServerAnswers, Goto, history
  <2> QED
    BY <2>1, <2>2, <2>3, <2>4, AskLists
<1>3. CASE PipeWireAnnounces
  <2>1. /\ Unasked /\ pc' = "receive" /\ backend = "pipewire"
        /\ todo' = Offered(present)
        /\ UNCHANGED <<present, list, backend, side, found, ever, stable>>
    BY <1>3 DEF PipeWireAnnounces, Goto, Unasked, environment, array, history
  <2>2. ~excused' => ~excused
    BY <1>3 DEF PipeWireAnnounces, Goto, history
  <2> QED
    BY <2>1, <2>2, AskLists DEF BySide
<1>4. CASE PipeWireSyncs
  <2>1. /\ pc = "receive" /\ pc' = "synced" /\ backend = "pipewire"
        /\ backend' = backend /\ side' = side /\ todo' = todo /\ found' = found
        /\ present' = present /\ ever' = ever /\ stable' = stable
        /\ excused' = excused
    BY <1>4 DEF PipeWireSyncs, Goto, environment, array, history
  <2>2. list' = NoList
    <3>1. pc # "idle" /\ list' = list
      BY <1>4 DEF PipeWireSyncs, Goto
    <3> QED
      BY <3>1, NoListInCall
  <2>3. WindowInv' /\ SideInv'
    BY <1>0, <2>1 DEF WindowInv, SideInv, Unasked, BySide
  <2>4. OfferedInv' /\ OnceInv'
    BY <1>0, <2>1 DEF OfferedInv, OnceInv, Offered, Entries
  <2>5. CompleteInv'
    BY <1>0, <2>1 DEF CompleteInv, Pending, Unasked, BySide, Offered, Entries
  <2> QED
    BY <2>2, <2>3, <2>4, <2>5, NoListIsFaithful DEF ListInv, CollectInv
<1> QED
  BY <1>1, <1>2, <1>3, <1>4 DEF ServerStep

\* All that was there has been collected once nothing is reported or pending.
LEMMA AllCollected ==
  ASSUME MemoryInv, ListInv, todo = {}, pc \in {"receive", "synced"},
         backend \in BySide => side = "output"
  PROVE  ~excused => \A e \in Offered(stable) : \E i \in DOMAIN found : found[i] = e
<1>1. ASSUME NEW e PROVE ~Pending(e)
  BY DEF Pending, Unasked
<1> QED
  BY <1>1 DEF ListInv, CollectInv, CompleteInv

\* PulseAudio is lost between its answers: the inputs have all come, or none,
\* and no output has.
LEMMA BetweenAnswers ==
  ASSUME MemoryInv, ListInv, pc \in {"request", "refused"}, backend = "pulse"
  PROVE  /\ \A i \in DOMAIN found : found[i].type = "input"
         /\ ~excused =>
              \/ \A e \in Entries(stable, "input") :
                   \E i \in DOMAIN found : found[i] = e
              \/ DOMAIN found = {}
<1>0. SideInv /\ CompleteInv /\ side \in Types
  BY DEF MemoryInv, TypeOK, ListInv, CollectInv
<1>1. todo = {} /\ \A i \in DOMAIN found : found[i].type = "input"
  BY <1>0 DEF SideInv, Unasked, BySide
<1>2. CASE side = "input"
  <2>1. found = <<>>
    BY <1>0, <1>2 DEF SideInv, Unasked
  <2>2. DOMAIN found = {}
    BY <2>1
  <2> QED
    BY <1>1, <2>2
<1>3. CASE side = "output"
  <2>1. ASSUME ~excused, NEW e \in Entries(stable, "input")
        PROVE  \E i \in DOMAIN found : found[i] = e
    <3>1. e \in Offered(stable) /\ e.type = "input"
      BY <2>1, EntriesAre DEF Types
    <3>2. ~ Pending(e)
      BY <1>3, <3>1 DEF Pending
    <3> QED
      BY <1>0, <1>1, <2>1, <3>1, <3>2 DEF CompleteInv
  <2> QED
    BY <1>1, <2>1
<1> QED
  BY <1>0, <1>2, <1>3 DEF Types

LEMMA PulseLists ==
  ASSUME MemoryInv, ListInv,
         \/ ConnectFails \/ AskFails \/ PulseLost \/ PulseEndOfList
         \/ \E e \in todo : PulseDevice(e)
  PROVE  ListInv'
<1>0. SideInv
  BY DEF ListInv, CollectInv
<1>1. CASE ConnectFails
  BY <1>1, ReturnErrorLists DEF ConnectFails
<1>2. CASE AskFails
  <2>1. /\ pc = "request" /\ backend = "pulse"
        /\ ReturnError(0) \/ ReturnList(TRUE)
    BY <1>2 DEF AskFails
  <2>2. CASE ReturnError(0)
    BY <2>1, <2>2, ReturnErrorLists
  <2>3. CASE ReturnList(TRUE)
    BY <2>1, <2>3, BetweenAnswers, ReturnListLists
  <2> QED
    BY <2>1, <2>2, <2>3
<1>3. CASE PulseLost
  <2>1. pc \in {"request", "refused"} /\ backend = "pulse" /\ ReturnList(TRUE)
    BY <1>3 DEF PulseLost
  <2> QED
    BY <2>1, BetweenAnswers, ReturnListLists
<1>4. CASE PulseEndOfList
  <2>1. CASE side = "input" /\ Goto("request") /\ side' = "output" /\ UNCHANGED todo
    <3>1. /\ pc = "receive" /\ backend \in BySide /\ todo = {} /\ Unasked'
          /\ UNCHANGED <<present, list, backend, todo, found, history>>
      BY <1>4, <2>1 DEF PulseEndOfList, Goto, Unasked, BySide, environment, array
    <3> QED
      BY <2>1, <3>1, NextSideLists
  <2>2. CASE side = "output" /\ ReturnList(FALSE)
    <3>1. pc = "receive" /\ todo = {}
      BY <1>4 DEF PulseEndOfList
    <3> QED
      BY <2>2, <3>1, AllCollected, ReturnListLists
  <2> QED
    BY <1>4, <2>1, <2>2 DEF PulseEndOfList
<1>5. ASSUME NEW e \in todo, PulseDevice(e) PROVE ListInv'
  <2>1. Looking /\ todo' = todo \ {e} /\ backend = "pulse"
    BY <1>5 DEF PulseDevice, Take, Looking, environment, query
  <2>2. CASE e.device \in Monitors
    <3>1. found' = found /\ excused' = excused
      BY <1>5, <2>2 DEF PulseDevice, LeaveOut, array
    <3>2. ~excused' => ~excused /\ e.device \in Monitors
      BY <2>2, <3>1
    <3> QED
      BY <2>1, <3>1, <3>2, LeaveOutLists
  <2>3. CASE e.device \notin Monitors /\ Add(e)
    BY <2>1, <2>3, CollectLists DEF Add
  <2>4. CASE e.device \notin Monitors /\ NoMemory
    BY <2>1, <2>4, LeaveOutLists DEF NoMemory
  <2> QED
    BY <1>5, <2>2, <2>3, <2>4 DEF PulseDevice
<1> QED
  BY <1>1, <1>2, <1>3, <1>4, <1>5

LEMMA PipeWireLists ==
  ASSUME MemoryInv, ListInv,
         RegistryFails \/ PipeWireDone \/ \E e \in todo : PipeWireDevice(e)
  PROVE  ListInv'
<1>1. CASE RegistryFails
  BY <1>1, ReturnErrorLists DEF RegistryFails
<1>2. CASE PipeWireDone
  <2>1. pc = "synced" /\ todo = {} /\ backend \notin BySide /\ ReturnList(FALSE)
    BY <1>2 DEF PipeWireDone, BySide
  <2> QED
    BY <2>1, AllCollected, ReturnListLists
<1>3. ASSUME NEW e \in todo, PipeWireDevice(e) PROVE ListInv'
  <2>1. Looking /\ todo' = todo \ {e} /\ backend = "pipewire"
    BY <1>3 DEF PipeWireDevice, Take, Looking, BySide, environment, query
  <2>2. CASE Add(e)
    BY <2>1, <2>2, CollectLists DEF Add
  <2>3. CASE NoMemory
    BY <2>1, <2>3, LeaveOutLists DEF NoMemory
  <2> QED
    BY <1>3, <2>2, <2>3 DEF PipeWireDevice
<1> QED
  BY <1>1, <1>2, <1>3

\* A slot without an answer excuses the call.
LEMMA JunkLists ==
  ASSUME MemoryInv, ListInv, VisitJunk
  PROVE  ListInv'
<1>0. WindowInv /\ SideInv /\ OfferedInv /\ OnceInv /\ CompleteInv
  BY DEF ListInv, CollectInv
<1>1. /\ pc = "receive" /\ backend = "coreaudio" /\ todo = {} /\ slots > 0
      /\ pc' = pc /\ backend' = backend /\ side' = side /\ found' = found
      /\ present' = present /\ ever' = ever /\ stable' = stable
      /\ excused' = excused
      /\ todo' = todo \/ \E d \in present : todo' = Offered({d})
  BY DEF VisitJunk, environment, query, array, history
<1>2. list' = NoList
  BY <1>1, NoListInCall DEF VisitJunk
<1>3. slots # 0
  BY <1>1 DEF MemoryInv, TypeOK
<1>4. ~excused' => FALSE
  BY <1>0, <1>1, <1>3 DEF CompleteInv
<1>5. todo' \subseteq Offered(ever)
  <2>1. ASSUME NEW d \in present PROVE Offered({d}) \subseteq Offered(ever)
    BY <1>0, <1>1, OfferedGrows DEF WindowInv
  <2> QED
    BY <1>1, <2>1
<1>6. WindowInv' /\ SideInv'
  BY <1>0, <1>1 DEF WindowInv, SideInv, Unasked, BySide
<1>7. OfferedInv'
  <2>1. Offered(ever)' = Offered(ever)
    BY <1>1 DEF Offered, Entries
  <2> QED
    BY <1>0, <1>1, <1>5, <2>1 DEF OfferedInv
<1>8. OnceInv' /\ CompleteInv'
  BY <1>4 DEF OnceInv, CompleteInv
<1> QED
  BY <1>2, <1>6, <1>7, <1>8, NoListIsFaithful DEF ListInv, CollectInv

LEMMA CoreAudioLists ==
  ASSUME MemoryInv, ListInv,
         \/ CountDevices \/ FillIds \/ VisitJunk \/ CoreAudioNoMemory
         \/ CoreAudioDone \/ \E e \in todo : CoreAudioDevice(e)
  PROVE  ListInv'
<1>0. WindowInv /\ slots \in Nat
  BY DEF ListInv, CollectInv, MemoryInv, TypeOK
<1>1. CASE CountDevices
  <2>0. pc = "connect" /\ backend = "coreaudio"
    BY <1>1 DEF CountDevices
  <2>1. CASE ReturnError(0)
    BY <2>0, <2>1, ReturnErrorLists
  <2>2. CASE present = {} /\ ReturnList(FALSE)
    <3>1. stable = {}
      BY <1>0, <2>0, <2>2 DEF WindowInv
    <3>2. Offered(stable) = {}
      BY <3>1 DEF Offered, Entries
    <3> QED
      BY <2>0, <2>2, <3>2, ReturnListLists
  <2>3. CASE /\ pc' = "request"
             /\ UNCHANGED <<environment, list, query, todo, found, history>>
    <3>1. /\ Unasked /\ Unasked'
          /\ UNCHANGED <<present, list, backend, side, todo, found, history>>
      BY <2>0, <2>3 DEF Unasked, environment, query
    <3> QED
      BY <3>1, WaitLists
  <2> QED
    BY <1>1, <2>1, <2>2, <2>3 DEF CountDevices
<1>2. CASE FillIds
  <2>0. pc = "request" /\ backend = "coreaudio" /\ backend \notin BySide
    BY <1>2 DEF FillIds, BySide
  <2>1. CASE ReturnError(1)
    BY <2>0, <2>1, ReturnErrorLists
  <2>2. ASSUME NEW S \in SUBSET present, pc' = "receive", todo' = Offered(S),
               slots' = slots - Cardinality(S),
               Cardinality(S) = IF Cardinality(present) < slots
                                THEN Cardinality(present) ELSE slots,
               excused' = (excused \/ S # present \/ slots' > 0),
               UNCHANGED <<environment, list, query, ids, array, ever, stable>>
        PROVE  ListInv'
    <3>1. /\ Unasked
          /\ UNCHANGED <<present, list, backend, side, found, ever, stable>>
      BY <2>0, <2>2 DEF Unasked, environment, query, array
    <3>2. \A e \in todo' : e \in Offered(present)
      BY <2>2, OfferedGrows
    <3>3. ASSUME ~excused' PROVE ~excused /\ S = present /\ ~(slots' > 0)
      BY <2>2, <3>3
    <3>4. slots' \in Nat
      <4>1. S \in SUBSET Devices /\ present \in SUBSET Devices
        BY DEF MemoryInv, TypeOK
      <4>2. Cardinality(S) \in Nat /\ Cardinality(present) \in Nat
        BY <4>1, CountType
      <4> QED
        BY <1>0, <2>2, <4>2
    <3>5. ~excused' =>
            /\ ~excused
            /\ backend = "coreaudio" => slots' = 0
            /\ \A e \in Offered(present) :
                 e \in todo' \/ (backend \in BySide /\ e.type # side)
      <4>1. ~(slots' > 0) => slots' = 0
        BY <3>4
      <4> QED
        BY <2>2, <3>3, <4>1
    <3> HIDE <2>2
    <3>6. pc' = "receive"
      BY <2>2
    <3> QED
      BY <2>0, <3>1, <3>2, <3>5, <3>6, AskLists
  <2> QED
    BY <1>2, <2>1, <2>2 DEF FillIds
<1>3. CASE VisitJunk
  BY <1>3, JunkLists
<1>4. CASE CoreAudioNoMemory
  <2>1. pc # "idle" /\ \E freed \in {ArrayBlocks(Len(found), capacity) + 1} :
                         ReturnError(freed)
    BY <1>4 DEF CoreAudioNoMemory
  <2> QED
    BY <2>1, ReturnErrorLists
<1>5. CASE CoreAudioDone
  <2>1. pc = "receive" /\ todo = {} /\ backend \notin BySide /\ ReturnList(FALSE)
    BY <1>5 DEF CoreAudioDone, BySide
  <2> QED
    BY <2>1, AllCollected, ReturnListLists
<1>6. ASSUME NEW e \in todo, CoreAudioDevice(e) PROVE ListInv'
  <2>1. Looking /\ todo' = todo \ {e} /\ backend = "coreaudio"
    BY <1>6 DEF CoreAudioDevice, Take, Looking, BySide, environment, query
  <2>2. CASE Add(e)
    BY <2>1, <2>2, CollectLists DEF Add
  <2>3. CASE excused' = TRUE /\ UNCHANGED array
    BY <2>1, <2>3, LeaveOutLists DEF array
  <2> QED
    BY <1>6, <2>2, <2>3 DEF CoreAudioDevice
<1> QED
  BY <1>1, <1>2, <1>3, <1>4, <1>5, <1>6

LEMMA WasapiLists ==
  ASSUME MemoryInv, ListInv,
         EndpointsOf \/ WasapiEndOfList \/ \E e \in todo : WasapiDevice(e)
  PROVE  ListInv'
<1>0. side \in Types
  BY DEF MemoryInv, TypeOK
<1>1. CASE EndpointsOf
  <2>0. pc = "connect" /\ backend = "wasapi"
    BY <1>1 DEF EndpointsOf
  <2>1. CASE ReturnError(0)
    BY <2>0, <2>1, ReturnErrorLists
  <2>2. CASE Goto("receive") /\ todo' = Entries(present, side) /\ UNCHANGED side
    <3>1. /\ Unasked /\ pc' = "receive"
          /\ UNCHANGED <<present, list, backend, side, found, ever, stable>>
      BY <2>0, <2>2 DEF Goto, Unasked, environment, array, history
    <3>2. \A e \in todo' : e \in Offered(present) /\ e.type = side
      BY <1>0, <2>2, EntriesAre
    <3>3. \A e \in Offered(present) :
            e \in todo' \/ (backend \in BySide /\ e.type # side)
      <4>1. ASSUME NEW e \in Offered(present), e.type = side PROVE e \in todo'
        BY <2>2, <4>1, OfferedIs
      <4> QED
        BY <2>0, <4>1 DEF BySide
    <3>4. ~excused' => ~excused /\ backend # "coreaudio"
      BY <2>0, <2>2 DEF Goto, history
    <3> QED
      BY <3>1, <3>2, <3>3, <3>4, AskLists
  <2> QED
    BY <1>1, <2>1, <2>2 DEF EndpointsOf
<1>2. CASE WasapiEndOfList
  <2>1. CASE side = "input" /\ Goto("connect") /\ side' = "output" /\ UNCHANGED todo
    <3>1. /\ pc = "receive" /\ backend \in BySide /\ todo = {} /\ Unasked'
          /\ UNCHANGED <<present, list, backend, todo, found, history>>
      BY <1>2, <2>1 DEF WasapiEndOfList, Goto, Unasked, BySide, environment, array
    <3> QED
      BY <2>1, <3>1, NextSideLists
  <2>2. CASE side = "output" /\ ReturnList(FALSE)
    <3>1. pc = "receive" /\ todo = {}
      BY <1>2 DEF WasapiEndOfList
    <3> QED
      BY <2>2, <3>1, AllCollected, ReturnListLists
  <2> QED
    BY <1>2, <2>1, <2>2 DEF WasapiEndOfList
<1>3. ASSUME NEW e \in todo, WasapiDevice(e) PROVE ListInv'
  <2>1. Looking /\ todo' = todo \ {e} /\ backend = "wasapi"
    BY <1>3 DEF WasapiDevice, Take, Looking, environment, query
  <2>2. CASE found' = Append(found, e) /\ UNCHANGED <<capacity, live, excused>>
    BY <2>1, <2>2, CollectLists
  <2>3. CASE excused' = TRUE /\ UNCHANGED array
    BY <2>1, <2>3, LeaveOutLists DEF array
  <2> QED
    BY <1>3, <2>2, <2>3 DEF WasapiDevice
<1> QED
  BY <1>1, <1>2, <1>3

LEMMA ListStep == MemoryInv /\ ListInv /\ [Next]_vars => ListInv'
<1> SUFFICES ASSUME MemoryInv, ListInv, [Next]_vars PROVE ListInv'
  OBVIOUS
<1>1. CASE CallStep
  BY <1>1, PulseLists, PipeWireLists, CoreAudioLists, WasapiLists DEF CallStep
<1>2. CASE UNCHANGED vars
  <2>1. /\ UNCHANGED <<present, list, filter, backend, side, pc, todo, slots>>
        /\ UNCHANGED <<found, ever, stable, excused, cut>>
    BY <1>2 DEF vars, environment, query, array, history
  <2>2. CollectInv'
    BY <2>1 DEF ListInv, CollectInv, WindowInv, SideInv, OfferedInv, OnceInv,
      CompleteInv, Pending, Unasked, BySide, Offered, Entries
  <2> QED
    BY <2>1, <2>2, ListStaysFaithful DEF ListInv
<1> QED
  BY <1>1, <1>2, UserLists, EnvironmentLists, ServerLists DEF Next

LEMMA ListAlways == Spec => [](MemoryInv /\ ListInv)
<1>1. Init => MemoryInv /\ ListInv
  BY MemoryInit, ListInit
<1>2. MemoryInv /\ ListInv /\ [Next]_vars => (MemoryInv /\ ListInv)'
  BY MemoryStep, ListStep
<1> QED
  BY <1>1, <1>2, PTL DEF Spec

\* Whatever comes, goes, is lost or fails while a list is made: it holds only
\* wanted devices that were there, and, unless something failed, each of those
\* that were there all the time exactly once.
THEOREM ListIsFaithful == Spec => []FaithfulList
  BY ListAlways, PTL DEF ListInv

\* A list that the loss of PulseAudio cut short has no output, and of the
\* inputs that were there all the time each one once, or none.
THEOREM CutListsAreWhole == Spec => []CutBySide
  BY ListAlways, PTL DEF ListInv

=============================================================================
