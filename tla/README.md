# Specifications of audio-device-rs

audio-device-rs captures and plays PCM audio through one Rust API and four
backends: PulseAudio and PipeWire (C, Linux), CoreAudio (Objective-C, macOS)
and WASAPI (Rust, Windows).  This directory holds TLA+ models of its sessions,
of its device enumeration, of its use of COM, of its capture timestamps and of
its playback buffers, the TLC configurations that check them, and TLAPS proofs
about all of these.

Contents: [1 The system](#1-the-system), [2 Modules](#2-modules),
[3 Runs](#3-runs), [4 Fairness](#4-fairness), [5 Proofs](#5-proofs),
[6 What is assumed](#6-what-is-assumed-of-code-outside-the-repository),
[7 Disagreements found](#7-disagreements-between-the-code-and-its-documents),
[8 What is not modelled](#8-what-is-not-modelled), [9 Plan](#9-plan).

Source names are relative to the root of the repository.  To check:

    tlc -config MCPulseSession.cfg MCPulseSession.tla
    tlapm PulseSessionProofs.tla

and so on for every `MC` module and every module whose name ends in `Proofs`.

## 1 The system

| component | source | state it keeps | operations |
|---|---|---|---|
| public API | `src/capture.rs`, `src/playback.rs` | the backend's session; a guard (`AudioCaptureSession`) that borrows it | new, start (returns the guard), stop, drop of guard and object |
| Rust owner of a C session | `src/capture_ffi.rs`, `src/playback_ffi.rs`, `src/audio.h` | pointer to the C session, its own `running`, the boxed callback context | the same, over the C ABI; entry points for the C callbacks |
| PulseAudio session | `src/audio_pulse.c` | threaded mainloop, context, stream, atomic `running`, last timestamp | create, start, stop, destroy; state, read and write callbacks |
| PipeWire session | `src/audio_pipewire.c` | thread loop, core, stream, `core_error`, atomic `running`, last timestamp | create, start with a timeout, stop, destroy; core error, state and process callbacks |
| CoreAudio session | `src/audio_coreaudio.m` | AudioQueue and three buffers, atomic `running` | create, start, stop, destroy; input and output callbacks |
| WASAPI session | `src/capture_wasapi.rs`, `src/playback_wasapi.rs` | IAudioClient, event, shared `running`, worker's JoinHandle | new, start, stop, drop; the worker's loop |
| capture timestamps | in each backend | last timestamp and frame count, or an anchor | stamp a packet, predict, correct, clamp |
| playback buffer | `src/common.rs`, `src/playback_ffi.rs`, each backend | the bytes of the device's buffer | ask the user, copy or convert, zero the rest |
| frames | `src/common.rs`, `src/capture_ffi.rs` | none | validate a captured frame, view it as samples, make a frame from samples |
| device enumeration | `src/device.rs`, `src/device_ffi.rs`, `src/device_wasapi.rs`, each C backend | the array while it is built; then the list, which owns it | enumerate (all, input, output; default or named backend), drop |
| features and targets | `Cargo.toml`, `build.rs`, `src/lib.rs` | none | which backends and which default a build has |
| COM apartment | `src/runtime.rs`, `src/device_wasapi.rs`, the WASAPI sessions | COM's count per thread; the guards, the COM pointers and the event of an object | initialize_thread, drop of a guard, new, move, drop |

**How they interact.**  The user's thread calls the public types, which own one
backend session.  A C backend is called through `audio.h` and calls back, on a
thread of its own, `capture_callback` or `playback_callback`, which call the
user's closure.  Owner and backend thread share the session: under the mainloop
lock with PulseAudio and PipeWire, through an atomic flag and the synchronous
`AudioQueueStop` with CoreAudio, through an atomic flag, an event and a join
with WASAPI.

An enumeration runs on the caller's thread: the C code waits for its server,
fills an array of devices and hands it to Rust, which picks the wanted ones and
gives the array back when the list is dropped.  WASAPI objects are made on a
thread with a `ThreadGuard`, may be moved to another thread, and have a worker
that initialises COM for itself.

**What is hard.**

- stop, drop and the guard race a callback that has looked at `running`
  already; what the callback uses must live until it has ended;
- joining a thread while holding the lock it needs, waiting for a wake-up that
  has come before, waiting for a server that never answers;
- start fails half way, with a connection, a thread or buffers already there;
- a guard can be forgotten (`mem::forget`): then start meets a running session;
- queued process invokes of PipeWire outlive the state they were queued in;
- buffers and packets are taken and returned one by one, with many early exits;
- timestamps are measured, predicted from the previous packet or interpolated,
  with rounding, holes, losses and jitter, and yet must increase and not drift;
- three places share the duty to fill every byte of a playback buffer, and the
  buffer comes back with old contents;
- an enumeration waits for a server that may refuse or vanish, while devices
  come and go, and every allocation on its way can fail with part of the array
  built;
- an apartment lasts while some thread counts in it; guards, objects and workers
  come and go in any order, on any thread.

**What makes each correct.**  Sessions: no callback while stopped, one at a time,
nothing released while used, everything released when stopped, start and stop
return, the next start begins afresh.  Timestamps: strictly increasing, and
within a stated distance of the recording clock.  Playback buffer: the user's
whole frames in order, then silence, never old bytes; nothing of an accepted
frame is lost.  Enumeration: the list is what was there and wanted, every block
of memory is freed once, the call returns.  COM: the counts balance, the
pointers of an object keep their apartment, no handle is lost, no field of the
format wraps.

`PROJECT.json` lists every hazard with its line and the properties that watch it.

## 2 Modules

```
SessionContract        the promise of audio.h            CaptureTimestamps      recording clock, packets
     ^  INSTANCE (refinement mapping)                         ^  EXTENDS
     |                                                        |
PulseSession  PipeWireSession  CoreAudioSession    PredictedTimestamps  CoreAudioTimestamps
     \             |             /  WasapiSession         ^              WasapiTimestamps
      FfiOwner (EXTENDS)            (no C layer)     PulseTimestamps  PipeWireTimestamps

Backends <- DeviceEnumeration (EXTENDS)        ComApartment        PlaybackBuffer

PulseSessionProofs, PipeWireSessionProofs, CoreAudioSessionProofs,
WasapiSessionProofs, DeviceEnumerationProofs, ComApartmentProofs,
PlaybackBufferProofs         EXTEND their model and TLAPS
TimestampProofs              EXTENDS the four timestamp modules, TLAPS
```

Each `MC` module extends a model and gives its constants small values.  A
definition preceded by a comment `Mutant:` is not part of a model: it is a
plausible bug, which put in the place of the definition after it makes a
property fail; the pairs are listed in `PROJECT.json`.

- **SessionContract** is the abstract specification: phases none, stopped,
  starting, running, stopping, and a count of executing user callbacks.
  A start can fail and leaves the session silent; stop waits for the callback.
- **FfiOwner** is the Rust side of the three C backends.  `handle`, `guard`,
  `rustRunning`, `op` and `pc` are the object, the borrow of the guard,
  `FfiCaptureImpl::running`, the public operation in progress and its place in
  it.  `CallStart` ignores `rustRunning`, as the code does, so a forgotten guard
  leads into the C start of a running session.  The C modules take over at
  `cStart`, `cStop`, `cDestroy`.
- **PulseSession**: `lock` is the mainloop lock, `loop` the mainloop thread (in
  poll, in the read callback, or in the user's), `context` and `stream` the
  states of the two server objects.  What happens between lock and unlock is one
  step, except that `pa_threaded_mainloop_wait` gives the lock up and that user
  code runs inside a callback.  `ConnectContext` … `SetRunning` are
  `audio_pulse_session_start`, `Fail` its error exits with
  `destroy_resources`, `DestroyConnection` and `FreeMainloop` the two halves of
  the latter, `CStop` and `CDestroy` stop and destroy.  `ContextLost` and
  `StreamLost` may come at any time.
- **PipeWireSession**: as above with a thread loop that lives from create to
  destroy, plus the data thread, which queues process invokes without the lock
  (`DataCycle`, `pending`), the buffers (`ready`, `held`), the errors of the
  connection (`session_core_error`) and the clock of `wait_for_stream_ready`
  (`Tick`, `TimedOut`).  `LockStop` and `DestroyStreamAndCore` are the halves of
  `destroy_session_resources` on the two sides of `pw_thread_loop_stop`.
- **CoreAudioSession**: no lock.  `where` tells for each buffer whether the
  session, the queue or the callback has it.  The loop of start is one step per
  buffer, since the queue's thread and the flag may be looked at in between.
  The re-enqueue at the end of a callback may be refused (`EnqueueRefused`); the
  code ignores that, and the history variable `lost` remembers the buffer until
  the next start.
- **WasapiSession**: `thread` walks through `capture_thread_func` or
  `playback_thread_func`, `event` is auto-reset, `held` is a buffer got and not
  released.  A user callback may panic, which ends the thread with the buffer.
- **CaptureTimestamps** is the stream that the four timestamp modules stamp:
  positions, losses, restarts, and the true time of each frame.
  **PredictedTimestamps** adds the length of the last packet and the prediction
  that PulseAudio and PipeWire make of it.  The definitions of a backend carry
  its name (`PulseSpec`, `PipeWireSpec` and so on), so that one proof module can
  extend them all.
  **PulseTimestamps** is `stream_read_callback` with `capture_timestamp_us`
  (measure once, predict, correct beyond `CAPTURE_TIMESTAMP_RESYNC_US`, clamp),
  **PipeWireTimestamps** the cycle time or the prediction,
  **CoreAudioTimestamps** the host time or 0, **WasapiTimestamps** the QPC
  position, the interpolation from an anchor, or the time of reading.
- **PlaybackBuffer**: a byte of a buffer is the number of the user's sample in
  it, or Zero, or Stale.  `write_playback_frame_to_buffer`, the return value of
  `playback_callback` and the zeroing of each backend are translated, one action
  per backend.  The answers of the user are a `PlaybackFrame` filled by hand,
  one that `from_s16` or `from_f32` made (`from_samples`), or the echo of a
  captured frame: what `frame_callback` passes on, read with `as_s16` or
  `as_f32` (`as_samples`) and made into a frame again.
- **Backends** is Cargo's feature closure and the checks of `build.rs`: the set
  of builds, what each provides and which functions can be called in it.
- **DeviceEnumeration** is one call of `enumerate` at a time, and the list it
  leaves.  `Enumerate` starts the call of any function of the build; `pc` walks
  through the connection, the two lists of PulseAudio or the sync of PipeWire,
  the two property queries of CoreAudio, the two sides of WASAPI.  `found` and
  `capacity` are the array, `live` counts the blocks that C has allocated.
  `Add`, `NoMemory` and `LeaveOut` are the three ends of a look at one device.
  `ReturnList` and `Drop` are the Rust side.  `Plug`, `Unplug`, `LoseServer` may
  come at any time.  `ever`, `stable`, `excused` and `cut` are history for the
  properties: what was there at some time, all the time, whether a query or an
  allocation failed, and whether PulseAudio was lost, or refused the request for
  the sinks, before the list was complete.
- **ComApartment**: `count` is COM's count of each thread, `guards` the
  `ThreadGuard`s alive on it, `sta` the threads that the program has put in an
  apartment of their own.  `GetClient`, `CreateEvent`, `SetEventHandle` and
  their failures are `new`, `Move` is what the `Send` implementations allow,
  `WorkerStarts` is the worker's own `init_mta`, which may fail unnoticed.
  `valid` tells if the apartment of the object's pointers still exists.

Directions: capture and playback of one backend differ in few places and are
one module with a variable `direction`; the guards name the differences.

## 3 Runs

| run | states | bounds | what it shows |
|---|---|---|---|
| pulse_session | 712 | 2 packets | no leak, no use after release, no lost wake-up, fresh timestamps, stop returns, start returns if the server answers, the contract holds |
| pipewire_session | 20342 | 2 invokes, 2 buffers, 2 ticks of timeout | also: invokes run before the stream is destroyed, buffers return, an old error fails no new start, start returns by its timeout |
| coreaudio_session | 1986 | the 3 buffers of the code | only a refused re-enqueue takes a buffer out of the ring of a running session, a start makes the ring whole, stop drains it and returns, the contract holds |
| coreaudio_retry | – | 3 buffers | finding 1 below |
| wasapi_session | 1068 | 2 packets | flag, client and thread agree, the worker is joined before anything is closed, every exit releases the packet, stop returns on the event alone |
| pulse_timestamps | 123327 | stream of 12 frames, packets of 1–2, threshold 4, jitter 1 | increasing; bounded drift |
| pipewire_timestamps | 4195 | stream of 12 frames, delay 6 | increasing; bounded drift |
| wasapi_timestamps | 492338 | stream of 6 frames, delay 5 | increasing; bounded drift; the anchor holds the true audio time |
| coreaudio_timestamps | – | stream of 6 frames | finding 2 below |
| playback_buffer | 1644 | 9 bytes, answers up to 13 bytes or samples, 1–2 channels, an i32 ends at 6 | whole frames in order and then silence, no stale byte; a frame that `from_s16` or `from_f32` accepted is played to its last sample |
| device_enumeration | 609704 | every build; a headset, a microphone and a monitor; a first array of 1 entry; during a call no device comes a second time | lists hold what was there and wanted, once; a list cut short lacks whole sides only; every block is owned or freed; the call returns but for two known waits |
| com_apartment | 6045 | 3 threads, 2 guards each; i32, u16 and u32 of 8, 4 and 8 bits | counts balance, pointers keep their apartment, handles are accounted for, formats are exact |

Why the bounds are enough.

- *Two packets, two invokes*: a stop can then arrive between two callbacks of
  one dispatch, and a process invoke can wait behind one that executes.  More of
  them repeat the same situations: no code counts them.
- *Two buffers* let one be held while another is ready.  CoreAudio has three in
  the code and in the run.  *Two ticks*: the timeout can expire at the first
  look, in a wait, and be preceded by an answer.
- *Sessions are restarted without limit*: the life of the object, its starts,
  failures, forgotten guards and drops are cycles of the state graph, so a state
  that survives into the next start is met.
- *Ten microseconds are three frames*: a frame has no whole duration, as at
  44100 Hz, so predictions and interpolations round; a stream of 12 frames lets
  losses shorter than the threshold add up beyond it.  WASAPI needs a stream of
  6: a good packet, a run of interpolations, a gap and silent packets.
- *Nine bytes* hold no whole number of frames of either format; answers of 0 to
  13 bytes are empty, part of a sample, part of a frame, short, exact, too long.

- *Three devices*: one that gives two entries, one that gives one, one that
  PulseAudio must leave out.  With a first array of one entry the array grows
  once and once more, as the code's does at its 9th and 17th device.
- *Three threads*: one that makes an object, one that takes it over, one that
  only keeps the apartment; *two guards* nest.  The scaled widths have the same
  order as the real ones: a largest rate that fits with one channel and not
  with two, a number of channels that does not fit into a block.

The runs check no type invariant: `TypeOK` of the sessions, the enumeration and
COM is proved instead (section 5), and the types of the timestamps and of the
buffer are part of the inductive invariants of their proofs.  Deadlock is checked in every run: no
reachable state of a model is without a successor.

## 4 Fairness

The session models state weak fairness of the owner's own steps and of the
backend thread's: both threads are scheduled and user callbacks return.

- Steps of the owner that take the mainloop lock get strong fairness with
  PulseAudio and PipeWire.  The loop's thread gives the lock up around every
  poll; the lock is free again and again, and a mutex waiter gets it at last.
- PipeWire: the monotonic clock advances.  CoreAudio and WASAPI need no strong
  fairness: with the flag cleared the callbacks end by themselves.
- Users' calls, the server, losses and failures get none.  WASAPI's timed wait
  gets none either: the stop is shown to be woken by its event.
- PulseAudio's start has no timeout.  `StartReturns` there carries the
  hypothesis `ServerAnswers`, the server answers every request be it with an
  error; `audio_pulse.h:25` and `:34` say that start blocks otherwise.  With
  PipeWire no such hypothesis is made.
- DeviceEnumeration has weak fairness of what the calling thread does without a
  server (`Unaided`).  What needs an answer (`ServerStep`) is a hypothesis of
  `EnumerationReturns`, which then names the two waits that remain: a refused
  PulseAudio request and a PipeWire server lost before its sync.

## 5 Proofs

Each proof holds for every value of the constants, under the assumptions that
the models state for them (`NumBuffers \in Nat \ {0}` and the like).

| module | theorem | property |
|---|---|---|
| PulseSessionProofs | TypeCorrect, StoppedIsReleased, CallbackUsesLiveData, WakeupsArrive, TimestampsRestart | `TypeOK`, `StoppedMeansReleased`, `NoUseAfterFree`, `NoLostWakeup`, `NoStaleTimestamp` |
| | Refinement, ContractIsSilent, SilentSession | `ImplementsContract`; the contract alone implies `SilentWhenStopped` (no call in a stopped session, calls are serial); so the session has it too |
| PipeWireSessionProofs | TypeCorrect, StoppedIsReleased, InvokesFindTheStream, BuffersGoBack, ErrorsAreFresh, Refinement, SilentSession | `TypeOK`, `StoppedMeansReleased`, `NoInvokeAfterDestroy`, `NoBufferLeak`, `NoStaleCoreError`, `ImplementsContract`, `Contract!SilentWhenStopped` |
| CoreAudioSessionProofs | TypeCorrect, OnlyRefusedBuffersLeave, StopEmptiesTheQueue, CallbackHasItsBuffer, Refinement, SilentSession | `TypeOK`, `OnlyRefusedLeaveRing`, `StopDrains`, `CallbackOwnsBuffer`, `ImplementsContract`, `Contract!SilentWhenStopped` |
| WasapiSessionProofs | TypeCorrect, FlagIsTrue, WorkerUsesLiveClient, BuffersAreReleased, Refinement, SilentSession | `TypeOK`, `FlagTellsTheTruth`, `NoUseAfterClose`, `NoBufferLeak`, `ImplementsContract`, `Contract!SilentWhenStopped` |
| DeviceEnumerationProofs | TypeCorrect, MemoryIsAccounted, ListIsFaithful, CutListsAreWhole | `TypeOK`, `MemoryAccounted`, `FaithfulList`, `CutBySide` |
| ComApartmentProofs | TypeCorrect, CountsBalance, OneHandle, SendIsSound, FormatsAreExact | `TypeOK`, `InitBalanced`, `HandlesAccounted`, `PointersValid`, `FormatExact` |
| TimestampProofs | PulseIncreases, PipeWireIncreases, WasapiIncreases | `Increasing` |
| | PulseTracks, PipeWireTracks, WasapiTracks | `PulseTracksRecording`, `PipeWireTracksRecording`, `WasapiTracksRecording` |
| | AnchorsAreExact | `AnchorIsAudioTime` |
| | CoreAudioGoesBackToZero | what is left of `Increasing` if valid host times are those of the recording: a later timestamp or 0 |
| PlaybackBufferProofs | PlaysWholeFrames, PlaysToTheEnd | `WholeFramesInOrder`, `NothingLost` |

Hardly any of the properties is inductive.  `StoppedMeansReleased` speaks of
the time between operations, and to survive a step the proof has to know what
is held at each position of the owner in the middle of one.

**Sessions.**  The inductive invariant `IInv` of each has the same parts:

- the type invariant;
- what position belongs to which operation, handle and guard (`OperationInv`);
- with PulseAudio and PipeWire, who holds the lock at each position, and that the
  loop's thread holds it exactly while it is in a callback (`LockInv`);
- what exists at each position: mainloop, context and stream, core and stream,
  queue and its buffers, client and worker, and how the C flag, the Rust flag and
  the worker agree there (`StartInv` and `StopInv`, `PositionInv`, `WorkerInv`);
- what a callback in progress has in hand: its packet, its one buffer, a stream
  that exists (`InvokeInv`, `CallbackInv`, `PacketInv`).

Each action has a step in the proof of `IInv /\ [Next]_vars => IInv'`.  The
refinement is a step simulation under `IInv`: New is Create, the steps of start
and stop stutter, entering and leaving the user's callback map to their
namesakes, and the end of a stop or of a failed start finds the callback count
at zero because the thread that calls back is gone.

**Enumeration.**  `MemoryInv` is the type invariant, `MemoryAccounted` and
`Stages`: between two calls nothing of a call is left, a list comes after its
call, and at which stages the array must be empty.

`FaithfulList` speaks of a finished list; what makes it so is known of the call
while it goes on.  `ListInv` has a part for each claim of the list:

- `WindowInv`: what is `stable` is present, and what is present was there `ever`;
- `SideInv`: nothing is collected before it is asked for, and PulseAudio and
  WASAPI collect the outputs after the inputs;
- `OfferedInv`: all that is collected or reported was there, but for the
  monitors that PulseAudio reports and the callback leaves out;
- `OnceInv`: nothing is collected twice, for nothing collected is still reported;
- `CompleteInv`: each entry that was there all the time is collected, reported,
  or `Pending`, which says at which stages the call has yet to ask for it.

The last two hold unless the call is `excused`: then entries may be missing, or,
by the junk in CoreAudio's `deviceIDs`, come twice.  The end of a call finds
nothing reported and nothing pending (`AllCollected`), so all is collected.  A
list can be cut short between two answers of PulseAudio only, where `SideInv` and
`CompleteInv` leave the inputs, all of them or none, and no output
(`BetweenAnswers`); that is `CutBySide`.

**COM.**  `Typed` joins the types, the balance of the counts and the account of
handles, each of which needs the others.  `Kept` is what the `Send`
implementations rest on: an object whose holder never let go of the apartment has
a guard on the thread that holds it, which is in no STA, or a worker of its own.

**Timestamps.**  The clamp gives `Increasing` at once.  The drift bounds need
that no error is passed on: an inequality over products, with the rate, of times
and frames (`NotLate`, `NotEarly`), so that \div appears in one lemma only
(`MicrosRounds`).  A prediction is not late because the next packet begins no
earlier than the last one ends; a clamp is not late because a frame is longer
than a microsecond; with a known latency a prediction that is not far apart from
it shares its bounds; an anchor is as exact as the interpolations that led to it
are many, and is dropped when the device stops counting.

**Playback buffer.**  The invariant is `WholeFramesInOrder` with `BufferInv`:
the frames asked for fit the buffer, the answer is one the user can give, and
the bytes that no whole frame takes are silent.  The work is in the arithmetic:
one backend divides bytes by samples and then by channels, another by the size of
a frame, a third converts sample by sample.  `QuotientOfQuotient` and
`CopiedIsWanted` show that they write the same whole frames, and `FillCStep` and
`RenderStep` that all bytes after them are zeroed.  `NothingLost` follows: the
answers made by `from_samples` hold whole frames of all that was recorded.

**Only model-checked**: every liveness property (`StartReturns`, `StopReturns`,
`EnumerationReturns`), since fairness and ENABLED are outside the prover; and the
two properties whose violation is a finding of section 7.  Every safety and
action property of a passing run, and every refinement, is proved.

## 6 What is assumed of code outside the repository

Modelled from the way `src/` uses it and marked external in `PROJECT.json`:

- `pa_threaded_mainloop_stop` and `pw_thread_loop_stop` join a thread that must
  be able to take the lock; PipeWire's stop request is an invoke and runs after
  those queued before it; a disconnected stream queues no more.
- A signal wakes a waiter that waits now and is otherwise lost; waits may wake
  for no reason.
- `AudioQueueStop` with immediate stop waits for the callback in progress, and
  gives all buffers back; an input queue refuses a buffer it already has, and
  any enqueue can fail for a reason of the system.
- A host time that CoreAudio marks as valid is the time of the recording: the
  code has no clamp that would help against any other, and the theorem
  `CoreAudioGoesBackToZero` holds under this assumption alone.
- `IAudioClient::Start` fails on a started client, `GetBuffer` fails while a
  buffer is held, a packet that does not correlate with the one before it carries
  the discontinuity flag.
- `pa_stream_begin_write` gives room for whole frames.
- A list request of PulseAudio calls back for each device there is when the
  server answers, then once with a positive eol, or with a negative one alone.
  These callbacks are one dispatch: a connection that is lost meanwhile is seen
  by the loops of `audio_pulse.c:246` and `:271` after the last of them.
  PipeWire's registry announces all devices before it answers the sync that was
  sent after it was bound, and those that come in between.
- `AudioObjectGetPropertyData` writes the IDs of the devices there are then and
  leaves the rest of the memory as it was: such an element is any ID or none.
- A thread without a count works in the multithreaded apartment while some
  thread has a count there, and gets CO_E_NOTINITIALIZED otherwise.  Threads that
  the program has put in an STA make no objects of this crate.

## 7 Disagreements between the code and its documents

1. **A failed CoreAudio start cannot be retried** (`coreaudio_retry`).  `audio.h`
   says of start that it starts a stopped session.  When `AudioQueueStart`
   fails, `audio_coreaudio_session_start` takes only the flag back; the buffers
   stay in the queue, and the next start is refused for the first of them.
   `StoppedCanStart` is violated by that sequence (see also `issues/0056`).
2. **CoreAudio timestamps can go back to 0** (`coreaudio_timestamps`).
   `tests/test_device_timing.rs` asserts of every stream that its timestamps
   increase.  `audio_input_callback` passes 0 for a buffer without a valid host
   time and does not clamp (see also `issues/0057`).  `NeverBack` asks less than
   the test, that no timestamp be earlier than the one before it; its violation is
   a buffer with a host time followed by one without.  The theorem
   `CoreAudioGoesBackToZero` shows that nothing else breaks the order as long as
   the valid host times are right.

Also met while modelling; the models do what the code does here, and the
properties are stated so that they hold beside it:

- `SKILL.md:100` and the test at `device_wasapi.rs:342` say that an enumeration
  without `initialize_thread` is `ComInitFailed`.  On a thread without a count
  it succeeds as long as another thread keeps the multithreaded apartment.
- The comment on `unsafe impl Send` (`capture_wasapi.rs:249`) rests on the
  apartment of the object; nothing ties a `ThreadGuard` to the object, and both
  may go in any order.  `PointersValid` says under which condition it holds.
- A negative eol (`audio_pulse.c:56`) is not counted as an answer: that wait
  ends only with the connection.  PipeWire's enumeration has no timeout
  (`audio_pipewire.c:231`, `issues/0058`).  A connection lost between the two
  lists of PulseAudio gives a partial list and no error (`audio_pulse.c:248`,
  `issues/0059`); `CutBySide` says what such a list still is.
- The callbacks of CoreAudio ignore the status of their re-enqueue
  (`audio_coreaudio.m:62` and `:649`).  Each refusal takes a buffer out of the
  ring; when all are out, no callback comes any more, the flag says that the
  session runs, and nobody is told until a stop and a new start.
  `OnlyRefusedLeaveRing` says that there is no other way out of the ring.
- Between its two queries CoreAudio may lose devices; the loop runs to the old
  count over IDs that nobody wrote (`audio_coreaudio.m:227`).  The model lets
  those be any device or none, and `FaithfulList` excuses the list.  No property
  forbids the read itself.
- Task memory of WASAPI strings is not freed (`device_wasapi.rs:162`,
  `issues/0053`), and the channels and rate of a `PlaybackFrame` are never
  compared with those of the session (`playback_ffi.rs:244`, `issues/0054`).

## 8 What is not modelled

- *Frames*: bit patterns of samples and texts of errors; what frames accept and
  how many samples they make is in PlaybackBuffer.
- *Device details*: name, channel count and rate of a device are copied values
  that nothing depends on.  Memory that COM allocates is not counted.
- *Values*: the clamp and scale of converted samples; saturation of a timestamp
  at `i64::MAX` and the conversion of performance counters, whose limits no
  stream reaches.
- *Death of a stream during a session*: the models let it die at any time and
  check that stop still works; the API has no report of it to check.
- *WASAPI packets left in the client at a stop*: kept across a restart, but the
  API says nothing of what the next session should deliver first.
- *Compiling and bindgen, examples, tests, release scripts*: no state of the
  library; of `build.rs` the choice of backends is modelled.

## 9 Plan

Done: every component of section 1, and the proofs of section 5.  What could
still be added, in order:

1. **Composition of sessions with ComApartment**: WasapiSession knows nothing of
   COM's counts and ComApartment abstracts the session to its stages.
2. **Two sessions at a time** on one user thread: they share nothing in the code
   but the COM apartment.
