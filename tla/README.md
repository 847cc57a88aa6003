# A TLA+ model of null-clap

null-clap is a C++ framework for CLAP audio plug-ins. It stands between a host,
which calls it from an audio thread and a main thread, and a plug-in that
renders sound and shows an editor. This directory models the parts of it that
have behaviour over time, checks them with TLC on small instances, and proves
the most important results with TLAPS for every value of the constants.

Paths below are relative to the repository.

## Inventory

| Part | Source | State it keeps | Operations | Hard because |
| --- | --- | --- | --- | --- |
| GUI parameter queue | `src/Plugin.cpp:18-37`, `Plugin.hpp:99-118` | 256 slots, `head_`, `tail_` | `push` (UI thread), `pop` (audio thread, or `flush`) | lock-free, plain slots ordered by two atomics only |
| Parameter store | `src/ParameterStore.cpp`, `Parameter.hpp` | specs, base values, modulation amounts | `add`, `setBaseValue`, `setInternalValue`, `setModulation`, `applyInputEvent`, `effectiveValue`, `valueToText`, `textToValue`, `persistentValues`, `restorePersistentValue` | relaxed atomics shared by two threads, NaN and infinities, in bounds too, stepped ranges whose bounds are not whole, labels that do not fit |
| Value synchronisation | `src/Plugin.cpp:39-63, 182-226, 374-433` | base values here, the host's copy there, events in between | gestures, `setParameterFromGui`, flush request, drain, automation, telemetry, rescan | three writers, a queue in between, losses that nobody reports |
| Process loop | `src/Plugin.cpp:100-150` | cursor, the block's context | `process`, with `processAudio`, `onEvent`, `emitParameterValue` inside | any list a host may give, GUI writes in the middle of it |
| State file | `src/State.cpp`, `src/Plugin.cpp:194-226` | the stream, the fields read so far | `stateSave`, `stateLoad` | partial reads and writes, failures half way, foreign files |
| GUI sizing | `PhysicalPixelGuiSizing.hpp` | scale, logical size and bounds | `setScale`, `setPhysicalSize`, `adjustPhysicalSize`, `getPhysicalSize` | rounding twice, bounds, the ends of the range |
| GUI hosting and timers | `src/Plugin.cpp:13-16, 258-372`, `Gui.hpp`, `docs/GUI.md` | the delegate, its timer id, the host's timers | `setGuiDelegate`, `guiCreate`, `guiDestroy`, `onTimer`, `registerHostTimer`, `requestGuiResize` | delegates exchanged at any moment, ids that are stale, refused or given out again, a hook that runs before the tick is passed on |
| Lifecycle | `src/Plugin.cpp:65-92` | none: the host's | `init`, `activate`, `startProcessing` ... | hooks that refuse |
| Ports, remote controls | `AudioPorts.hpp`, `NotePorts.hpp`, `RemoteControls.hpp` | lists | `count`, `info`, `get` | lists are not checked when they are filled; `count` and `info` need not agree |
| Entry, factory | `Entry.hpp`, `Factory.hpp` | a reference count under a mutex | `init`, `deinit`, `createPlugin` | several threads, a deinit too many |
| Example plug-in | `examples/MinimalEffect/MinimalEffect.cpp` | a gain parameter, the host's buffers | constructor, `processAudio` | spans, processing in place, channels and formats that are missing |
| clap-helpers, the host | external | - | the environment of every module | - |

How they interact: the editor calls the gesture API on the main thread; that
writes the **store** and pushes into the **queue**, and asks the host for a
flush. The host calls `process()` on the audio thread, or `params.flush()`;
both drain the queue into the host's output list and apply the host's events to
the store. The plug-in's callbacks read the store and emit telemetry. The host
saves and loads **state files** on the main thread, which reads and writes the
store, and after a load it is told to read all values again.

What makes each part correct:

* the queue is a FIFO and its slots are never accessed by two threads at once;
* whatever is written, a base value lies in its range on a step of it; a value
  that was saved is restored as it was; a read-only value is its owner's;
* the host's values and the plug-in's end up equal; gestures stay paired;
* every frame is rendered once, after exactly the events due by then;
* a file that was reported saved is a state, and loading it gives that state
  back; a load that fails says so; one that succeeds tells the host, so that it
  knows the values;
* sizes respect the bounds and do not drift;
* whoever has a timer holds its id, and nobody else's; an open editor is pumped
  at its own timer's ticks;
* the entry's count is exact;
* a block is scaled once, frame by frame, by the gain of the events due by then.

## Modules

| Module | What it is | Code it stands for |
| --- | --- | --- |
| `BoundedFifo` | abstract: a bounded queue between one producer and one consumer | what `GuiParamQueue` promises |
| `GuiParamQueue` | the ring buffer, one action per atomic load, store or slot access | `GuiParamQueue::push`, `pop` |
| `GuiParamQueueProofs` | proofs about it | |
| `ParameterStore`, `MCParameterStore` | the store, its two threads, saving and restoring | `ParameterStore.cpp` |
| `ParameterStoreProofs` | proofs about it | |
| `GuiParameterSync`, `MCGuiParameterSync` | composition: GUI, queue, host calls and the host's view; extends `BoundedFifo` | gesture API, drain, flush, telemetry, rescan |
| `SampleAccurate` | abstract: what each frame of a block should hear | the promise in `docs/ARCHITECTURE.md`, "Process timeline" |
| `ProcessTimeline`, `MCProcessTimeline` | the loop that cuts a block into spans | `Plugin::process` |
| `ProcessTimelineProofs` | proofs about it | |
| `StateFormat` | the bytes of a state: the encoder, and a reading by position as reference | `State.cpp`, `docs/STATE.md` |
| `StateFile`, `MCStateFile` | `stateSave` and `stateLoad` over the host's streams | `State.cpp`, `Plugin::stateSave`, `stateLoad` |
| `StateReload`, `MCStateReload` | composition: loads and saves one after the other, the audio thread, and what the host knows of the values; extends `StateFile` | `Plugin::stateLoad`'s rescan |
| `GuiParameterSyncProofs`, `StateFileProofs` | proofs about these and `StateReload` | |
| `GuiSizing`, `MCGuiSizing`, `GuiSizingProofs` | logical and physical sizes | `PhysicalPixelGuiSizing` |
| `GuiHosting`, `MCGuiHosting`, `GuiHostingProofs` | composition: delegates, sessions and timers; extends `GuiSizing` | `Plugin`'s GUI and timer calls, the delegate of `docs/GUI.md` |
| `MinimalEffect` | the example's rendering; extends `SampleAccurate` | `MinimalEffect::processAudio` |
| `PluginEntry` | the entry's reference count | `NULLCLAP_DEFINE_ENTRY` |
| `PluginPorts` | what a plug-in declares and a host is told | the three lists, and `Plugin`'s calls to them |
| `PluginInstance`, `MCPluginInstance`, `PluginInstanceProofs` | composition: the entry, the factory, an instance's life, its ports and its blocks | `Factory.hpp`, `Plugin`'s lifecycle |

`GuiParameterSync` uses the abstract queue; `FifoRefinement`, checked and proved
of `GuiParamQueue`, is what makes that legitimate. `MinimalEffect` in the same
way stands on the abstract `SampleAccurate`, which `ProcessTimeline` implements
(`SampleAccuracy`). Operators that begin with
"Faulty variant" in their comment are plausible mistakes: they take part in no
specification, and stand beside the definition they would replace so that each
property can be seen to fail for one of them.

### Correspondence and abstractions

*GuiParamQueue.* `ppc` and `cpc` are the positions of the two threads between
their memory accesses. An acquire load of the other thread's index may return
any value from the one it saw last up to the current one, which is what C++
guarantees (`Visible`). Slots are plain memory, so `RaceFree` is a property and
not an assumption. There is one producer and one consumer at a time, as
`docs/THREADING.md` requires and CLAP guarantees for `process`/`flush`.

*ParameterStore.* A double is a whole number of quarters or one of NaN, +inf,
-inf: enough to lie below, on and above the half where `std::round` turns. Every
atomic access is a step of its own, so that `effectiveValue`, `persistentValues`
and a restore interleave with the writers. The GUI and the state callbacks share
the main thread. Bounds may be infinite or NaN, since `add` lets both through;
only a spec with labels is assumed to have a finite minimum and default, because
the index of a label is an `llround`, which is unspecified otherwise. A text is a
word, or the number that `printf` writes and `strtod` reads; the display
precision is 0 or at least 2 digits, which are the cases in which quarters are
rounded or not. An event with the wrong size or name space is like one of
another kind and changes nothing.

*GuiParameterSync.* The GUI's call is cut at its memory accesses: the store
(line 55), the reload (57), the look at the queue, the push, the flush request.
The host's calls are cut at each event popped and each event handed over. A load
of a state writes one value and then rescans or fails; the file itself is
`StateFile`'s matter. Values have no ranges here. `emitParameterValue` is one
step: a GUI write that falls into it is indistinguishable, for the host, from
one just before or after. Ghosts record the ways this design accepts a
difference: `excused` (a GUI event refused by a full queue or by the host, a
failed load, or a value overtaken by another writer's while under way) and
`gestureLost`. The properties are about everything else. An excuse ends with the
next write of that parameter that is reported.

The call that answers a request for a flush is a flush or `process()`, as CLAP
has it, and brings an output list: that is taken for granted of the host. Any
other call may come without one (`Plugin.cpp:410`), and is a drain that sees
nothing. Were the answering call to come without, its events would wait for the
next call that brings one.

*ProcessTimeline.* The parameter followed has as value the name of its last
writer, which is what sample accuracy is about; telemetry is of another
parameter. `surfaced` and `heard` are ghosts that record, for each frame, which
entries were done with when it was rendered. Telemetry is emitted where the
plug-in's code runs (`InCallback`): in a span, for the event just applied, in
`processFinished`, or outside `process`, and nowhere between. Its offset may be
`frames_count` (`Plugin.cpp:401` compares with `>`), where `process` ignores an
event it is given at that offset (line 131, `>=`); nothing is claimed of it. A block that has no event list is a
list without entries. `process(nullptr)` returns at once and is left out.

*StateFile.* A byte has `Base` values, a u32 `Wide` bytes, a u64 `Long` bytes.
A write takes, and a read gives, any part of what is left. `written`, `given`,
`restored` and `original` are ghosts. Only the upper bound of quantization is
kept. A save that throws before it writes, and a payload that throws when it is
handed over, end like refused ones. Every parameter has the same maximum and
default; those that are read-only and not persistent are `Transient`, and the
bit patterns of NaNs and infinities `NotFinite`. Nobody else writes values
here, so that what a load leaves can be compared with what was there.

*StateReload* adds those writers: automation and the user's edits are one step
each, known to the host at once (losing them is `GuiParameterSync`'s matter), at
any moment of a save or a load. The host reads all values in `paramsRescan`, if
it has the params extension. `leftBehind` is a ghost: what failed loads have
restored and no rescan or later write has brought to the host.

*GuiSizing.* Width and height are independent; one is modelled. Scales are
fractions and arithmetic is exact; a double product or quotient differs from it
only when it falls next to a half.

*GuiHosting.* `session` is what the host believes, `open` what the delegate that
is installed knows; they differ once the delegate has been replaced in the
middle of a session, and the next one then gets calls for a GUI it never
created. A delegate registers its timer in `create`, with the id it held before
as the value that is overwritten, and keeps the id when it unregisters, as the
code of `docs/GUI.md` does. The host refuses, or gives out any id that is free,
one it has used before included. `create` may fail, before its timer is
registered or after. `tickedFor` is a ghost, the owner of a timer when it ticked.
A delegate that is closed still compares ticks with its stale id, so it pumps
at the plug-in's when the plug-in has been given that id; this is harmless, but
`TicksReachTheirOwner` can only be about open ones. A delegate destroyed with its GUI open leaves
its timer with the host, and nothing in the framework takes it back: that is
outside the promise of `TimersOwned`, which is about those who are there. Calls
that only forward (`show`, `hide`, `setParent` ...) leave no trace and have no
action. All of it is on the main thread, and while `onTimer` is under way the
host calls nothing else, but `onHostTimer` may do anything the plug-in may.

*MinimalEffect.* A sample is the sequence of gains its input has been multiplied
by, so rendering twice, not at all, and with the wrong gain differ. In place,
source and destination are the same memory. The gain is `pow`-ed and narrowed in
the code; neither is kept. No GUI writes here: `span_constant` shows what those
do.

*PluginEntry, PluginPorts, PluginInstance.* A call of the entry is a load and a
store with the mutex around them. Declarations are data; names, types and flags
are left out, and a set of dialects is a bit mask. The three lists are in the
model so that the instance is complete; beyond their types nothing is claimed of
them, as each answer is one declaration or a refusal. In particular `count`
counts note ports that `info` refuses. `Plugin` keeps no state for
its life cycle: `life` is the host's. The factory does not ask whether the entry
is initialised, and an instance may outlive it.

## Runs

| Run | Instance | What it shows |
| --- | --- | --- |
| `gui_queue` | 4 slots, 2 events | invariant, race freedom, refinement of `BoundedFifo`, nothing stranded |
| `store` | 3 parameters out of 4 specs (continuous with a label beyond its maximum, or without a minimum and stepped; stepped, read-only, fractional bounds; telemetry with a NaN default), 2 bad specs, 11 events, 4 typed texts, 1 foreign file | values settled and in range, ownership, exact restore, texts that show the value |
| `gui_sync` | 1 parameter, 2 values, queue of 2 | agreement, paired gestures, no event forgotten |
| `gui_sync_live` | the same, queue of 1 | a settled value reaches the host; a drain ends once the GUI is quiet |
| `timeline` | blocks of 0 to 3 frames, every list of up to 3 entries at times 0 to 3, holes and non-parameter events included | refinement of `SampleAccurate`, loop invariant, termination |
| `state_file` | bytes of 1 bit, fields of 2 bytes, 3 parameters (one not persistent), a value out of range and one not finite, payloads of 0, 1 and (too large) 2 bytes, 6 foreign files and every cut file | format, exactness, round trip, termination |
| `state_reload` | bytes of 2 bits, fields of 1 byte, 2 parameters, 3 foreign files (one with a payload and a value not finite, one cut short) and those saved, automation at any moment | whose picture of the values may be old, and for how long |
| `gui_hosting` | 2 delegates, one with its bounds the wrong way round, 2 timer ids, a timer of the plug-in's own, scales 75%, 125%, 150% and a refused one, sizes up to 6 | who owns which timer, the invariants of the sizes in every session, no drift, the toolkit is pumped, and by its own ticks |
| `plugin_instance` | blocks of 0 to 2 frames, every list of up to 2 entries at times 0 to 2, holes included, 5 layouts of buffers, 2 threads in the entry, a sound and a mistaken declaration | every frame scaled once, an exact count, types |

Why the bounds are enough. The queue: a ring of 4 is the smallest in which
producer and consumer can be apart, wrap round and meet full and empty with a
slot in between; the proof covers every capacity. The store: one parameter of
each kind, since parameters do not interact. Synchronisation: parameters share
nothing but the slots of the queue, and two slots let an event of each kind
follow another; liveness needs one slot at least, which makes refusals frequent.
The timeline: three entries are the fewest with one in the past, one present and
one ahead; the proof covers all lengths. The state file: two bytes per field let
a field be cut in the middle, two records and one byte of payload let every
field be the last one read; files cut anywhere come from saves that failed
there; the three values of a record's bits are one of each kind there is; the
proofs cover every width, file and stream. Reloading needs no more than two
parameters, of which a load that fails restores one, or a file holds one. Hosting:
two delegates are the fewest of which one replaces another, and two timer ids
the fewest with which one is given out again while another is in use, or none is
left; the sizes are fewer than sizing alone would bear, and the proofs of
`GuiSizingProofs` cover every scale and size. The instance: two frames and two
entries let a span end inside a block, at its end and nowhere, with an event
before, at and behind it; the proof covers all lengths. Two threads are the
fewest that can be in each other's way in the entry. Named bounds are the
constants `Capacity`, `Limit`, `Largest`, `MaxCount`, `MaximumExtraStateBytes`
and the sets given to TLC.

The runs that are expected to fail:

* `span_constant` - `Plugin.hpp:71-72` says that parameter state remains
  constant during a span; a GUI write changes it (`Plugin.cpp:55`).
* `queues_value_set` - `Plugin.hpp:44-45` says that setting a value queues the
  corresponding event; automation between `Plugin.cpp:55` and `:57` makes the
  event carry another value.
* `exact_size` - `PhysicalPixelGuiSizing.hpp:61-64` says that the exact size is
  used and not silently changed; at 125% two pixels come back as three.

## Fairness

Safety needs none. `gui_queue` assumes that the consumer is called again and
again (a running host calls `process()` for every block, and `flush()` when
asked), and that an atomic store becomes visible after a finite time.
`gui_sync_live` assumes that a call that has begun goes on, that the host
answers a request for a flush by a flush or by `process()`, with an output list
(CLAP's promise for `request_flush`), and that a drain that keeps looking sees
what is in the queue; nothing is assumed of other calls of `process()`, nor of
the GUI or the host's writes. `DrainEnds` needs
one thing more, which it states itself: that the GUI falls quiet. A GUI that
pushes as fast as the audio thread pops keeps the drain going, since nothing in
the code bounds it. `gui_hosting` assumes that the host lets each timer tick for
as long as it is registered (strongly: a timer that comes and goes must tick if
it is there often enough) and that a tick that has begun is passed on. `timeline` and
`state_file` assume only that a call under way goes on: the callbacks return and
the streams answer. No stream is assumed to fail.

## Proofs

`GuiParamQueueProofs`, from `CapacityAssumption` (at least two slots):

* `QueueInvariant`: read round the ring, the indices keep the order tailSeen,
  tail, headSeen, head. This is the strengthening that race freedom needs: each
  thread's check is made with an old value of the other's index, and the order
  says that an old value errs on the safe side. One step per action.
* `NoDataRace` follows: a producer past its check has a free slot and a consumer
  past its check a published one, so they are different slots.
* `QueueIsFifo`: every step maps to a step of `BoundedFifo` or to a stutter. A
  publish appends, an advance takes the head, and what lies between in the ring
  is untouched.

`ParameterStoreProofs`, from the assumptions that the special doubles are not
integers and that inputs are typed:

* `StoreInvariant`: settled means in range and a fixed point of quantization.
  The lemma `QuantizeSettles` shows that quantizing settles; the invariant
  carries that to values loaded by `effectiveValue`, saved, and restored.
* `EffectiveStaysInRange`, `ReadOnlyStaysWithPlugin`, `RestoreWritesSavedValues`
  follow from it; the last needs that quantization is idempotent on saved values.
* `TextsShowValues`: for every spec whose labels fit, the text shown for a
  settled value is understood and shows the same again. Rounding to the display
  precision is idempotent, and quantizing in between cannot leave the display
  step.

`GuiParameterSyncProofs`, for any parameters, values and length of the queue:

* The proofs are about the pipeline, the events on their way to the host in the
  order of their arrival: the one in the consumer's hand, those queued, the one
  in the producer's hand. Each step appends to it (a call of the GUI's), drops
  its last event (a refusal), drops its first (a delivery) or leaves it as it is
  (a push and a pop only move an event within it). Six lemmas say so.
* `HostAndPluginAgree`: with the type invariant, and that an event about to be
  built is a value event, `Agreement` is inductive per parameter: of a
  parameter's values in the pipeline the newest decides, and the oldest becomes
  what the host believes when it is delivered.
* `GesturesStayPaired`: in the same way, with the strengthening that the gesture
  event in the producer's hand matches what the user holds.
* `NoEventIsForgotten` needs that an answering call which may fail to see an
  event knows another request to be due (`AnswerSeesOrIsAsked`).

`StateFileProofs`, from `FormatAssumption` (a base of two at least, fields of one
byte at least, numbers that fit their fields) and `StoreAssumption`, for every
width, build, stream and file:

* `OnlyRecordsChange` (the records restored so far, and the original values,
  determine the values, at every moment) uses nothing of what bytes stand for,
  nor does `HostLearnsOfLoads`; it needs the strengthening, for the middle of a
  load, that the host is wrong only about what failed loads have left behind and
  what this one has restored so far. The others do, and need inductions over data. The
  library's induction theorems take an operator, which the provers cannot
  instantiate; the lemma `Induction` says the same of a set, and follows from `<`
  being well-founded. From it, `Loop` gives that a function defined by recursion
  exists, and the powers, the number of a sequence of bytes and
  `persistentValues` are such functions.
* Numbers: what `n` bytes stand for is below the `n`-th power of the base
  (`NumberBound`), and reading what was written gives it back (`NumberOfBytes`).
* Layout: the pieces handed to `writeBytes()` lie end to end from 0 to `Size`
  (`PiecesLie`, `PiecesOrdered`, `PiecesFit`), each at the place where `IsState`
  looks for its field.
* `TypesAreKept`: what a load restores can be saved again, and no counter leaves
  its field.
* `SavesAreStates`: at every moment of a save the file is the beginning of the
  pieces, and the pieces left are the rest, whatever a partial write took of
  one; a save that succeeds leaves nothing.
* `LoadsAreExact`: where the reader stands is where the field it is after lies,
  whatever partial reads have brought it there, and what it has read is what
  stands there. A stream that ends inside a field holds no state.
* `SavedComesBack`: a file is one state at most, so a load of a saved file reads
  the values and the payload that were saved.

`ProcessTimelineProofs`, from `ListsAssumption`:

* `TimelineInvariant`: what has been passed is in the block and due, what is
  ahead is not yet; the frames rendered fit the cursor.
* `ProcessIsSampleAccurate`: `EndSpan` and `EndLastSpan` map to `Render`, `Apply`
  and `SkipNull` to `Surface`, `Begin` to `NewBlock`, the rest to stutters.
* `TelemetryStaysInBlock`.

`GuiSizingProofs`, from `SizingAssumption` (sizes within the range, scales that
are fractions), for every scale, bound and size:

* `RoundedNear`: a rounded fraction differs from the fraction by a half at most,
  when that is a size. From it, scaling up and back down is the identity
  (`UpAndDown`), and scaling down and back up is, for sizes that were reached by
  scaling up (`DownAndUp`), and loses half a unit of each kind otherwise
  (`DownAndUpNear`).
* `SizingInvariant`: the logical size is the one the last size set stands for,
  and a size that was offered lies between the bounds at this scale. Neither the
  bounds on what is kept nor `OfferedSizesFit` is inductive without it.
* `ClampIsAlwaysDefined` (rounding is monotone), `OfferedSizesAlwaysFit`,
  `SetSizesAreNearlyKept` and `SizesDoNotDrift`.

`GuiHostingProofs`, from the assumptions that owners and ids are distinct: the
sizes of whichever delegate is installed keep their invariants (`HostedSizes`,
`HostedSizesDoNotDrift`; each hosting step is a step of `GuiSizing`, a new
layout, or a stutter, and `GuiSizingProofs` does the rest). `TimersStayOwned`
needs the strengthening that a delegate which did not create the GUI of this
session holds no id: it might otherwise unregister the timer of another.
`TicksAreNotMixedUp` needs that, while a tick is under way, the delegate that is
open holds the ticking id just when it was the owner: by `TimersStayOwned` that is
so when the tick comes, and nothing `onHostTimer` may do opens a delegate.

`PluginInstanceProofs`, for any threads, blocks and declarations:

* `EntryIsCounted`: whoever is in a call holds the mutex, and what it loaded is
  still the count.
* `EveryFrameScaledOnce`: the gain is that of the entries surfaced, so a span is
  rendered with what its frames have heard, whatever the spans, buffers and
  lists.
* `InstanceTypes`, from the invariant of the entry, the types of the block under
  way and those of the declarations.

Only model-checked: everything with fairness (`NoEventStranded`,
`EventualAgreement`, `DrainEnds`, `ToolkitIsPumped`, `ProcessReturns`,
`CallsReturn`), since liveness under fairness is out of the prover's reach. Every
invariant, action property and refinement that a passing run checks is proved.

## Not modelled, and why

`Id.hpp` hashes a string at compile time. `Gui.hpp`'s calls that only forward
(`show`, `hide`, `setParent`, `setTransient`, titles, resize hints), `markStateDirty`
and the `info` of a parameter change no state. Names, port types, flags and log
messages are left out. The arithmetic of doubles is exact here, but for their
special values: sizes and values that differ in the last bit only are one value.
Allocation failure (a `noexcept` load that cannot allocate its payload) ends the
process. clap-helpers checks threads and arguments in its own code, which is not
in this repository; it and the host are the environment of the modules. The
build files and CI have no behaviour of their own at run time.

## Plan

1. Done: the queue, the store, synchronisation, the process loop, the state
   file, sizing, GUI hosting with timers, the entry, ports, the instance and the
   example plug-in, each with its run, and proofs in eight modules.
2. Compose next: `StateFile` with `ParameterStore`, so that a file is restored
   into parameters with ranges of their own while the audio thread writes;
   `ProcessTimeline` with `GuiParameterSync`, so that the drain at the start of a
   block and the telemetry in it share one output list.
3. Prove next: the properties of those compositions. A restored file settles in
   the store's ranges, by `LoadsAreExact` and `RestoreWritesSavedValues`; the
   events of a block keep the order in which the drain and the callbacks made
   them.
