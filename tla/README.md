# Dream64: a TLA+ verification project

Dream64 is a 64-bit engine for Dream Maker (DM) programs. A compiler turns DM
source into a `.d64` artifact; a server boots a world from it and runs DM code on
one owner thread; a native client attaches over a loopback connection, shows
what DM code sends it and sends player input back. The modules here model the
parts in which order, identity, failure or restarts matter, and check and prove
what makes those parts correct. Paths below are relative to `crates/`.

## 1. Inventory

| Component | State | Operations | Hard behaviour |
| --- | --- | --- | --- |
| Generational arenas (`dm-value/src/lib.rs`, `snapshot.rs`) | slots with generation and value, free stack, live count | insert, remove, get, sweep, snapshot, batch and streaming restore | stale handles, generation exhaustion, restart from a snapshot |
| DM lists (`dm-value/src/lib.rs`, `DmList`; `dm-vm/src/builtins/lists.rs`) | positional and associative entries, their order, a logically removed prefix, key index, removal index | add, set, insert, remove, cut, subtract, swap, resize, copy; the operators and Splice over them | indexes and prefix out of step with the entries |
| Collector (`dm-vm/src/execution/heap_gc.rs`, `frame.rs`; mark phase in `dm-value`) | heap, frames, host roots | collect, compact; every native operation that re-enters the VM, with its frames saved as roots or not | values held only by a suspended thread or further down the native stack |
| Spatial containment (`dm-vm/src/builtins/lists.rs`, `spatial.rs`, `qdel_appearance.rs`, `execution/world_geometry.rs`) | loc fields, contents lists, queued departures, coordinate index | move, change area, `qdel`, `del`, grow, shrink, flush | redundant structures updated by hand, partly later |
| Statement lowering and interpreter (`dm-vm/src/compile*.rs`, `execution/interpreter.rs`, `frame.rs`, `run.rs`) | code with unpatched jumps; frames, operand stacks, handlers | compile each statement; jump, call, try, throw, return, spawn | jumps out of loops and tries, failures in mid-expression |
| Scheduler (`dm-vm/src/execution/scheduler.rs`, `dm-lifecycle/src/scheduler.rs`) | clock, sequence, scheduled and in-flight continuations | schedule, advance, drain a slice | failing threads, exhausted budgets, same-tick order |
| Prompts (`dm-vm/src/local_client.rs`) | pending prompts with their continuations | ask, answer, cancel, next verb argument | answers repeated, foreign or late |
| Native walks (`dm-vm/src/builtins/spatial.rs`) | one walk per movable | start, stop, step | they share the clock but do not count as tasks |
| UI outbox (`dm-lifecycle/src/ipc.rs`, `dm-vm/src/local_client.rs`) | per-client queues, numbers, retained batches | emit, poll, acknowledge, attach | lost answers, repeated polls, several sessions |
| Native client (`dm-client/src/main.rs`, `transport.rs`, `ui_commands.rs`, `readiness.rs`) | connection, last sequence, owner queue, deferred events | connect, reconnect, poll, apply, drain, acknowledge | broken connections, full queue, startup replay |
| Boot gate and sessions (`dm-lifecycle/src/ipc.rs`, `main.rs`, `server/server_loop.rs`) | boot phase, readiness, interactive clients | commit a phase, activate the lobby, attach, report readiness, input | serve thread, owner thread and client interleave |
| Ready-world snapshot (`dm-vm/src/ready_snapshot.rs`) | captured execution state | capture, restore | what a restart keeps and what it clears |
| Client readiness coordinator (`dm-client/src/readiness.rs`) | readiness bits of a generation | mark, rearm, publish | stale generations, reports sent once |
| Workers (`dm-vm/src/worker_lane.rs`, `execution/region_compile_worker.rs`) | jobs and results | submit, collect | results out of order |
| Compiler caches (`dm-project`, `dm-compiler`, `dm-semantics/src/registry.rs`, `dm-lifecycle/src/artifact.rs`, `server/artifact_pipeline.rs`) | project snapshot and manifest, syntax cache, compiler database, artifact | load, verify, parse, link, lower, install | crashes and failed writes between files, edits during a load, releases |
| Instructions on data, built-ins, JIT, map loader, lexer and parser, rendering | values, text, pixels | sequential transformations | mostly none that a model checker reaches |

Interaction. DM code (interpreter) emits UI events, schedules continuations and
registers prompts, all on the owner thread. The serve thread of `ipc.rs` reads
one request at a time and hands it over a channel; the owner thread applies it
at a tick boundary, between two scheduler slices. The serve thread itself reads
only the atomic boot phase. The client blocks on one request at a time from its
event loop. Native operations re-enter the interpreter; a sleep in there suspends
only the inner run. The collector runs on the owner thread, inside a sleep or a
budget yield. A heap snapshot and the compiler's files outlive the process.

What makes each part correct: a handle means one value for ever (arenas); each
continuation exists exactly once and runs at its deadline in order (scheduler,
prompts); each event is shown once, in order, and is not forgotten before that
(UI channel); a client is interactive exactly when it is ready and the world is
(boot gate); a list is the sequence of its entries whatever its indexes do (DM
lists); nothing DM code can still name is freed (collector; the exception is in
section 5); loc, contents and
the coordinate index tell the same story (containment); bytecode does what the
statements mean (lowering and interpreter); a cache returns what a build from
nothing would (compiler caches).

`PROJECT.json` lists every component with the reason for those left out, and the
hazards at their lines.

## 2. Modules

| Module | Models | Composes |
| --- | --- | --- |
| `Arena` | `Arena<T>` with sweep, snapshot, restore | |
| `UiOutbox` | server half of the UI channel | |
| `UiChannel` | connection and client, end to end | extends `UiOutbox` |
| `BootGate` | gate, boot, lobby activation, sessions | |
| `TimerQueue` | abstract: what the scheduler promises | |
| `Scheduler` | threads, prompts, walks, slices | implements `TimerQueue` |
| `ListSpec` | abstract: a list is a sequence of entries | |
| `DmList` | the storage of a list with its indexes | implements `ListSpec` |
| `ListOps` | operators, Remove and Splice | extends `DmList` |
| `Collector` | nested and suspended runs, roots, collections | |
| `Contents` | loc, contents lists, areas, geometry | |
| `Lowering` | statements to bytecode | extends `Values` |
| `Structured` | abstract: what a statement means | extends `Lowering` (its syntax) |
| `Values` | numbers, null and the operations on them | |
| `Machine` | the execution of bytecode, and what verified code is | extends `Values` |
| `Interpreter` | the machine on what `Lowering` emits | extends `Structured` and `Machine` |
| `Caches` | builds through the persistent caches | |
| `MC*` | constants and symmetry for TLC | |
| `*Proofs` | theorems | extend their module |

**Arena.** A handle is `<<index, generation>>`. `gen`, `val`, `slotLen`, `free`
and `live` are the fields of `Arena` and `Slot`; chunks are left out. A sweep is
a loop with a cursor that nothing interrupts except the end of the process. A
restart is a restore of the persisted snapshot from any state, in one step
(`from_snapshot`) or slot by slot (`read_snapshot_from`). `owner` and `removed`
are histories that say what each handle was issued for.

**UiOutbox.** `outbox` is the VM's queue per client, `uiSeq` and `retained` are
the maps of `LoopbackIpc`. An event is its position in its session. `Above` is
the filter by which an acknowledgement keeps the events numbered above it; that it
leaves a suffix follows from the numbers being consecutive (lemma
`AboveIsSuffix`). `UiEvents`
empties the queues of all sessions because `take_outbound_events` does; that
this never reaches the session the client is on is `CurrentQueueIntact` of
`UiChannel`, and it depends on the server serving one connection at a time.

**UiChannel.** The client's event loop is `pc`; one action is one request, one
answer, one event applied or one end of a batch. `Break` may lose a request or
leave it with the server. What the client does with an event is its kind:
`plain`, `browser` (an update for the owner queue), `resource`, or `bad`
(rejected). `presented` and `committed` are histories.

**BootGate.** `owner` is where the owner thread is, `request` the single request
in the channel. A source boot commits phases 1 to 4; a standalone boot commits
none before it enters the persistent loop. Requests are handled only inside
`apply_lifecycle_tick_boundary` (`AtBoundary`).

**Scheduler.** A thread is one continuation; it is scheduled, in flight, in a
prompt, running, or ended. `pc` says whether the owner thread is at the host's
boundary, in the drain loop, in a dispatch, or in the idle advance at the end of
a slice. Sleeping, yielding on a budget, prompting, completing and failing are
the ways a run ends. Delays are integers in the unit of `world.tick_lag`. The
movement of a walk is a nondeterministic stop.

**DmList.** A list is a record with the fields of `DmListStorage`: two vectors,
the order that points into them, `head` for the logically removed prefix,
`index` for the key index and `removal` for the index of repeated removals, a
map of original places with a Fenwick tree of what was removed since. The
operations are functions from a list to a list; the actions apply one and
remember its result in `last`, which `ListSpec` constrains as well. A collection
and a save with restore are operations too, since both rebuild the storage.
`ListOps` composes these functions as `lists.rs` does; what it computes is
compared with the operators on sequences in every reachable list.

**Collector.** `stack` is the native stack of `run_frames` calls, `held` the
values in the frames of a continuation, `hostRoots` the vector
`host_value_roots` with one entry per extension. `EnterNew`, `EnterDel` and
`EnterSpawn` are the native operations that run DM code after they pushed the
frames of the waiting run to the roots; `Resume` cuts them off again.
`EnterUnrooted` stands for the operations that run field initializers and save
nothing (`new /regex`, `MakeRegex`, `MakeFilter`, `initial()` on a type, a store
to `world.maxx`): the frames of the waiting run are `Exposed` until
`ResumeUnrooted`, and the properties speak of all the others. A collection happens in the step in which a run sleeps. `Fresh` hands out no object
that something still names: `Arena` proves that handles are not reused.

**Contents.** `loc`, `contents` (how often a list names an atom), `pending` (what
`pending_area_uncontain` will take out) and the two halves of the coordinate
index over one row of cells. `Qdel` is the built-ins `qdel` and `del`, which take a
movable out of the lists before they destroy it; `Del` is the statement `del`
(`execute_del`), which only destroys it. The `loc` of such a movable is kept as a
history: it says which lists still name the dead handle. `stranded` is a history of the movables whose turf
a resize destroyed.

**Lowering, Structured, Machine, Interpreter.** A program is a tree of
statements. `Lowering` appends instructions and patches jumps in the order of
`compile_stmt.rs`; `Machine` executes the procedures in `module` with frames,
operand stacks and handler stacks, and does not know where they come from;
`Structured` gives the tree its meaning directly, without code, and is the
reference `SameBehaviour` compares with. It keeps the constructs around a
statement in a context, because a spawned body is still within them: a throw out
of it goes to the spawner's `catch`, a break to the spawner's loop, and the rest
of the procedure follows in the new thread. `Interpreter` puts the three together.
Everything that reads or computes data and may fail is the instruction `Ask`,
answered by the environment. `Structured` and the syntax in `Lowering` have no
lines of their own in the map.

`Machine` also says what it needs of the code: `Verified`, a discipline on
targets, operand depths and the nesting of tries. The code of the repository has
no such verifier (only the targets are checked, by `validate_program`), so that
every lowering routine has to keep the discipline by itself; `Interpreter`
checks with `LoweringIsVerified` that what they emit does.

**Caches.** One build at a time: `pc` is the file operation it is at, `job` its
local values. A file's content is a set of procedures with bodies, and
declarations that lowering reads. Files written with `fs::write` may be torn,
files installed with `write_atomic` not. `seen` and `raced` are histories that
say which contents a file had while the build ran and whether an edit fell into
a load.

## 3. Runs

Passing runs:

| Run | Shows | Distinct states |
| --- | --- | --- |
| `arena` | handle identity, live count, restorable and exact snapshots | 61,849 |
| `ui_delivery` | nothing is lost and everything is handled, on one session whose batches fit the owner queue; replays of an unacknowledged batch are stable | 33,666 |
| `ui_reconnect` | numbering in emission order, applied once and in order, current queue intact, under every failure modelled | 519,064 |
| `boot_gate` | nobody blocks on the boot, no refused commit, no lost or early enabling, every request answered | 10,909 |
| `scheduler` | one continuation per thread, refinement of `TimerQueue`, idle tail, a due thread runs | 521,938 |
| `dm_list` | indexes in step, refinement of `ListSpec`, readers, copies and operators agree with the entries | 1,571 |
| `collector` | nothing dangles, host roots balanced, collections invisible, but for exposed frames | 701,242 |
| `contents` | loc, contents, areas and geometry agree, up to what `del` leaves behind; no containment cycle | 717,072 |
| `interpreter` | bytecode and structured meaning agree; the code emitted is verified; handlers, stacks and targets sound | 707,058 |
| `caches` | caches return what a fresh build would, identities stable | 4,585,636 |

Runs in which TLC refutes what a comment or an assertion says (quoted under
`findings` in `PROJECT.json`):

| Run | Counterexample |
| --- | --- |
| `scheduler_prompt` | a pending prompt alone makes the scheduler non-empty without an earliest task, and the `expect` panics |
| `stale_executable` | build, install a release that lowers differently, build again: the procedures' digest is the same, and the old instructions are linked in |

**Bounds.** Two slots and generations 0 to 2 let a slot be reused, retired and
coexist with another. Two sessions are one old and one current. Two to four
events make batches that are partly acknowledged. `Capacity` 1 makes the owner
queue overflow; 11 holds a batch with everything deferred before it, as the
theorem about `NoEventLost` asks. Two activation
slices cover the first, the last and the limit. Two threads are enough for one
that runs and reschedules itself while the other is due in the same tick; `MaxTick`, `MaxSequence` and
`MaxThreads` end the model's time, so deadlock checking is off where they, or a
stopped server, can end a behaviour.

`dm_list` has four values: null and another with the same hash, a NaN, which no
key equals, and a value without a hash. Three entries with both index thresholds
at 2 let each index be built, used after a change, and dropped; the label of the
last operation is left out of the fingerprint (`VIEW`) since no guard reads it.
`collector` has two objects, which form every graph, and two continuations, one
of which can be nested in the other, asleep, due or behind a prompt. `contents`
has a row that grows to two cells and is cut again, three turf handles, so that
one replaces another, two areas, and two movables, the least that make a cycle. `interpreter` runs eleven
hand-written programs and 880 generated ones: five kinds of loop around every
pair of endings in a try and its catch, around every pair of endings in a body
spawned in a try and in the catch, and around an inner loop left by label, each
with and without an enclosing try, under every sequence of five answers.
`LoweringIsVerified` is an invariant about the initial states, one for each of these programs. `caches` has two files and one edit
over three builds; larger instances (one file with three contents and two edits;
two files with two edits) pass as well and take longer. The bounds on edits,
builds, roots and answers end behaviours, so deadlock checking is off there too.
The proofs cover other values for the modules that have them.

**Fairness.** `UiChannel`: the persistent loop reaches boundaries again and
again and the client's event loop wakes on a timer, so each step of the
exchange is weakly fair; connecting and emitting are not fair. `BootGate`: the
handlers are weakly fair; the owner's own steps are strongly fair because it
looks at the channel right after answering, while the client still waits for
that answer. Boot may fail instead, which every liveness property allows.
`Scheduler`: slices, the drain loop and the end of a run are weakly fair (step
and wall budgets are finite); `StartTask` is strongly fair: the wall budget does
not run out before the first due thread in every dispatch for ever. That is an
assumption about the budget (50 ms by default) and not a consequence of the code.

## 4. Proofs

All theorems are for any values of the constants that satisfy the `ASSUME` of
the module (natural bounds, a vacant marker that is no payload, `TickLag > 0`,
finite sets of names). Each rests on one inductive invariant, proved action by
action, which TLC checked on the module's run before.

- `ArenaProofs`: `TypeOK`, `HandleIdentity`, `LiveCount`, `NeverCorrupt` and
  `RestoreIsExact`. The strengthening relates the free stack to the vacant
  slots (each listed once, retired ones not at all), bounds the generation of
  every issued handle by its slot's, and says the same of the persisted
  snapshot, since a restart makes that the state. Without the free-stack part,
  an insertion could overwrite a live slot.
- `UiChannelProofs`, first part: `OutboxTypeOK`, `SequencedInOrder` and
  `ReplayStable` of `UiOutbox`, for any sequence of requests.
- `UiChannelProofs`, the channel: `ChannelImplementsOutbox` shows
  that every step of the channel is a step of `UiOutbox` or leaves it alone, so
  that its theorems hold of the channel too, and then come `ChannelTypeOK`,
  `CurrentQueueIntact` and `AppliedOnceInOrder`. The strengthening is
  `FutureSilent` (nothing is emitted to a session before it is attached),
  `CurrentOK` and `AppliedOK`. `CurrentOK` says that the request the server still
  holds is of the session the client is on, which is where "one connection at a
  time" enters, and that the numbers of that session count its events, since no
  other poll took any: order of numbers is then order of emission.
  `FirstSessionLosesNothing` proves `NoEventLost` until the first reconnect, and
  `NoEventLostHolds` for a single session. Both assume
  `Capacity >= MaxDeferred + MaxEvents + MaxEvents`: the owner queue holds a batch
  with everything that was deferred. The code does not check that (256 entries,
  batches of any length), and without it, or after a reconnect, the property is
  false (section 5). The extra invariant, `DeliveryInv`, says that what is on its way to
  the client continues from `last_sequence` without a gap, that everything up to
  there was applied and is committed or still in the owner queue, and that what
  the server released, or will on the acknowledgement under way, is committed.
- `BootGateProofs`: `TypeOK`, `NobodyWaitsForBoot`, `NeverRefused`,
  `InteractiveIsEarned`, `ReadyIsInteractive`. The strengthening is
  `OwnerKnowsPhase` (the phase and slices implied by the owner's position) and
  `ClientsAfterLobby`.
- `SchedulerProofs`: `TypeOK`, `OneContinuation`, `TailIsIdle`, and
  `Spec => ImplementsTimerQueue`. The strengthening is `Known` (numbers in use
  were handed out), `OnTime` (no deadline has passed; what is in flight precedes
  what is scheduled for the same tick) and `IdleOutside`. `OnTime` is what makes
  starting a thread a `Take` of the abstract queue; putting due threads back
  maps to a stutter.
- `ContentsProofs`: `ContentsTypeOK`, `ContentsMirrorLoc`, `AreasAgree` and
  `NeverInsideItself`. The three properties need each other, and besides them
  `NamedInLists`, `DeadHoldNothing`, `WellPlaced` and `CellsDistinct` (no turf is
  in two cells, or cutting one column would leave a destroyed turf in another).
  That a move makes no cycle is an argument about `Upward`, the least set closed
  under the holder: the new holder's does not contain the moved atom.
- `CollectorProofs`: `TypeOK`, `NothingDangles`, `RootsBalanced` and
  `Spec => CollectionTransparent`. `RootsOK` is the core: the waiting calls that saved frames own
  the entries of `host_value_roots` in the order in which they were entered, one
  each, with what their frames hold now, so cutting at a call's own length on
  return removes its copy and no other. Calls without a copy stand between them;
  what only the frames of those hold is outside the theorems, which is all that
  is true of it (section 5). `StackOK` says who may change frames,
  `VictimsOK` that no two calls destroy one object, `HeapOK` that results and
  the frames of those asleep are live as well.
- `CachesProofs`: `ProjectIsCurrent`, `FrontEndFresh`, `ExecutableFits` and
  `Spec => IdsStable`. The invariant says of every file on disk, torn or whole,
  what is true of it whoever wrote it: `SnapOK` and `ArtifactOK` that times and
  digests vouch for the contents beside them, `DbOK` that the executable section
  has the procedures of its digest and that no two names share an identity. `LoadOK` and
  `CompileOK` say the same of what the running build has read and made. New
  identities are above the largest old one: that this exists for any finite set is
  `MaxNatural`, by well-founded descent. The proofs assume that the procedure
  names of a content are a finite set of naturals (`CachesAssumption`): names
  numbered in tree order, in which the code hands out new identities.

- `MachineProofs`: `InnermostCatches`, `StackBalanced` and `TargetsInside` of
  `VerifiedSpec`, the machine on any module that is `Verified`, with any number
  of procedures and threads, any answers and any depth of calls. The hypothesis
  is about code, not about runs: there are depths such that every instruction
  finds the operands it takes, its successors expect what it leaves, catches and
  spawned parts start with none, no jump enters a try from outside, and the end
  of a try belongs to the innermost. `LoweringIsVerified` checks exactly this of
  the 891 programs of the run, so the theorems are about them with any number of
  answers and not just five. The invariant, `MachineInv`, has `FrameOK` for every
  frame, running, waiting or queued: its handlers are those of tries that were
  reached, with no operands below them (`FromTries`), and `InForce`, the
  heart: each try around the instruction has a handler after which there is none
  of a try around it. `InnermostCatches` alone is not inductive, as it says
  nothing of the handlers that become the selected ones when a catch or an
  `EndTry` removes others; and an equality of the handlers with the tries would
  be false, since a `break` or `continue` leaves handlers behind, and `EndTry` may
  remove such a one instead of its own. A frame that waits for a call lacks the
  arguments that its callee took (`Waits`), the others have what `depths`
  says (`Runs`). A spawned thread keeps the handlers of the frame it copies;
  `InForceFewer` is why those in force stay so.

`TypeOK` of these modules (`OutboxTypeOK`, `ChannelTypeOK`, `ContentsTypeOK`) is
proved and is no longer in a run; that of `Caches` is spread over
the parts of its invariant.

Only model-checked:

- The liveness properties (`EveryEventHandled`, `EveryRequestAnswered`,
  `LobbyClientsEnabled`, `DueThreadRuns`): the prover does not handle fairness.
- `DmList` and `ListOps` (`IndexAgrees`, `ReadersAgree`, `CopyIsFaithful`,
  `OperatorsAgree`, `ImplementsList`): folds over the list and a Fenwick tree,
  which only induction over the data could reason about.
- `SameBehaviour` and `LoweringIsVerified`: `Lowering` and `Structured` are
  recursive over programs, so that neither can be proved for all of them.

## 5. Not modelled, and what the code does not provide

Components left out:

- The ready-world snapshot, the readiness coordinator, the startup drain,
  `HostSliceBudget` and the workers: planned, see below.
- The instructions on data, the built-ins, the JIT, the map loader, the lexer and
  parser, rendering and file formats: sequential transformations of large data.

Left out of the parts that are modelled:

- `BootGate`: generation restarts of the gate (`restart_generation`) and the
  snapshot, resource and browser-topic commands. `UiChannel`: recorded
  transports after startup. 64-bit counters that saturate.
- `DmList`: lists that are views of something else. Where a plain value stands
  before an association of the same key, `copy_range` merges the two;
  `CopyIsFaithful` states exactly when.
- `Contents`: direct writes to the `loc` of a turf, `del` and `qdel` of a turf or an area, adding to a
  movable's contents list by operator, coordinates and visual contents. A
  movable whose turf is destroyed by a resize stays in the area's list. Reads by
  index and list operators see a list before its queued departures are applied,
  unlike the accesses the comment at `world_geometry.rs:184` has in mind.
- `Machine` and `Lowering`: static locals, associative for loops, safe navigation, list
  mutation during a loop (the iterated value is a snapshot), the fast paths and
  superinstructions, and a `spawn` with a negative delay, which runs its body at
  once and inside the spawner's run. A `break` or `continue` out of
  a `try` leaves its handler on the frame's stack; `InnermostCatches` shows that it
  never catches anything it should not. A spawned body keeps the handlers of the
  tries of its procedure around the `spawn`, and not those of the callers:
  `Structured` says so, and `SameBehaviour` checks it with a `spawn` in a `try`, in a
  `catch`, in a callee and in another spawned body. `||=` evaluates its target twice.
- `Caches`: builds that run at the same time, hash collisions, standalone and
  reuse-artifact paths, new files that shadow an included one. An edit between
  the read of a file and the record of its time, or one that restores the old
  time and length, makes a build in metadata mode serve old text;
  `ProjectIsCurrent` excludes just these cases, and when the bytes are verified it
  excludes nothing.
  The identity of a deleted procedure can be handed out again. Temporary files
  left by 128 crashes under the same numbers make `write_atomic` fail.

What the code does not provide. Where a definition is named, TLC has a
counterexample to it, or to a run's property under other constants:

- `NoEventLost` with two sessions. `about_to_wait` (`dm-client/src/main.rs:2721`)
  resets `last_sequence` on a new session only while the startup replay is shown,
  so after `.reconnect` the events the new session numbers from 1 count as
  duplicates and are acknowledged.
- `NoEventLost` with a full owner queue. A browser update is refused after
  `last_sequence` was advanced, and a resource after it was acknowledged
  (`main.rs:1640`); the next poll takes it for a duplicate.
- `DeferredHasNoDuplicate` (`UiChannel`). While the startup replay is shown,
  every poll appends the retained batch again (`main.rs:1608`).
- Progress past an event the client rejects (`main.rs:1650`): it is never
  acknowledged.
- `InputIsGated` (`BootGate`). `apply_lifecycle_tick_boundary` executes pointer,
  verb and movement requests in the read-only lobby (`ipc.rs:555`).
- `FramesRetained` (`Collector`), as an invariant of `MCCollector.cfg`.
  `initialize_existing_datum` (`value_ops/mod.rs:533`) runs initializer programs
  without saving the frames below it, and its callers for regexes, filters,
  `initial()` and new cells do not save them either, although the comment at
  `interpreter.rs:569` gives the reason why the allocation of other types does:
  "Their collector sees the nested frames". A thread with a list in a local makes
  a regex, whose initializer sleeps, and the collection there takes the list:
  four steps. `NothingDangles` and
  `CollectionTransparent` hold for all other frames; what such a frame is left
  with afterwards are handles that read as null.
- Lists without dead atoms (`Contents`). The statement `del` calls `destroy_datum`
  and not `unregister_runtime_datum` (`value_ops/mod.rs:2658`, `:2680`), so the
  contents of the holder and of the area go on naming the movable.
  `ContentsMirrorLoc` and `AreasAgree` say that this is all that is left behind:
  each dead movable once in the list it was in.
- `ArgumentsLive` (`Collector`). The arguments of `new` and of a call are moved
  from the operand stack to a Rust variable (`interpreter.rs:523`, `:683`,
  `:864`) before the frames are saved as roots, so a collection in the nested run
  takes those nothing else refers to.
- An encodable program for every procedure. A `return` followed by an `if`
  without `else` at the very end leaves a jump to the end of the code
  (`compile_stmt.rs:3065`), which `validate_program` of `module_codec.rs`
  rejects. It is not `Verified` either, so the theorems of `MachineProofs` do not
  speak of it; none of the programs of the run has such dead code.

## 6. Plan

1. `ReadinessCoordinator`, composed with `BootGate`: reports are sent once per
   generation and in an order the server accepts; a reconnect rearms them.
2. `ReadySnapshot` over `Scheduler`: capture at a slice boundary and restore.
3. The startup drain and the adaptive slice budget; the worker lane.
4. Visual contents (`vis_contents`, `vis_locs`) beside `Contents`; the include
   search of the project loader beside `Caches`.
5. Proofs: the sequence facts of `DmList` that need no induction, and the new
   modules.
