# Verification of nineaxis_safecontrol in TLA+

The repository is the software of a nine-axis robot that follows a path on a
pipe wall while a safety layer keeps it away from obstacles: a control core in
Python and JAX (`portable_oscbf/work`), ROS 2 nodes around it
(`src/robot_safecontrol_moveit`), drivers, and a harness of static-obstacle
experiments. This directory holds TLA+ models of its concurrent core, the TLC
configurations that check them, and proofs that TLAPS checks. All paths below
are relative to the repository.

Five subsystems are modelled, all chosen because several actors share state in
them and no single test covers the orders in which that can happen:

| modules | what they model |
|---|---|
| `SceneFile`, `SceneWriter`, `SceneReader`, composed by `SharedScene` | the shared-memory file that carries collision scenes from one process to another |
| `SceneRegister` | what that transport promises: a regular register |
| `StaticTopics`, `StaticPlant`, `StaticRecovery`, `StaticController`, composed by `StaticLoop` | the closed loop of controller, worker process and plant in the static-obstacle experiment |
| `StaticCycle` | what controller and plant of that loop promise each other: a control cycle with one command at a time |
| `StaticRecorder`, `StaticWorker`, `StaticCallbacks`, composed by `StaticRun` | one run of that experiment: its supervisor, the life of its two workers, what they record and what is reported |
| `MotionStops`, `DriveLink`, `TableExecutor`, composed by `JointTable` (`MCJointTable`) | programs that move the real joints: files that lock the motors, the serial line, the executor and the person at the terminal |
| `OscbfPlant`, `TrackingRun`, `TransitionLoop`, composed by `Handover` | the planning server that brings the simulated arm to a start and hands it over to the tracking controller |
| `SharedSceneProofs`, `SceneWordProofs`, `StaticLoopProofs`, `StaticBudgetProofs`, `StaticRefusalProofs`, `StaticRunProofs`, `HandoverProofs`, `JointTableProofs` | theorems about the above, for every value of the constants |

`PROJECT.json` lists the components, runs, mutants, hazards and theorems, and
for every definition the source lines it stands for.

## 1. Inventory

### 1.1 Shared scene transport (`portable_oscbf/work/shared_collision_scene.py`) — modelled

*State.* A file under `/dev/shm` or the like with an immutable header (epoch,
source identity, pid of the writer, creation time), one 64-bit word (revision,
status, slot) and two slots for scenes. The writer keeps `_revision`, `_slot`,
`_notice` and two locks; the reader keeps its mapping, a pidfd of the writer,
the epoch it accepted, `_last_revision`, the accepted scene `_result` and a
latched fault.
*Operations.* Writer: constructor, `publish`, `invalidate`, `close`. Reader:
constructor, `refresh`, `accept_epoch`, `reset_fault`, `close`, the query.
*Interactions.* No message and no lock between writer and reader: only the
word, release-stored and acquire-loaded. The server node also sends a notice.
*Hard.* Torn copies when two publications pass during one copy; a writer that
dies, or closes, between any two system calls; replacement of the file under a
reader; a scene that expires while it is copied or put on the device; an
exception between the store and the bookkeeping; reuse of a pid.
*Correct when* every scene a query sees is a whole scene that one writer
published under the epoch the monitor accepted, was in time, was the current
one at one instant of the refresh that accepted it, and is dropped when it is
superseded, withdrawn or orphaned.

### 1.2 Collision scene server (`collision_scene_server.py`, `_pipeline.py`, `_sources.py`) — partly

*State.* The pipeline's latest input per source, health, the writer.
*Operations.* A timer publishes or invalidates by health, `destroy_node`
closes. *Interactions.* Owns one `SharedCollisionSceneWriter`; its topic carries
notices of the revision. *Hard.* KeyboardInterrupt in the middle of a
publication; failure of one source. What the node does to the writer is part of
`SceneWriter`; the fusion of its inputs is not modelled.

### 1.3 Static experiment loop (`static_experiment_nodes.py`, `portable_oscbf/work/static_{execution,recovery,control,motion}.py`, `static_experiment_capacity.py`) — partly

*State.* Plant: step counter, active and pending motion, a future with the
collision check of a command, the last motion id. Controller: last snapshot,
open cycles, the recovery state (phase, pause, confirmation), a future with the
calculation under way, endpoint timer, sequence number.
*Operations.* Plant: command callback, 2 ms timer, completion of a check.
Controller: state callback, admission callback, 2 ms timer, `_finish`,
`finish_recording`. Worker: `propose`.
*Interactions.* Three best-effort topics (command, admission, state); the
controller's worker thread shares the recovery state with its callbacks.
*Hard.* Lost answers and snapshots; decisions with an old snapshot; a refusal
that arrives while the worker calculates; start steps aligned to the control
period; the pause after a refusal; the endpoint judged late; bounded storage for
records.
*Correct when* joint state and reference are continuous across motions, a
command is refused only if it is late or not certified, a refusal has its effect
exactly once and alone, the run is called completed only at the end of the path,
and every calculation is paid for in the budget and recorded once.
Not modelled: the plant's own `finish_recording`, the optimisation and the
collision check (each certificate is a free choice), and the record contents.

### 1.4 Static experiment supervisor (`static_experiment.py`) — partly

*State.* Two worker processes, `stop` file, `*.ready`, `*_result.json`, the
deadline, `outcome`. *Operations.* Start controller then plant, poll, stop,
collect, write `result.json`. *Hard.* A worker that ends between two polls, or
hangs; a controller that is interrupted, exits with code 0 and leaves no
`controller_result.json`; a budget result that appears after the deadline was
decided; a signal between `Popen` and the entry in `processes`. *Correct when*
one result is written, it names what really ended the run, and no worker outlives
it. Not modelled: configuration values, the timing of cycles, and what follows
`result.json`.

### 1.5 Run recording (`static_experiment_recording.py`, `static_recording_capacity.py`, `static_experiment_storage.py`, …) — partly

SQLite streams with delta coding, one writer per worker, finalised by the
supervisor. Hard: a storage guard that refuses between two streams, a worker that is
interrupted while it finishes. Correct when the reserve left by the guard always
suffices to close the run, and a refusal is reported. Not modelled: codecs, SQLite,
volumes, playback.

### 1.6 Tracking run (`tracking_run.py`, `oscbf_controller.py`, `tracking_report_writer.py`, `tracking_contract.py`) — partly

*State.* Execution state (waiting, tracking, hold, finished), evaluator, last
published target, a background report. *Interactions.* The control timer, the
obstacle callback (which does not take the control lock), the planner's start
service and the report thread. *Hard.* A report whose files are renamed one
after the other; `close` against a report under way; a start that is served when
nobody waits for it any more. *Correct when* who tracks begins where the plan
ended, and the files of a report are of one run. Not modelled: the control
computation with its obstacle state, telemetry, the other start modes.

### 1.7 Transition planning (`transition_executor.py`, `transition_planning_server.py`, …) — partly

`TransitionExecutor` plans, executes, settles and starts tracking;
`AutoPlanLoop` retries beside a service that does the same. Hard: the loop's
test of `is_planning` and the service call; leftovers of a replay on the topic that
is read to settle; a call that timed out and is served later. Correct when one
plan at most is executed at a time, attempts count right, and tracking starts at
the goal. Not modelled: `plan_only`, `moveit_execute`, MoveIt itself.

### 1.8 Plant simulation (`oscbf_plant.py`, `portable_oscbf/work/driver_simulator.py`) — partly

A driver plant fed by a position stream, and a randomize service; a thin node
over numerical integration. Poses are modelled, the integration is not.

### 1.9 Hardware command safety (`hardware_contract.py`, `hardware_bridge.py`, `motor_stop_latch.py`) — partly

*State.* The latch file; last sequence, watchdog times and latched stop reason
of `CommandSafetyGate`. `motor_stop_latch.py` is modelled whole, in `MotionStops`.
The gate is one object that checks one message after the other inside one node,
and the bridge around it has no transport and refuses to send; they are not
modelled.

### 1.10 Joint table execution (`joint_table*.py`, `single_joint_execution.py`, `attended_positioning.py`, …) — partly

Attended motion of the real joints: a cycle reads nine feedbacks and sends nine
commands over one serial line, with monitors and a final hold. Hard: a failure
after some of nine commands, a reply that is lost, holding after a failed read,
another program that latches a stop meanwhile, lines typed ahead. Correct when
what is reported of the arm is so, nothing moves without a review of the latched
stop, and every abnormal end is latched. Not modelled: the ordinary table mode
with its measurements (section 6.1), the numbers behind limits and monitors, the
read-only tools.

### 1.11 CAN and serial drives, Livox driver

`drempower_*.py`: framing and polling over the serial line, modelled in
`DriveLink` as far as a motion uses it (partly). The CAN back ends carry no
motion. `livox_mid360/`: commands and acknowledgements over UDP with retries. A
client has one request at a time under way and drops answers whose sequence number
is not that of the request; the rest is decoding of packets. Not modelled.

### 1.12 Perception, fusion, safety snapshot and step caches — not modelled

Mostly numerical point cloud work. The rules about freshness
(`fusion_engine.py`, `safety_snapshot.py`) are comparisons of times inside one
callback, and what is carried from one control step to the next
(`cross_step_state.py`, `controller_step_cache.py`) are arrays of floats that one
thread reads and replaces: a model of them would repeat assignments.

### 1.13 Out of reach or without state — not modelled

Control kernels, kinematics and collision geometry (floating point
optimisation); evaluation, provenance and campaigns (sequential, offline); path
assets, viewer, planner plug-ins, scripts; the vendored `xy_lidar`.

## 2. Plan

The order follows how much of the repository's promises rests on a component
and how many actors share its state.

| step | modules | what they show | state |
|---|---|---|---|
| 1 | `SharedScene` family, `SceneRegister` | a consumer sees whole, current, vouched-for scenes only; refinement of a regular register | checked and proved |
| 2 | `StaticLoop` family, `StaticCycle` | continuity, honest refusals, isolated pause, budget; refinement of the control cycle | checked and proved |
| 3 | `StaticRun` family | one result per run that names the true cause; no worker outlives it; a completed run is whole; the reserve suffices; the run ends; refinement of the control cycle although workers fail | checked and proved |
| 4 | `Handover` family | attempts count right, tracking begins at the goal, no mix of two reports | checked and proved |
| 5 | `JointTable` family, with the stop latch | true reports, whole groups, no motion without review, latched ends | checked and proved |
| 6 | the ordinary table mode | measurements, once the qualification it asks for can be given | waits for the code |

Dropped from the plan: `CommandSafetyGate`, the Livox client, fusion and the
safety snapshot, for the reasons in 1.9, 1.11 and 1.12.

`StaticRun` takes from `StaticLoop` the callbacks and replaces what they compute
by free choices; `StaticLoop` takes from `StaticRun` nothing but the moments at
which a controller may stop. They are two views of the same two nodes, and are
kept apart because their product is far beyond TLC. What ties them together is
`StaticCycle`: both are shown to implement it, the one as it is, the other with
processes that may lose what they have in memory (`Fallible`). `TransitionLoop` and
`TrackingRun` meet in one service, the planner's start of tracking, and in the
plant. `JointTable` and the latch meet in `stop.json`, which every program that moves
a motor reads.

## 3. The scene transport

### 3.1 Modules and code

`SceneFile` holds what both sides see: the public path, the staging file, the
lock, which processes live, and for each epoch's file its word and its two
slots. `SceneWriter` and `SceneReader` extend it with the steps of the two
classes, `SharedScene` composes them and states the properties.

A step is what the operating system or the CPU makes visible at once; the
code between two such points is part of the step before it.

| step | code in `shared_collision_scene.py` |
|---|---|
| `Stage`, `Link`, `Unlink`, `Replace`, `AbandonOpen` | constructor: staging file under the lock, `os.link` and `staging.unlink` for a new path, `os.replace` for an old one, the clean-up when it raises |
| `Invalidate`, `BeginPublish`, `RefuseStale`, `WriteHalf`, `Admit`, `RefuseExpired`, `Store`, `Commit`, `Interrupt` | `publish` and `invalidate`: the slot is written in two halves, the word stored, then the counters assigned; `Interrupt` is KeyboardInterrupt between the last two |
| `Close` | `close`: the error word, then the lock |
| `Exit`, `RecyclePid`, `Corrupt`, `Tick` | death at any step, reuse of its pid, damage to slot bytes, the clock |
| `Keep`, `Drop`, `Open`, `LoadWord`, … `Certify` | `refresh`: fast path, mapping and pidfd, load of the word, copy of the halves, second load, decoding, device preparation |
| `RecheckWord`, `RecheckWriter`, `Accept`, `RecheckFails` | the last three reads of `refresh`, each a step of its own |
| `Construct`, `ResetFault`, `AcceptEpoch`, `CloseReader` | the consumer's calls between two refreshes |

What is abstracted:

- A scene is its (epoch, revision) and its deadline; a slot has two halves, each
  with the identity of the record it came from. Two are enough: a torn copy is
  a copy whose parts differ, and two parts show it. The checksum is modelled by
  what it is for: `Intact` holds of a copy whose halves are one record, the one
  of the word that was loaded.
- Process and epoch are one to one: a process that opens the path again after
  `close` is the next epoch.
- The header is written before the file is public and never after; the
  source identity it holds is the set `ForeignEpochs` of epochs with another one.
- The error statuses other than PENDING are one status. They differ in the
  message only.
- The parameter of `refresh` for a revision notice is left out: no caller in
  `src/` passes it. `pidfd_open` and the `select` after it are one step.
- A reader stands for all: readers share nothing that a reader writes.
- A stranger that got a recycled pid never exits. Its exit would only hide the
  scene sooner.
- A publication whose admission fails calls `invalidate`, which is the action
  `Invalidate`.

### 3.2 What is promised

`SceneRegister` is the abstract specification: a regular register. It holds the
scene an authority vouches for, and a read shows a scene that was vouched for at
some moment while it was under way, or nothing. `ImplementsRegister` is the
refinement: the authority is the OK word of the living writer of the public
path, and the abstract read is no longer than the last three reads of `refresh`,
from `Certify` to `Accept` or `RecheckFails`. The copy and the preparation
before them may take as long as they like.

The properties, with the document that promises each
(`docs/modules/collision_scene_server.md` unless said otherwise):

| property | promise |
|---|---|
| `ActiveSlotIsImmutable` | line 53, the active slot is not modified |
| `UnmovedWordMeansWholeCopy` | line 55, the full revision detects a double switch |
| `RevisionAdvances` | line 57, scenes and error states both advance the revision |
| `NothingSupersededIsVisible` | line 88, the old reference is cleared before the copy |
| `FaultHidesScene`, `OnlyTheAcceptedEpoch`, and `RefreshKeepsEpoch`, which is proved and not in a run | line 90, faults latch; a change of epoch returns REVISION_PENDING; also ADR 0038 lines 24-36 |
| `AcceptedWasAuthoritative` | the three reads at the end of `refresh` (word, pidfd, path) are not atomic; that they amount to one consistent look rests on a dead process not writing and on a path that never returns to an earlier file |
| `CertifiedInTime` | the two checks of the clock around device preparation |
| `NoticeMatchesWord`, `OnlyTheLockHolderVouches` | the notice the node sends is that of the word; a process that gave up the lock, but lives, left an error word |
| `RevokedIsDropped` | a revoked, orphaned or replaced scene does not stay visible for ever |

### 3.3 Runs and bounds

Each run bounds what its question does not need; a bound appears only in the
guards of the steps that count (`MaxRevision` stops publications, `MaxEpoch`
writers, `MaxTime` the clock).

| run | bounds | why they suffice | states |
|---|---|---|---|
| `scene_slots` | 1 epoch, 4 revisions, clock 0..1, lifetime 0, interrupts | a slot is written again after two publications, so both slots can be overtaken under one copy; after the first OK word the writer can still fail, withdraw, publish and close; a tick makes a scene expire during the copy, or come from before the epoch | 3,256,952 |
| `scene_time` | clock 0..3, lifetimes 0 and 2, 1 revision, damage and pid reuse | a scene can be late when published, during the copy, during preparation and after | 391,537 |
| `scene_restart` | 2 epochs, 2 revisions each, no interrupts | a reader can be in any step while one writer ends anywhere and the other gets to its second word | 940,752 |
| `scene_follow` | 2 epochs, 2 revisions each, fairness | an OK word leaves room for a second one that withdraws it, for a close, an exit and a replacement by a writer of another source: every way to revoke a scene; under the assumptions of the proofs, which TLC evaluates here | 539,779 |

*Fairness.* `FairSpec` adds weak fairness of the reader's own steps, beginning
a refresh and continuing one. The code justifies it: line 88 of
`docs/modules/collision_scene_server.md` has every consumer run `refresh` on a
path of its own. Nothing is assumed of the writer, of the death of processes or
of the consumer's other calls; the theorem therefore says that staleness is
noticed however the writer behaves.

*Deadlock.* The runs set `CHECK_DEADLOCK FALSE`: when every writer of the
bound has died before a file existed there is nothing left to do.

### 3.4 What the code does that its documents do not say

Three runs end in a counterexample to a sentence of the documents:

- `lock_after_crash`: a writer killed between `os.link` and the unlink of its
  staging file leaves a public file with two names. The lock is free, and
  every later writer refuses the file in `_validate_target`. Line 57 says that a
  later writer that gets the lock makes a new epoch.
- `interrupted_store`: KeyboardInterrupt between the store of the word and the
  assignment of `_revision` makes the handler store the same revision with an
  error status. Line 57 says that both kinds of word advance the revision. A
  reader still sees a different word, since it compares the status too, so
  nothing shown is wrong.
- `recycled_pid`: the pidfd is opened by the reader, from the pid in the header.
  When the writer died and its pid was given away before that, the reader
  watches a stranger. Line 57 relies on the pidfd to notice an abnormal exit.

### 3.5 Proofs

`SharedSceneProofs` proves `Spec => []IInv` for every number of epochs and
revisions, every clock and every set of lifetimes. The safety properties are
not inductive as they stand, since the steps of a refresh carry what earlier
ones have read:

- `LockInv`: who holds the lock, and that a staged file is neither public nor
  mapped by a reader;
- `IssueInv`: a revision of an epoch is used for one record at most, and every
  record in a slot is the one issued under its revision;
- `HoldInv`: so is what the reader has copied, decoded or cached;
- `CheckInv`: the checks a call of `refresh` has behind it at each of its stages;
- `LookInv`: after the word was read again, it is the authority's if the two
  reads to come succeed, since a process still running was running then, and a
  path that still names the file named it then;
- `ReaderSafety`: the properties of the reader, which the invariant carries.

From it follow `TypeOK`, `NothingSupersededIsVisible`, `FaultHidesScene`,
`OnlyTheAcceptedEpoch`, `CertifiedInTime`, `RefreshKeepsEpoch` and, under the
assumption that no pid is reused, `AcceptedWasAuthoritative`; `recycled_pid`
shows that the assumption is needed.

It also proves that every behaviour is one of the register: one
lemma for the initial state and one for every action, from the same invariant.

`SceneWordProofs` adds the bytes: `DInv` is `IInv` with `WordInv` (writer
counters against the word), `SlotInv` (which record each half of each slot
holds), `CopyInv` (what the halves copied so far are worth while the word has
not moved) and `OnlyTheLockHolderVouches`. `UnmovedWordMeansWholeCopy` and
`ActiveSlotIsImmutable` follow where memory is not damaged, `RevisionAdvances`
where no interrupt falls into the gap that `interrupted_store` shows.

*Liveness.* `RevokedSceneGoes` (in `SharedSceneProofs`) is about any set of
scenes: one that is shown while nobody vouches for it is given up, or is vouched
for again, if consumers keep calling `refresh`. A call has eleven stages
(`Depth`), and each step of it leads to a later one or ends the call. A call
that had passed `Certify` when the scene was revoked may still accept it, the
next one cannot (`Forgotten`). `ReleasedSceneIsDropped` applies this to the
scenes of a writer that has let go of the lock: neither a close, an exit nor a
takeover is overlooked. `RevokedDropped` proves the property of the run.

Two hypotheses are needed, both stated in the theorems:

- `CallsProceed`: a step of `refresh` whose guard holds (`MayCall`) can be
  taken. `ENABLED` is beyond the provers; TLC finds `MayCall` and `ENABLED` to be
  the same on all 539,779 states of `scene_follow` and all 940,752 of
  `scene_restart`.
- `Resting`, for `RevokedDropped` only: each word comes to rest. In the runs it
  does, since its revision only advances and `MaxRevision` bounds it; that
  conclusion is an induction over revisions and stays with TLC. The hypothesis is
  not there for the proof's sake alone: against a writer that publishes during
  every call, after the word was read for the last time, what `refresh` shows may
  be revoked already each time it shows it. `RevokedSceneGoes` and
  `ReleasedSceneIsDropped` do not need it.

## 4. The static experiment loop

### 4.1 Modules and code

| module | code |
|---|---|
| `StaticTopics` | the three best-effort topics with their depths and the schedule of boundaries (`static_experiment_nodes.py`, `static_execution.py`) |
| `StaticPlant` | `OnCommand` (command callback), `PlantTick` (timer, with `advance`), `Admit` (completion of the plant's check) |
| `StaticRecovery` | `RecoveryState` of `static_recovery.py`: its phases and `started`, `updated`, `rejected`, `confirm` as functions of a state record |
| `StaticController` | `OnState`, `OnAdmission` (callbacks), `Consider` (timer: decides and starts the worker), `Propose` and `ProposeFails` (worker), `FinishMotion`, `FinishNone`, `FinishFault`, `FinishError` (`_finish`), `StopSpinning`, `FinishRecording` (end) |
| `StaticLoop` | the composition, `Lose`, and the properties |

Time is the plant's step counter. Plant and controller are processes, the
worker a thread of the controller; each callback is a step, since a node runs
one callback at a time, and the worker's proposal is a step of its own between
the submission and `_finish`.

What is abstracted:

- A joint state is a name for it: the motion and the steps since its start. Two
  names are never taken for one joint state, so that a model state in which the
  comparison of `queue` succeeds is one in which the code's succeeds. The
  reference is a number, the way along the path.
- Whether the plant's check certifies a motion is a free choice, as is the feed
  the worker finds within its bound, or that it finds none.
- Commands and answers are sets: they may be lost and overtake each other. One
  command at most is outstanding (`OneCommand` in the proofs), so the
  depth of the queue is never reached. Of the plant's state topic, with depth 1, one
  snapshot is in flight; a new one replaces it, or is itself lost and the old one
  stays. Snapshots are delivered in the order they were sent, hence the
  ValueError for a step that does not increase is not modelled.
- The raise of `advance` for a motion that is not due or does not continue is
  a guard: `ActivationContinues` shows that the guard is always met.
- The tests of `OnCommand` for a busy plant and for a motion that leaves the
  path are modelled and never met: that a command is never refused for these reasons
  is what `OnlyLateOrUncertified` says.
- Feeds below the threshold are 0. The refusal for a wrong period, the identity
  checks of the configuration and the ValueError for a time that decreases
  cannot occur between the two nodes of one run and are left out.
- A worker overdue, feedback older than 200 ms, an interrupt and an exhausted
  budget all end the spinning at a moment the model chooses freely
  (`StopSpinning` to `failing`); the stop file and the end of the hold do so by
  `leaving`. After either, `FinishRecording` follows when the worker is done.

### 4.2 What is promised

`docs/static_obstacle_experiments_legacy.md` lines 238-249 state the rules.

| property | what it says |
|---|---|
| `OnlyLateOrUncertified` | a command is refused only because it arrived too late or is not certified, though the controller decided with an old snapshot and lost answers |
| `ActivationContinues` | an accepted motion is due later and begins in the state the active one has then |
| `ActuatorIsContinuous` | at every step, the motion that is active afterwards and the one before agree on joint state and reference |
| `RefusalPausesReference` | no motion sent after a refusal moves the reference before a confirmation is over that began after the refused control period |
| `RecoveryHasOneWriter` | no callback changes the recovery state while the worker may do so |
| `AnswersAreExpected` | every answer finds its open cycle |
| `CompletedAtTheEnd` | a run that says it completed is at the end of the path and stays there |
| `CalculationsFitTheBudget` | storage reserved from the number of steps suffices for all calculations |
| `ImplementsCycle` | the loop implements `StaticCycle`, see below |

`StaticCycle` is the abstract specification. It looks at the plant itself, which
the controller cannot: a cycle begins only when nothing will come of the last
command any more, be it executed, refused or lost; a command is sent, taken,
accepted and started in this order, or vanishes; a cycle is recorded once, and
one with a command not before that is decided. `Cycle` at the end of `StaticLoop`
is the refinement mapping. The controller has only old snapshots and those answers
that were not lost, so this is what `WaitIsOver`, `latest.pending = 0` and
`Seen` (section 4.4) have to add up to. `EveryCycleIsRecorded`, that every
calculation has one record or is still open, follows from it; it is stated, and
proved, on its own as well.

### 4.3 Run and bounds

`static_loop` has four periods of two steps (`MaxStep` 8, `Ticks` 2), a motion
of two steps, a path of two units with feeds up to 2, a confirmation of 2, a
pause limit of 3 and an endpoint hold of 1: 806,829 states, depth 42. With these
values the loop reaches, in one graph, completion, the pause that times out,
recovery after a refusal with a positive feed, a command that is late, and two
open cycles at once; a longer run repeats a period. `Gain` 2 does not bind. There
are no fairness assumptions and no liveness properties: every topic may lose
every message, so the loop promises no progress. The plant stops at `MaxStep`,
hence `CHECK_DEADLOCK FALSE`.

### 4.4 Proofs

All properties of the run are proved for every path length, period, feed and
rule, and for topics that lose what they like.

`StaticLoopProofs` proves `Spec => []IInv`, where `IInv` is `TypeOK` with

- `OneCommand`: one command at a time is on its way, being checked or pending,
  and it is the one the controller waits for;
- `OneAnswer`, `CyclesAreOpen`: an answer on its way is the only one to its
  command, and its cycle is open;
- `Seen`: what every snapshot, in flight or held, still says about the plant.
  It is the heart of the argument: however old it is, a snapshot shows the active
  motion, unless that is the one the controller still waits for;
- `CalculationFits`, `MotionsFit`: the calculation under way, the command and
  the pending motion start at a boundary with the state the plant has there;
- `CompletedAtTheEnd`.

From it also follows `LoopKeepsCycle`, that the loop implements `StaticCycle`,
callback by callback. Two lemmas carry it: what is outstanding is the last
command and is waited for (`OutstandingIsWaitedFor`), and a controller whose wait
is over, or that calculates, has nothing outstanding (`NothingOutstanding`).

`StaticBudgetProofs` adds `CyclesInv` and the counting argument `BudgetInv`:
every start step is a multiple of `Ticks` and every calculation took a
boundary of its own, the last of them at most one period after the next. In n
steps there are therefore at most ceil(n / Ticks) + 1 calculations (`OneToSpare`),
one fewer than the code reserves.

`StaticRefusalProofs` adds `RefusalInv`: while the controller waits for the
answer nothing newer exists (`Unheard`), and once it has heard of the refusal
whatever it calculates starts later and moves the reference only after a new
confirmation (`Heard`). A refusal whose answer is lost is never heard of: the
controller waits for a motion that never becomes active, until it gives up.

## 5. One run of the experiment

### 5.1 Modules and code

| module | code |
|---|---|
| `StaticRecorder` | `RunRecorder.append`, the storage guard and budget, and `completion_record_counts`, the reserve of each role |
| `StaticWorker` | `_worker` and `finish_worker_recording` of `static_experiment.py`: `Build`, `Loop`, `Report`, `Finish`, `Terminal`, `Close`, `Interrupt`, and every way to fail in between |
| `StaticCallbacks` | what each callback of the two nodes appends and asks the guard for (`static_experiment_nodes.py`) |
| `StaticRun` | `run_experiment` and `_stop_processes`: `Launch`, `PollAlive` and what the loop looks at after it, `ControllerEnds`, `Settled`, `Request`, `SendInterrupt`, `Kill`, `WriteResult`; signals from outside; the properties |

The workers are processes. A step of a worker is a callback, or what lies between
two writes of its recorder, its result file and its stop reason. The supervisor's
loop is split where it reads twice: whether the controller lives, and then the
reports, the plant and the clock.

What is abstracted:

- What the nodes compute is left to `StaticLoop`. Here a command is a number, a
  certificate and the phase of the recovery are free choices, a motion lasts as
  long as it likes.
- A byte is not counted. A reserve is the number of records of each stream it
  was computed from, `written` the records since the guard last admitted; whether a
  size is over its limit is a free choice at each check. A size that only the very
  last record of a worker exceeds is checked by nobody after it and is no refusal.
- A move of the recovery that a failed or interrupted callback has not recorded is
  recorded later, with the fault (`record_fault`); it is counted as soon as the
  callback ends (`TakeError`, `Cut`), which is early and never too little.
- A message that is lost is one that nobody takes. That a snapshot has come is
  the ready file of the plant.
- What a process had in memory is reset when it dies. Files, messages, the last
  snapshot among them (`active`), and the history variables (`owed`, `received`, `answered`) stay.
- A signal is delivered between two steps, or inside a callback of the controller
  where something has been taken out and not recorded (`Cut`).
- `finalize_worker_recordings` runs after `result.json` and is left out.

### 5.2 What is promised

| property | promise |
|---|---|
| `ReserveSuffices` | `completion_record_counts`: what a worker records after the last check that was admitted fits the reserve of that check, stream by stream, whichever way it ends |
| `CompletedIsWhole` | `docs/static_obstacle_experiments_legacy.md` lines 124-127: commands, answers and cycles of a run are recorded. A run reported as completed, or as a pause that timed out, has them all, although topics lose messages and the supervisor may stop the plant at any time |
| `ExhaustionIsReported` | line 127: `result.json` gives the reason of the end. A guard that refused in a worker that exited with code 0, and every report of an exhausted budget, is the outcome, whenever it was written; no other cause makes it so |
| `NobodyOutlivesTheResult` | `_stop_processes`: every worker has ended, unless a signal came between `Popen` and the entry in `processes` |
| `ImplementsCycle` | the run implements `StaticCycle` with `Fallible`: whatever fails, the controller begins no cycle while a command of its own may still come to something, no cycle is recorded twice, and a record is lost only where a process ends or is interrupted |
| `RunEnds` | the three waits of `_stop_processes` and the deadline: the run ends although workers hang |

`ExhaustionIsReported` asks for exit code 0 because a worker that is interrupted
in its last handler, or killed, never gets to write its report.

### 5.3 Runs, bounds, fairness

| run | bounds | why they suffice | states |
|---|---|---|---|
| `static_run` | 1 command, 1 signal, room for 1 open cycle, streams `cycle` and `admission` counted | the reserve is tight for these two; one command is received, answered, lost, late or open at each point of each end | 1,573,624 |
| `static_run_ends` | 1 command, no signal, nothing counted | a worker may hang in each of its steps while the supervisor is in each of its own; with one command, a cycle begun too early is already a step `StaticCycle` does not have | 243,903 |

*Fairness.* `FairSpec` is weak fairness of the supervisor's steps and strong
fairness of `TimesOut`: it is a process that sleeps between two looks, every wait
has a limit, and the monotonic clock passes the deadline, so a look that comes
again and again is at some time too late. Nothing is asked of the workers; the
kernel is asked to end a killed process, which `Kill` says.

*Deadlock.* A run that has ended does nothing more: `CHECK_DEADLOCK FALSE`.

### 5.4 Proofs

`StaticRunProofs` proves the invariants of `static_run` for every number of
commands and signals, every reserve and every set of counted streams.

- `SInv` is `RunTypeOK` with `HandHeld` (a plant in the middle of a command has
  one), `Unstarted` (no worker runs before its launch), `Known` (who was started
  is known, unless a signal came, and who is known and not waited for any more has
  ended) and `Reported` (a guard that refused has its worker at the end of its
  loop with a report of it, and the result file names it). `NobodyOutlivesTheResult` and
  `ExhaustionIsReported` follow.
- `WInv` adds `Answering` (an answer on its way is recorded), `Ledger` (the
  controller owes a record of every cycle that is open or calculated, and each
  command it sent is answered or open), `Settlement` (when it reports an end it owes
  nothing any more) and `Reporting` (only then can the outcome be that end). From
  it follows `CompletedIsWhole`.
- `RInv` is `ControllerRoom` and `PlantRoom`: at each place of each worker, how
  many records of each stream may still have come since the last check. From it
  follows `ReserveSuffices`.
- `CInv` ties the two nodes together for `RunKeepsCycle`. While the plant takes
  commands, one at most is outstanding, and it is the last one sent
  (`OneOutstanding`); an answer is to a command that is decided, a rejection to one
  that is neither queued nor active (`AnswersDecide`); and a running controller
  waits for what is outstanding, until a rejection of just that command or the
  active motion ends its wait (`WaitsForIt`). A plant that leaves its loop maps to
  `PlantEnds`, a controller that dies or is interrupted in a callback to
  `Forget`. TLC checked `CInv` first, with two commands and a signal (3,525,857
  states) and with three commands and none (2,743,469).

*Liveness.* `RunIsEnded` proves `RunEnds`. `Progress` numbers the stretches of
`run_experiment`: four for the start, one for the loop, two after it, and two for
each worker that `_stop_processes` has still to wait for. Nobody leads back
(`SupervisorGoesOn`). Every step of the supervisor leads on except in the loop,
and that is left by `TimesOut` if by nothing else: a look that finds no other
reason to leave is one at which the deadline may have passed, and strong fairness
says that at some look it has. The hypothesis `GuardsSuffice` is that what the guards
allow can be done; TLC finds `MayGoOn` and `Overdue` to be the same as `ENABLED`
of `SupervisorNext` and of `TimesOut` on all 243,903 states of `static_run_ends`.

## 6. Programs that move the joints

### 6.1 Modules and code

| module | code |
|---|---|
| `MotionStops` | `motor_stop_latch.py`, the latch of `attended_positioning.py`, and the mark `SinglePoseCommissioning.consume` leaves |
| `DriveLink` | `JointTableDevice` (`read_cycle`, `send`, in `joint_table_runtime.py`) over `DrEmpowerSerial`: one joint after the other, a call that returns, or raises with the drive told or not |
| `TableExecutor` | `JointTableExecutor` (`joint_table_execution.py`) and `PositioningOperator` (`joint_positioning.py`) |
| `JointTable` | `run_joint_table` with its handler `hold_and_observe`, for attended positioning and for commissioning, and the move of a single joint of `motor_cli.py`; the properties |

Each program is a process: the port is opened by one at a time, the files are
shared by all, the order of their steps is free. Files outlive the programs.

What is abstracted, and what is left out:

- `require_hardware_qualification` (`joint_table.py` lines 28-33) always raises,
  so the ordinary mode of the table and its measurements cannot be reached. What
  can be reached is attended positioning, the commissioning of one pose and the
  move of one joint, and all three are modelled.
- A drive stands at the goal it was told or does not (`still`), and may be
  pushed or sag at any time. A reading counts only whether it found the drive
  standing at its goal; `seen` is how often in a row, up to two.
- Limits, monitors, time limits, clocks, a full disk and Ctrl+C are `Raises`: any
  step of the try block may raise. What is checked before a request is used, its
  scope, age and signature, is `TurnedAway`.
- A stop is named by the program that latched it, which stands for the SHA-256
  the code compares. A request is named by the stop it was written for and a
  number, since several may be written for one stop, and its mark by the request.
- The lines at the terminal are what was typed, with the prompt that was on the
  screen then. The modelled keys are Enter, `r`, `q` and anything else.
- What a program had in memory is reset when it ends.

### 6.2 What is promised

| property | promise |
|---|---|
| `ReportIsTrue` | `docs/single_joint_execution.md` lines 104 and 107: `hold_observed` only for drives that were told to hold and then found standing, `no_motion_command_attempted` only if no drive got a command |
| `ArrivalIsWhole` | `JointTableExecutor.observe`: a group has arrived when every drive got its command and two readings in a row, all after the last command, found it at the goal |
| `BeginsByLine` | `docs/joint_positioning.md` line 53: what is typed before the prompt, or while the arm moves, books no motion |
| `MovesUnderReview` | `docs/calibration_joint_table.md` line 46: a request is bound to one latched stop and used once, so of two programs that were given the same request one at most gets past its mark; and `docs/joint_positioning.md` line 37 |
| `EndsAreLatched` | `docs/joint_positioning.md` line 37: an abnormal end of an attended session is latched; and a stop that commissioning cleared is latched again whatever ends it |

`EndsAreLatched` excepts a program that was killed, or that got Ctrl+C inside its
own handler: nobody is left to latch. `MovesUnderReview` says nothing of a single
joint: `docs/single_joint_execution.md` line 15 promises a check before the port
is opened, and the code makes none later.

### 6.3 Run and bounds

`joint_table`: two programs of any kind, started one after or beside the other,
two joints, a table of two rows, two lines that wait, two requests for each stop;
a stop may have been latched before. 1,107,664 states, depth 98. Two programs are
what it takes for one to latch or clear a stop under the other; two requests, for
them to share one or to hold one each for the same stop; two joints, for a group
that is sent in part; two rows, for Enter after the first and after the last; two lines, for one
typed before a prompt and one after it. Programs are interchangeable
(`MCJointTable`, `SYMMETRY`), which is sound as nothing orders them and no
property of progress is stated. All programs end: `CHECK_DEADLOCK FALSE`.

### 6.4 Proofs

`JointTableProofs` proves every property of the run for every number of programs,
joints, rows, requests and lines that wait, from assumptions on the constants
alone: the joints are finitely many numbers, there is a row, a request may be
written, and no program is called `absent`, `first` or `nobody`.

- `PortInv`: the port is open for a program exactly while that is in the middle
  of its work, and while it is open for nobody, nobody knows anything of the arm.
  Four kinds of step follow (`Kinds`): away from the port, to it, with it, from
  it; and while one program has it, the others only take steps of the first kind
  (`Alone`). So a step that uses the arm has to be looked at for its own program
  only.
- `PlaceInv`: which program gets to which place of the code, and that nothing is
  reported before the loop has ended.
- `StopInv`, of six parts. `NamedInv`: a stop that is there was latched by a
  program that is over, or is about to give the port back, so the stop a
  commissioning clears is not about to be latched again by the same hand.
  `ClearedInv`: what a commissioning has done to the request and the stop at each
  place. `OnceInv`: no two programs are past the mark of one request, since who
  passes it finds it unmarked. These two and `SendingInv` give `MovesAreReviewed`;
  `RelatchInv` and `LatchedInv` give `EndsLatch`. `SendingInv` holds for an attended
  session only because what another program may do to `stop.json` meanwhile is latch
  it, and a latched stop stays what it was.
- `TypedInv`: the lines that wait were typed after the latest prompt. With what
  `_begin_prompt` drops, that is `LinesBegin`.
- `ArmInv`, of five parts, for whoever has the port: how far a loop over the
  joints has come (`PassInv`), the phase at each place (`PhaseInv`), what the
  drives were told (`GoalInv`), what readings in a row have found since
  (`SeenInv`), and what is reported (`ToldInv`). The heart is `SeenInv`: `settled`
  means one reading at least of each drive, a second whole cycle makes it two, and
  the loop over the joints is where the two states meet. It gives
  `ReportsAreTrue` and `ArrivalsAreWhole`.


## 7. From the plan to the tracking

### 7.1 Modules and code

| module | code |
|---|---|
| `OscbfPlant` | `oscbf_plant.py`: the command callback, the step, the randomize service |
| `TrackingRun` | `tracking_run.py` and its node: `Start`, `Step`, `Hold`, `HoldAgain`, `Close`, `Exit`; `tracking_report_writer.py` file by file: `ReplaceFile`, `WriteFails` |
| `TransitionLoop` | `AutoPlanLoop.tick` and the planning service, `execute_plan` of `transition_executor.py`, settling, notification and randomization of `transition_planning_server.py` |
| `Handover` | the three processes together, the services they call, crashes, and the properties |

The configuration is the one of the runtime files: the transition is replayed
(`joint_state_replay`), the controller is notified and waits for its start. Timer
and service of the server run in threads of their own, which the two locks of
`transition_executor.py` keep apart; plant and controller are processes that run
one callback at a time.

What is abstracted:

- A pose is the goal of a plan, or any other. The plant leaves a pose with the
  first step after a new target (2 ms) and reaches the target some time later.
- Commands are best effort; the newest on its way stands for those a queue
  may hold, since it is the one the plant follows in the end.
- The state topic keeps one message: a state of the plant pushes out what the
  replay has left there. `Leftover` messages of the replay may be read after it is
  over, and `Needed` readings in a row at the goal fill the half second. In the
  code at most two messages are left and at least five readings are needed, as a
  gap of 100 ms starts the half second anew; the model asks only that
  `Leftover < Needed`, and the run has 2 and 3.
- Planning is one step that may fail. An exception (`Fail`) may end an execution
  anywhere, also when the request to start the tracking is already on its way.
  Releasing the lock and the loop's judgement of the result are one step.
- A call that is not answered in time is forgotten by the client and may be
  served all the same; requests to a controller that ends are lost.
- A controller may crash at any point, also between the replacement of two
  files. Interrupts fall between callbacks.
- The JIT warm-up, the performance report and the joint states for the
  controller are left out.

### 7.2 What is promised

| property | promise |
|---|---|
| `TracksFromTheGoal` | `docs/tracking_execution.md` line 47: the controller is told to start when new feedback has been at the goal for half a second. It begins to track there, unless a randomize call or a run of the controller moved the plant since |
| `AttemptsAreItsOwn` | lines 39 and 43: one execution at a time, and `PLANNING_ALREADY_RUNNING` restores the count: the loop gives up after as many failures of its own as it may have, and no other |
| `ReportsAreWhole` | `tracking_report_writer.py` lines 11-12: the summary goes last, so one that names the samples on disk is of the run the report beside it is of, wherever a controller died; and a controller that ended by itself has written its report or failed to |

Two things the model shows are promised by nobody: a randomize call that timed
out may be served while the next attempt settles or tracks, and a start that
timed out may be served when the server has gone on. `TracksFromTheGoal` says
what holds all the same.

### 7.3 Run and bounds

`handover`: two callbacks of the timer, one of the service, two plans, two
starts of the controller, two attempts: 2,271,137 states, depth 53. Two callbacks of
the timer are what it takes for one to find the other at work; a second plan,
for a start to arrive after the goal has changed; a second run, for files of two
runs on disk. There are no fairness assumptions. Plans and runs are bounded:
`CHECK_DEADLOCK FALSE`.

### 7.4 Proofs

`HandoverProofs` proves the properties of the run for every number of callbacks,
plans, starts and attempts, from the assumption `Leftover < Needed`.

- `ReportInv`: `TrackingTypeOK` with `Ended` and `Replaced`, the files a report
  has replaced and those it has yet to. Nobody else writes them, so
  `ReportsAreWhole` needs nothing of the server.
- `HandoverInv`: `Placed` (one callback of the timer at work, one execution),
  `Counting` (the count against the history of failures, at each place of the
  callback), and `Settling`. The last is the heart of `TracksFromTheGoal`: while
  the server settles, leftovers alone never fill the half second, so one reading
  of the plant is among those that do; a plant that stands at a goal has it for its
  target and stays there until another command comes; and while the server
  still holds the lock, the commands on their way are for this goal or set `moved`.

## 8. What is not shown

- Liveness is proved from fairness and from a hypothesis on `ENABLED`, which the
  provers cannot expand (`CallsProceed`, `GuardsSuffice`): that an action can be
  taken when its guards hold. That they are the same is checked by TLC, on the
  instances named in sections 3.5 and 5.4. That a word comes to rest (`Resting`)
  is a hypothesis as well.
- No property of progress is stated for the static loop, the joint table and the
  hand-over, whose messages, drives and services may all fail for ever.
- The bytes: encodings, CRC, SQLite and JSON formats are data.
- The proofs of the scene transport assume what section 3.5 names: no pid reuse,
  no damage to memory, no interrupt in the gap, each only for the theorem that
  needs it.
- Components marked "not modelled" in section 1 and in `PROJECT.json`; hazards
  without a property carry the reason there.

## 9. Running it

    tlc -workers 2 -config scene_slots.cfg SharedScene
    tlc -workers 2 -config scene_follow.cfg SceneWordProofs
    tlc -workers 2 -config static_loop.cfg StaticLoop
    tlc -workers 2 -config static_run.cfg StaticRun
    tlc -workers 2 -config joint_table.cfg MCJointTable
    tlc -workers 2 -config handover.cfg Handover
    tlapm SharedSceneProofs.tla
    tlapm JointTableProofs.tla

`PROJECT.json` names the module and the configuration of every run, and for
each property a change to one definition that makes TLC report it.
