# Asynchronous inference, distributed learning and recording, modelled and checked

This directory holds TLA+ specifications of the concurrent parts of this
repository, the TLC configurations that check them, and TLAPS proofs:

* **asynchronous inference** (`async_inference/`): a robot or simulator client
  executes *chunks* of actions that a remote policy server computes from
  observations; inference takes longer than a control step, so both sides work
  concurrently and what can go wrong is a matter of order. The *smart* client adds a
  gripper monitor, retries and a third thread;
* **distributed reinforcement learning** (`rl/`): an actor and a learner joined by
  three streams, a replay buffer, checkpoints to resume from;
* **recording of datasets** (`scripts/lerobot_record.py`, `datasets/`): a loop with
  operator keys, writer and encoder threads, files that later sessions append to.

Paths below are relative to `src/lerobot/` unless they start with `docs/`.

## 1. Inventory

### 1.1 Client: `async_inference/base_client.py`, `robot_client.py`, `sim_test/sim_client.py`

*State.* `action_queue` (under `action_queue_lock`), `latest_action` (under
`latest_action_lock`), `action_chunk_size`, `_orig_buf` (policy-space actions by
timestep, for the RTC leftover), the `must_go` event, `_action_generation`,
`_queue_empty_steps`, `_next_obs_is_episode_start`, latency trackers,
`shutdown_event`.

*Operations.* The **control thread** runs `control_loop` / `run_episode`: it pops
and executes an action (`control_loop_action`), and when the queue is low sends an
observation (`control_loop_observation`); between simulated episodes it calls
`_reset_loop_state`. The **receiver thread** runs `receive_actions`: it polls
`GetActions`, discards chunks of an older generation, fills `_orig_buf`, merges
the chunk (`_aggregate_action_queues`) and re-arms `must_go`.

*Hard behaviour.* The threads share eight pieces of state under two locks, never
held together: the sample of `latest_action`, the swap of the queue, the dequeue
and the commit of `latest_action` interleave freely. A reset is seven separate
writes. Calls block, fail, or are re-issued by gRPC.

*Correct means.* Actions of an episode are executed in order, none skipped, none
twice; the queue never mixes two chunks; a chunk of an old episode never drives
the new one; an empty queue is always refilled.

### 1.2 Policy server: `async_inference/policy_server.py`

*State.* The one-place `observation_queue`, `_predicted_timesteps` and
`_episode_generation` (one lock), `last_processed_obs`,
`_inference_failure_count`, `_policy_broken`, `shutdown_event`.

*Operations.* `SendObservations` (clear on `must_go`, filter, evict, put),
`GetActions` (dequeue, snapshot the generation, infer, record the timestep,
answer), `Ready` (`_reset_server`), `SendPolicyInstructions` (load the policy).
Each runs on a thread of the gRPC pool (16 workers), so two calls of one kind can
overlap: gRPC re-issues a broken call while the first handler still runs.

*Correct means.* The newest accepted observation is the one inferred;
`must_go` is never filtered; a timestep is never held back on account of another
episode; no handler blocks for good.

### 1.3 Transport: `transport/utils.py`

Chunked byte streams with BEGIN/MIDDLE/END states, put together in a buffer of the
receiving call: a message of one chunk is a lone END, which does not reset the buffer as
a BEGIN does. The channel's retry policy (`UNAVAILABLE`, `DEADLINE_EXCEEDED`, five
attempts).

### 1.4 Smart robot client: `async_inference/smart_robot_client.py`

*State.* The parent's, and: `GripperStateMonitor` with a dozen flags and debounce
counters; `_trajectory` and the phase it is of, `_warmup_remaining`; the queue and
thread of `_BackgroundObsSender`.

*Operations.* The monitor watches the gripper and asks for lift, rewind, recovery,
re-inference or stop. `_force_reinference` bumps the generation and drains queue and
buffer. A retry then plays a trajectory, during which a background thread sends
`skip_inference` observations, drains that thread, sends warmup observations, and
arms `must_go`.

*Hard behaviour.* Retries race with the receiver and with what the server still
infers; the drain of the sender gives up after a timeout; a ladder of retries whose
counters are reset by its own recovery; flags that outlive the branch that set them.

*Correct means.* A cycle is counted as done only when an object was held and the arm
rests at home; nothing of one attempt counts for the next, in the monitor or in the
queue; failures without progress end in STOP; a verdict needs the readings its
debounce asks for; after a retry the policy gets control again.

### 1.5 Distributed RL: `rl/actor.py`, `learner.py`, `learner_service.py`, `queue.py`, `process.py`

*State.* Three queues on each side (transitions, interactions, parameters), a
shutdown event per process; the actor's list of the episode's transitions; the
learner's buffer, optimization step, interaction shift and the message processed
last; on disk the checkpoints, the link `last`, and the buffer's dataset.

*Operations.* `act_with_policy` steps the environment, and at an episode's end
loads the newest parameters and queues transitions and statistics. Three threads a
side feed and drain streaming calls. `add_actor_information_and_train` processes what
arrived, trains, pushes parameters, saves; `resume=true` reads a checkpoint back.

*Hard behaviour.* Every thread waits on a queue or a stream that another must feed;
queues are closed under threads that use them; stale parameters are dropped on
purpose (`get_last_item_from_queue`); a checkpoint is several files written in turn.

*Correct means.* Transitions arrive in order, once, whole; the newest parameters are
never the ones dropped; a signal ends all threads; a resumed learner continues.

### 1.6 Replay buffer: `rl/buffer.py`

A ring without stored next states (`optimize_memory`): `add`, `sample`,
`to_lerobot_dataset`, `from_lerobot_dataset`. *Correct means:* it holds the newest
transitions in order, across its wrap and a restart, and a sample's next state is
the transition's own wherever the code can know it.

### 1.7 Recording: `scripts/lerobot_record.py`, `datasets/dataset_writer.py`, `lerobot_dataset.py`, `dataset_metadata.py`, `image_writer.py`, `video_utils.py`

*State.* The event flags `exit_early`, `rerecord_episode`, `stop_recording` (set by the
keyboard listener's thread); the episode buffer; queues of image writer and encoder
threads; open parquet writers and the metadata buffer; on disk `info.json` and the
files of `data/`, `meta/episodes/`, `videos/` and the temporary images.

*Operations.* `record_loop` adds frames; `save_episode` writes rows, video, metadata
and info in turn; `clear_episode_buffer` discards a take; `finalize` flushes;
`resume` continues the dataset in new files.

*Hard behaviour.* Images are written by other threads than the one that encodes them;
frames are dropped when an encoder falls behind; a failure between two writes; keys
pressed at any moment; positions of an episode are known only through its record.

*Correct means.* What is saved reads back as it was recorded, picture by picture; an
earlier session's files are never touched; a save ends.

### 1.8 The rest

Multi-candidate and attention servers subclass 1.2 and score candidates
numerically. `policies/rtc/action_queue.py` is a second action queue, of an in-process
actor; `async_libero_inference/it_rtc/gripper_sm.py` is a sequential copy of the
monitor. `configs.py`, `helpers.py` hold data classes; motors, cameras, robots,
teleoperators, processors, policies, environments, the other command line scripts,
analysis and shell scripts are hardware, numerics or launch code. `PROJECT.json` lists
them, and section 6 says why they are not modelled.

## 2. Modules

| module | models | state |
|---|---|---|
| `AsyncClient` | client: both threads, for `RobotClient` and `SimRobotClient` | what the threads share, their program counters and locals, the two calls |
| `PolicyService` | the server's promise to one client: an abstract specification | the observation waiting, the one under inference, the fate of the one being sent, the inferences failed in a row |
| `AsyncInference` | `AsyncClient` composed with `PolicyService`; the client's properties | both, and the history variable `raced` |
| `SmartClient` | the smart client's loop with its retries and background senders, extending `AsyncClient`, composed with `PolicyService` | both, mode, steps due, senders |
| `MCSmartClient` | warmup lengths for TLC; a claim of a comment | |
| `PolicyServer` | handlers of the server, threads of the pool; refines `PolicyService` | the server's fields, a program counter per thread |
| `MCPolicyServer` | symmetry of the threads | |
| `GripperMonitor` | `GripperStateMonitor` and the handling of its decisions | the monitor's fields, the retry ladder, where the loop is |
| `ReplayBuffer` | the ring, sampling, the way to a dataset and back, as operators | |
| `ActorLearner` | actor, learner, three streams, checkpoints and restarts | queues, wires and calls per stream; both programs; what is on disk |
| `ByteStream` | cutting messages into chunks and putting them together, as operators | |
| `MCActorLearner` | `ActorLearner` with `ByteStream`; a claim of a comment | |
| `Recording` | the loop of `lerobot_record`, the dataset writer, its threads, its files | files, writer, loop, keys |

    AsyncClient ─┬─ extended by ── AsyncInference ─┐
                 └─ extended by ── SmartClient ────┤ INSTANCE
                                        │          ▼
                                 MCSmartClient   PolicyService ◄── refined by ── PolicyServer ── MCPolicyServer

    ReplayBuffer ── extended by ── ActorLearner ─┬─ extended by ── MCActorLearner
                                   ByteStream ───┘
    GripperMonitor                 Recording

Theorems are in `AsyncClientProofs` (what `AsyncInferenceProofs` and
`SmartClientProofs` share), `GripperMonitorProofs`, `PolicyServerProofs`,
`ActorLearnerProofs` (with the ring and the chunks) and `RecordingProofs`; the last two
share `FlattenProofs`. Definitions marked `mutant` are
plausible mistakes; nothing but the mutant runs of `PROJECT.json` uses them.

### State and actions against the code

A step is what a thread does under one lock, or between two accesses of shared
state. `pcC` and `pcR` are where the client's control and receiver thread are.

* The **queue** is a set of actions `[ts, ep, obs]`: its timestep, and the episode
  and timestep of the observation its chunk answers. `queue.Queue` dequeues in
  insertion order and the merge inserts in timestep order, so the head is the
  least timestep. `ep` and `obs` are not in the code: they are what the properties
  tell apart.
* `control_loop_action` is two steps, `PopAction` (dequeue and `_orig_buf.pop` under
  `action_queue_lock`, then execution) and `CommitLatest` (`latest_action`
  under its own lock). `get_nowait` on an empty queue is `PopFromEmpty`.
* `control_loop_observation` is four steps: the leftover under the lock, the
  emptiness under the lock again, flags and the beginning of the call, and the end of
  the call with `must_go.clear()`. A simulated episode begins with
  `_send_initial_obs` (`SendInitialObs`), which ends the same way and also consumes
  the start flag.
* `_reset_loop_state` is one step for each field the receiver reads.
* `receive_actions` is `PollActions`, one of `ReceiveEmpty`, `ReceiveError`,
  `DiscardStale`, `KeepChunk`, then `SetChunkSize` (under no lock), `FillOrigBuf`,
  `ReadLatest`, `SwapQueue`, `RearmMustGo`.
* Both calls are records (`up`, `down`) with a status; while a call is `req` or
  `call`, only the service moves it.

`SmartClient` keeps all of that and replaces the head of the loop. `mode` says whether
the policy, a trajectory or a warmup drives. What a branch of the loop does without
interruption, but on state that other threads share, is a list `todo` of
steps, each an action: `_force_reinference` is bump, drain, forget, arm
(`BumpGeneration`, `DrainQueue`, `ForgetOriginals`, `Arm`); the end of a trajectory is
sentinel, join, bump, drain in the order of its kind. `_BackgroundObsSender` has one
queue, `_q` (`frames` and the `sentinel` behind them), which `start` replaces
(`StartTrajectory`) and which `_loop` reads anew each round: a drain that times out
(`Join` while the sender is alive) leaves a thread that reads, from then on, the queue of
its successor, a frame or the sentinel of it included (`TakeFrame`, `TakeSentinel`).

`PolicyService` keeps the count that `GetActions` keeps: `MaxFailures` inferences failed
in a row, and the policy is `broken` for good; a success sets the count to 0. A handler
whose call was given up can do either (`HiddenFault`, `ForgottenEnds`).

In `PolicyServer` a handler's steps are its lock sections and its accesses to the queue:
`TestFull`, `Evict`, `PutObs` are three, as in `_enqueue_observation`. A sender or
getter thread that the client no longer waits for (`upBy`, `downBy` name those it does
wait for) works on: that is a broken or re-issued call. `Ready` is four steps; a getter
blocked on the old queue becomes an `orphan` that times out, a sender blocked in `put`
on it may be `stuck` there for good, since nothing takes anything from that queue any
more (unless a getter that held it still does). `_episode_generation` is kept as in the
code: `Ready` sets it back to 0 and a getter compares for equality only. The similarity
filter is a nondeterministic rejection of any observation that is not `must_go` once
something was processed. Inference failures and broken calls are nondeterministic and
counted by `faults`.

In `GripperMonitor` an iteration of the smart client's loop is three steps: the scan
of the queue (`ScanQueue`, `ScanEmptyQueue`), `Update` with one action for each
exit of `update` (`LeaveGrip`, `GripAfterPlace`, `Slip`, `EmptyAfterFlip`,
`EmptyByLoad`, `GraspForms`, `NothingInTheWay`), and the handling of the decision
(`AtHome`, `NotAtHome`, `TaskDone`, `ReinferHere`, `ReturnHome`, `LiftOrRewind`,
...). The record `m` is what `reset()` resets; `failures`, `lifted` and `rewound`
are not in it because `reset()` leaves them alone. A trajectory with its settling and
warmup is one step (`HomeReached`, `PoseReached`): the loop `continue`s before the
scan, so the monitor sees none of it.

In `ActorLearner` the three streams are the same code on both sides, so `queue`, `wire`,
`out` and `call` are functions of the stream: what waits at the source, what crosses,
what waits at the sink, and whether the call is up. `Take` and `Receive` are an iteration
of the generator and of the loop that drains it; a generator that returns, a queue
closed under it, a loop that returns at the next message, a server that is gone and a
connection that breaks are actions. `Act` and `EndEpisode` are the actor's loop;
`Top` to `Write` are the learner's. `process_transitions` takes a list whole
(`TakeTransitions`: `list` is what is left of it) and adds its transitions one by one
(`AddTransition`), looking at no event before its end; a checkpoint is four steps
(`Unlink`, `Link`, `Clear`, `Write`). Any of these may be the last before `Resume`. A
transition is known
by its session, episode and step, and by how its step ended. `ver` is the optimization
step and `weights` how many of them the policy in hand went through: a resumed learner
continues the first, but pushes the policy that `make_policy` builds from the
checkpoint's configuration, which is a new one (`FreshStreams`, `Resume`; note 32).
`archived` remembers, beside the dataset, all that had ever been given when it was
written: a crash between two steps of a checkpoint may leave the link, the dataset and
the buffer at different moments, and `given` goes on from `archived`, not from what
`Resume` finds.

In `Recording` a file is the sequence of what is in it, and a frame is known by its take
and its place in it, so a property can say which picture is read back. `save_episode` is
a step for each thing it writes (`SaveRows`, `EncodeImages` or `FinishEpisode`,
`PlaceVideo`, `SaveMetadata`, `SaveInfo`, `NewBuffer`); `EncodeImages` takes all images
found under the episode's number in the order of their frame numbers, a gap or a
leftover included. `write_image` swallows an exception: `WriteImage` may leave no image,
which saving notices only if the image is among those it takes statistics of
(`MissesImage`). An encoder thread takes a frame from its queue and encodes it in two
steps (`TakeFrame`, `EncodeFrame`), so the queue may fill up behind the frame on which
the thread fails (`EncoderFails`). `lost` remembers the frames dropped at a full queue
and those whose image was not written. `Interrupted` may come
between any two, and `Resume` starts the next session from the files alone.

### What is abstracted

* RTC is taken as enabled with `latest_only` aggregation, the configuration it
  requires (the code raises an error otherwise), so the merge keeps
  the incoming actions after `latest_action` and drops the rest of the old queue.
* `interpolation_multiplier` is 1: with more, a control step may execute a sub-step
  and leave the queue alone.
* `_inference_failure_count += 1` is one step, as it is under CPython's interpreter
  lock in practice. What the receiver's catch-all `except` handles (a chunk that does
  not decode) is not modelled.
* Tensors, JPEG, pickle, timing records, logging, latency estimation.
* `EpisodeOver` (`latest >= MaxTs`) stands for the operator who stops the
  robot, or `max_steps` of an episode; a simulated episode may also end after any
  action (`done`). `CutOff` stands for the former in the smart client.
* Gripper positions are a few integers and the load register is a magnitude with a
  sign; the ratio of the slip test is a fraction. The queue's window is its first
  command and the set of the others, all that `scan_intended_phase` tells apart.
  What is commanded, what the motor reports (a failed read, which the code turns
  into zeros, included) and whether the arm is at home are free choices in every
  iteration. `_grasp_success_steps` is capped at its threshold.
* `GripperMonitor` leaves the client's queue and threads out, `SmartClient` leaves the
  monitor out: there it may decide anything in `Decisions`. A background sender's
  observations carry `skip_inference`, on which the handler returns without a
  change, so the service does not see them. Kinematics and the shape of a trajectory
  are left out, but that none may be found is a decision (`"unbuilt"`).
* In `ActorLearner` an optimization step is a version number, sampling is the set of
  slots that may be drawn, and whether parameters are due for a push is free. The
  threads of a side share its shutdown event, as they do with the default
  `ConcurrencyConfig`; the second, offline buffer is left out.
* In `Recording` there is one camera; statistics and tasks are left out; whether a file is
  full is free, and a file's name is its number.

## 3. Properties and runs

| run | module / cfg | checks | bounds |
|---|---|---|---|
| `robot` | `AsyncInference` / `Robot` | `TypeOK`, `QueueIsChunkSuffix`, `EmptyNeedsRace`, `NoSkippedStep`, `ReplayNeedsRace`, `LeftoverIsQueue`, `StallEnds` | 1 episode, chunks of 2, timesteps to 2, 2 faults, broken after 2 |
| `sim` | `AsyncInference` / `Sim` | `QueueIsChunkSuffix`, `NoSkippedStep`, `ReplayNeedsRace` | 2 episodes, chunks of 2, 2 faults |
| `server` | `MCPolicyServer` / `Server` | `TypeOK`, `RefinesService` | 1 sender, 2 getters, 2 faults |
| `sessions` | `MCPolicyServer` / `Sessions` | `SendReturns`, `StuckNeedsReissue`, `OldInferenceAddsNothing` | 2 senders, 1 getter, 2 episodes, 2 sessions, 1 fault |
| `gripper` | `GripperMonitor` / `Gripper` | `TypeOK`, `RetriesBounded`, `DoneAfterGrasp`, `HomeIsSteady`, `FailureIsSeen` | 4 positions, loads 0, 2, 4, debounces of 2, `MaxTotal` 1 |
| `smart` | `MCSmartClient` / `Smart` | `TypeOK`, `SendsAlone`, `FreshAfterRetry` | 1 retry of any kind, trajectory of 1, warmup of 1 after a recovery, sender queue of 1 |
| `retries` | `MCSmartClient` / `Retries` | `RetryEnds` | as `smart`, lift and rewind only |
| `learning` | `MCActorLearner` / `Learning` | `BothEnd` | 1 step, 1 broken stream, 2 signals |
| `resume` | `MCActorLearner` / `Resume` | `TypeOK`, `NoTornMessage`, `TransitionsInOrder`, `NewestSurvives`, `WrongOnlyAtSeams`, `KeepsNewest` | 2 sessions of 2 steps, capacity 2, 2 optimization steps |
| `record` | `Recording` / `Record` | `TypeOK`, `ReadsBack`, `LongerOnlyAfterDiscard`, `KeepsEarlier`, `SaveEnds` | 3 sessions of up to 2 episodes, 3 takes of up to 3 frames, 1 key, 1 fault, 1 lost frame |
| `warmup` | `MCSmartClient` / `Warmup` | `WarmupFirst`, violated | as `smart` |
| `checkpoint` | `MCActorLearner` / `Checkpoint` | `SavesCurrentStep`, violated | as `resume` |

### Client and server

*`QueueIsChunkSuffix`*: the queue is what is left of one chunk, with no hole, whatever
the threads do. *`NoSkippedStep`*: what is executed from a chunk of the episode is at
most one past the highest timestep executed. *`ReplayNeedsRace`*: a timestep repeats
only after a merge overlapped an uncommitted pop or a reset (the history variable
`raced`); that it does repeat then is note 1 of section 4. *`LeftoverIsQueue`*: but for
such a race, the leftover sent is the whole queue, so the tensor stacked from
`_orig_buf` closes no gap. *`EmptyNeedsRace`*: the test of `actions_available` and the
`get_nowait()` are separate, and `queue.Empty` ends the control loop if a merge leaves
nothing in between; in a single episode that takes the same race first (note 31 of
section 4). *`StallEnds`*: an empty queue is refilled, or the run ends, unless the
policy counts as broken, which takes `MaxFailures` failed inferences with no success
between (two lost calls, or a lost call and a failed inference, are not excused); it
depends on `_force_must_go`, which its mutant removes.

*`RefinesService`*: the interleavings of the handlers are invisible to a client, but
for a call that fails because the eviction was overtaken. *`SendReturns`*: neither
eviction nor put blocks for good, neither a `SendObservations` call the client waits for
nor a thread that runs one for nobody. Excepted are a broken policy and the thread that
`Ready` leaves `stuck` on the queue it replaces; *`StuckNeedsReissue`* says when that
happens: only after a call was issued again while the first was at work, or,
from the third client on, if an earlier one left a thread at work. *`OldInferenceAddsNothing`*:
an inference whose snapshot of the generation was overtaken by the start of an episode
adds no predicted timestep, so no observation of the new episode is filtered on its
account. It speaks of one session: `Ready` empties `overtaken` (note 6 of section 4).

### Smart client

*`RetriesBounded`*: the failures counted since the last grasp or completed return home
never exceed `MaxTotal` and one more for each rung that comes before STOP; it depends on
both attempt flags, which outlive `reset()`. *`DoneAfterGrasp`*: a task is counted as
done only if enough readings since the last re-inference found an object in the way of
the jaws (the history variable `blocked`), so neither `_place_occurred` nor a success
counter is carried into a new attempt. *`FailureIsSeen`*: a grasp is declared failed
only on `confirm_n` readings of this closing of the gripper: of closed jaws for the
empty grasp behind a latched flip (the history variable `empties`), of a weak load,
absolutely or against the peak, for a slip and for the empty grasp of the load test
(`weaks`). So a count left over from an earlier closing never counts for this one. These
two share `_anomaly_steps`, so their readings may be of both kinds, and none of the
counts is of readings in a row (notes 7 and 15). *`HomeIsSteady`*: the home confirmation
is of iterations in a row although nothing resets the counter when home is not polled,
and two branches count it: after a place every iteration polls.

*`FreshAfterRetry`*: what the robot executes was computed from an observation of the
current generation; nothing of the failed attempt survives the four steps of
`_force_reinference`, of which any may interleave with a merge. The exception, `late`,
is exact: when the generation was bumped the receiver was past its generation check, or
the service still had an observation queued, whose answer carries the new generation.
*`SendsAlone`*: while the control loop sends, no background sender does, nor will one
find anything to send, unless a drain gave up. *`RetryEnds`*: after a retry the policy
is in control again with actions in the queue, although the sender may never get on and
its drain times out; in this mode nothing else re-arms `must_go`.

### Actor, learner, buffer

*`NoTornMessage`*: cut into one, two or three chunks each, the lists of transitions in
transit are put together whole and in order wherever the stream breaks off: what
`Received` computes from the first *n* chunks is a beginning of the messages and the
pieces of the next one. An END does not write over what is buffered, as a BEGIN does, so
a buffer that is not emptied spoils the next message of one chunk (the mutant).
*`TransitionsInOrder`*: as long as its stream is up, what the actor acted is exactly
what the learner processed, then what waits there, crosses, waits at the actor, and the
episode's list, in this order; afterwards the learner has a prefix. *`NewestSurvives`*:
two drains down to the newest item (learner's generator, actor's load) never drop the
newest push. *`KeepsNewest`*: the ring reads out what it was given last, in order,
across its wrap and a restart: after a restart, the last of all that every session had
given it by the time the dataset was written (`archived`); a dataset that is written
short, as its mutant does, or a reload out of order breaks it. *`WrongOnlyAtSeams`*: the
state that a sample reads from the following slot is the transition's own, except at an
episode's end, before a transition left out for a NaN, and at the newest slot of a full
ring; a slot never written is never read. *`BothEnd`*: when both sides are told to stop,
each at any moment and with a stream that may have broken, every thread ends and is
joined.

### Recording

*`ReadsBack`*: at the end of every session, whatever failed in it, each record's rows
stand together in its data file, with its number, in order (`HasRows`), and its part of
the video shows its frames in order (`Shows`): all of them but those `lost`, and nothing
else but leftovers of a take discarded under the same number. So a video cut short is
excused frame by frame, by a drop or a failed write of that very frame. Without a fault
the counters agree with the files, and where they agree the rows are at the positions
the record says. It is violated when encoding does not wait for the image writer (its
mutant). *`LongerOnlyAfterDiscard`*: a video longer than its episode comes from
a take that was discarded under the same number, never from one that was
interrupted. *`KeepsEarlier`*: no file that holds an episode of an earlier session is
written to. *`SaveEnds`*: a save ends, unless an encoder died with a full queue.

### Bounds, and why they are enough

Chunks of two actions are the smallest with a front and a tail to lose; a chunk computed
at timestep *t* overlaps the queue's rest and its successor. With three timesteps three
chunks can answer observations of the same one, which the case of `EmptyNeedsRace`
takes; the five safety properties of `robot` beside the types are proved for every
length. Two episodes suffice for every stale message: the code only compares
generations for equality. Two faults let a lost call coincide with a failed
inference, which excuses nothing; with `MaxFailures = 2` two failed inferences in a row
break the policy. `ForceAfter = 2`
and `MaxErrors = 2` stand for 10 and 5: both are counters compared with a
threshold. One sender is what one client uses, since its control thread waits for
each send; the second in `sessions` is a call re-issued by gRPC. Two getters are a
live call and a forgotten one.

The positions of `gripper` are below, at and above `PosEmpty`, and at `PosOpen`; with
loads below, at and above `LoadTh` every comparison of `update` goes both ways, and a
slip from the peak of 4 is possible at 0. Debounces of 2 are the least that can be
interrupted. `MaxReinfer = 0` and `MaxTotal = 1` let every rung be taken and STOP
follow; the counters are finite without a bound of the model's own.

`MaxEp = 4` lets a retry bump the generation as often as the longest kind does:
when the trajectory begins, when it ends and after the warmup. The runs have one
trajectory: nothing of a retry survives its end but a sender that was given up and,
with it, the queue they share. What an abandoned sender does to its successor needs
`MaxRetries = 2`, which is more than ten million states and out of a run's reach; the
theorem `LoopSendsAlone` covers it, being for every `MaxRetries`, and `RetryEnds`, which
assumes nothing of the senders, does not depend on it. A queue of one is full with one
observation waiting and one being sent. The
service needs no fault here: lost calls are `robot`'s, and the drain's timeout is
not one.

Two steps of the actor and a capacity of two give an episode of one step
and one of two, a ring that is empty, half full, full and wrapped, and a second
session that starts from a full ring and overwrites it. Two optimization steps make one
push replace another. `BothEnd` needs no more than one episode under way. Three
recording sessions are one that begins a dataset, one that resumes it and one that
must leave both alone; `MetaBuffer = 2` lets a session end with records in the
buffer and without. Three frames are the fewest with one in the middle, whose image may
be missing unnoticed, and the fewest that fill an encoder's queue of one behind the
frame in hand and drop one, or are dropped themselves (`MaxLost = 1`).

Deadlock is checked in every run but `gripper`, whose loop ends after STOP, and
`learning`, `resume` and `checkpoint`, where both sides end. The step `Terminated` of
the other modules is the end of their programs, or of what the bounds allow.

### Fairness

`AsyncInference` and `SmartClient` assume weak fairness for each thread (the operating
system schedules it), for the server's side of a send and of a poll (handlers run to
completion), and strong fairness for the dequeue: a `get` that waits while observations
come by gets one. Nothing obliges a fault to happen, and faults are bounded; nothing
obliges a background sender to get on, since its call may hang. One further assumption,
`<>[][~TimesOutInGap]_vars`, excludes that from some point on every poll times out in
the microseconds between an eviction and the put that follows it: `obs_queue_timeout` is
a second or more. `PolicyServer` assumes weak fairness for each thread, strong fairness
for `TakeObs`, and a client that keeps polling, as `receive_actions` does. For a sender
waiting in `put` it assumes strong fairness, as for a getter: `Condition.notify` wakes
waiters in turn. `SendReturns` excepts a broken policy: it dequeues nothing any more, so
a second sender may wait for ever.

`ActorLearner` assumes weak fairness for the actor's and the learner's loop and for
each stream, whose threads poll with timeouts; breaks and signals are free.
`Recording` assumes it for the steps of a save and for the encoder thread. In
`GripperMonitor` only safety is stated: whether the robot ever grasps is the
environment's doing.

### The refinement

`PolicyServer` implements `PolicyService` under a mapping of state functions: `held` is
the queue; `Busy` the observation of the getter the client waits for, once
dequeued; `Fate` is `"room"` while the sender is past its eviction, `"doomed"` once
the thing to evict was dequeued. An observation dequeued for a forgotten call counts as
a fault (the history variable `steals`), so the abstract bound is twice `MaxFaults`.
The mapping has one `Fate`, so the refinement is stated for one sender and one session.
The run checks it for two getters; section 5 proves it for any number.

## 4. Where comments and code disagree

Two runs must find a violation.

* `warmup`: the warmup after a recovery "*fills the policy server's context window with
  consistent home-state frames before the actual must_go inference fires*"
  (`smart_robot_client.py:2730-2736`), for which `must_go` is cleared while the
  trajectory runs. The receiver, discarding a chunk of the generation that the retry
  ended, sets it again (`base_client.py:477`), and a warmup frame demands the inference.
* `checkpoint`: "*Saves the current interaction step for resuming training*"
  (`rl/learner.py:691-694`). The message given is the one processed in the very
  iteration that saves, and `process_interaction_messages` starts from `None` (1188): if
  none had arrived since, step 0 is saved (713), and a resumed run counts from 0.

Seen while modelling, without a run of its own. In the clients and the server:

1. "*re-enter future_queue, and be executed a second time*"
   (`base_client.py:721-725`): a merge between dequeue and commit does just that.
2. `_reset_loop_state` claims stale chunks are discarded
   (`base_client.py:264-265`): the generation is compared once, before the merge, and
   an old observation still queued at the server is answered under the new generation.
3. After a discard the next observation must be `must_go`
   (`base_client.py:474-476`): the clear after a send can undo the set.
4. The start flag is consumed by the first *successful* observation
   (`base_client.py:167-168`): it is consumed before a send that may fail.
5. The generation guard against cross-episode pollution
   (`policy_server.py:106-109`): the snapshot comes after the dequeue.
6. "*Flushes server state when new client connects*"
   (`policy_server.py:138`): the generation restarts at 0, which an old getter may hold.
7. "*We require confirm_n consecutive steps*", reset "*via the else-branch*"
   (`smart_robot_client.py:565-569`): the else-branch is taken only when no flip is
   latched, so a reading above `_pos_empty` leaves the count alone.
8. `policy_server.py:521` ("*force-run inference for this obs*"): `get_nowait` at
   548 raises when a getter dequeued after `full()`, and a `must_go` observation is
   lost; the transition `EvictRaises`, part of the `server` run's refinement.
9. `policy_server.py:555` ("*never blocks as queue is non-full here*"): false with two
   sender threads; `PutObs` waits in the `sessions` run. A `Ready` that comes then
   replaces the queue (151), and the thread waits on the old one for good
   (`StuckNeedsReissue`): it is lost to the pool of 16.
10. `base_client.py:609`: `_aggregate_action_queues` does not clear `_orig_buf`.
11. `base_client.py:684`: the failures counted as "consecutive" are separated by
    successful empty polls; `_err` is reset only after a merge.
12. `base_client.py:155`: RTC does not switch aggregation "automatically"; it raises.
13. `smart_robot_client.py:685-689`: the ladder is said to start with REINFER; both kinds
    of failure there are go to RECOVERY at 723-726, so `_failure_decision` never
    returns REINFER and `max_reinfer_retries` (help at 888-896) changes nothing.
14. `smart_robot_client.py:899-907`: `max_total_retries` bounds failures in a row; a
    completed return home sets the count to 0 (2667), so STOP is reached only if
    returns fail.
15. `smart_robot_client.py:253-257`: `_anomaly_steps` is shared by the slip and the
    load test, and neither it nor `_grasp_success_steps` is consecutive: the
    branches above return without resetting them.
16. `smart_robot_client.py:2017-2041`: a failed bus read yields position and load 0,
    which is what a closed, empty gripper reads.
17. `policy_server.py:322`: the client "should detect the stall" of a broken policy; it
    keeps polling and sending.

In `rl/`:

18. `actor.py:461-510` with 200: the thread that receives parameters looks at the
    shutdown event when a message arrives. If the actor alone stops and the learner
    pushes nothing more, the join waits for ever; `BothEnd` is about both being told.
19. `actor.py:616-628`: with processes instead of threads the streams look at an event of
    their own process, which the end of the last step does not set.
20. The normal end of the actor closes its queues with transitions still queued: the last
    ones never reach the learner, which `TransitionsInOrder` allows (a prefix).
21. `learner.py:735-747`: a learner killed between the link's update and the end of the
    dataset leaves a checkpoint whose dataset is missing (`Resume` is not enabled then);
    killed before 741, one whose dataset is that of the checkpoint before.
22. The dataset has no column for truncation: after a restart a truncated episode's last
    transition looks as if the episode went on (`Stored`), and its next state is
    that of another episode. `buffer.py:106-107` ("*when next_state[i] = state[i+1]*")
    never says where that does not hold: `WrongOnlyAtSeams` does.
23. `learner_service.py:50`: a `StreamParameters` handler whose actor has gone still drains
    the queue and keeps its thread until it next yields; it can take one push.
24. `buffer.py:351-376`: a producer that fails sets the event, but the consumer
    waits in a `get` without a timeout.
25. `learner.py:1164` with `actor.py:333-337`: the learner looks for the
    intervention flag in `complementary_info`, where the actor does not put it.

In recording:

26. `video_utils.py:848`: `put(None)` into a bounded queue without a timeout: the encoder
    takes a frame, the queue fills behind it, encoding the frame fails, and
    `finish_episode` blocks for ever. The `record` run reaches this state, which
    `SaveEnds` excepts. `image_writer.py:105`: an image that could not be written is
    logged and missing in the video, or a discarded take's stands in for it.
27. `lerobot_record.py:514`: a key pressed while an episode is saved leaves `exit_early`
    set; the next episode ends before its first frame, `save_episode` refuses it, and
    the error ends the session (`RefuseEmpty`).
28. `dataset_writer.py:529`: discarding a take removes the images of `image_keys` only;
    those of a video stay, and a shorter second take is encoded with the rest of the
    first (`LongerOnlyAfterDiscard` says that nothing else makes a video longer).
29. `dataset_writer.py:264`: an exception between the rows and the record leaves rows
    that belong to no episode and shift the positions of those that follow, which
    is why `ReadsBack` demands agreeing counters before it looks at positions.
30. A session that fails before its first metadata file leaves a dataset that cannot be
    resumed; a killed process leaves parquet files without their footer.

And once more in the client:

31. `robot_client.py:458-459` with 376 (`base_client.py:1005` in simulation): after the
    race of note 1 the queue may hold only actions already executed. A further chunk for
    the same observation, merged between `actions_available()` and `get_nowait()`,
    then leaves nothing, and `queue.Empty`, which nothing catches, ends the control
    loop. In simulation a chunk of the last episode, merged after a reset, has the same
    effect, since it may be newer than the first chunk of the episode.

And once more in `rl/`:

32. `learner.py:311-320` with 861-872: a resumed learner builds its policy from the
    checkpoint's configuration; `pretrained_path` is `None` there unless the run was
    begun with one, so the actor is sent new parameters while the optimization step and
    the optimizers go on from the checkpoint.

## 5. Proofs

All theorems hold for every value of the constants that satisfies the assumptions named
in the modules (`ClientAssumption`, `FaultAssumption`, `SmartAssumption`,
`ServerAssumption`, `GripperAssumption`, `CapacityAssumption`, `LearningAssumption`,
`UnsetAssumption`, `RecordingAssumption`): numbers in range, sets not empty, a slot
never written no transition. Of the bounds only those are used that keep a counter in
its type.

`AsyncClientProofs` has what `AsyncInferenceProofs` and `SmartClientProofs` need of the
client's own steps: `ClientTypeInv` is kept by control and receiver.

`AsyncInferenceProofs`:

* `TypeCorrect`: `Spec => []TypeOK`. The inductive invariant adds what a
  program counter implies of the records (which sends are pending, that `gen` is
  below `MaxEp` where it will grow).
* `SuffixCorrect`: `Spec => []QueueIsChunkSuffix`, inductive with types: a merge
  builds a suffix of a chunk (`MergedIsSuffix`), a pop removes its least element.
* `ReplayOnlyByRace`: `Spec => ReplayNeedsRace`. While nothing raced, `latest` is
  exactly the highest timestep executed except between pop and commit, the
  receiver's sample equals it during a merge, and everything queued lies above
  (`Exact`).
* `NoStepSkipped`: `Spec => NoSkippedStep`. Each observation in flight (in the send,
  the server's queue, under inference, in the answer, in the receiver) is `Behind`:
  of no later episode, and if of this one at most one past the highest timestep; so
  is the queue's least action; between the new generation and the reset of
  `latest_action` all are of earlier episodes, which is why the order of the
  writes in `_reset_loop_state` matters.
* `EmptyOnlyByRace`: `MaxEp = 1` implies `Spec => []EmptyNeedsRace`. `InOrder`: on the way
  from the send through the service and the receiver to the queue, what is further
  along is never newer. A merge thus brings a chunk not older than the queue's, whose
  last action is above everything executed if the queue's is.
* `LeftoverComplete`: `Spec => LeftoverIsQueue`. `Covered`: `_orig_buf` has the timesteps
  of the queue and, between the fill and the swap, those the swap will bring; no
  queue is left when a reset clears the buffer.

`SmartClientProofs`:

* `TypeCorrect`. `todo` is always what is left of one of the plans (`Shape`); `LoopInv`
  says where the loop is while steps of each kind are due, and `RoomInv` how many
  generations may still begin.
* `LoopSendsAlone`: `Spec => []SendsAlone`. `AloneInv`: unless a drain gave up, the only
  sender that runs is the client's own (`mine`), and without one the queue is empty; by
  `LoopInv` the loop is not sending while it has one. It is for any number of
  trajectories and so of abandoned senders on the shared queue.
* `NothingStale`: `Spec => FreshAfterRetry`. `Fresh` says of each place an
  observation or chunk can be in (send, queue of the service, inference, answer,
  receiver past its check, action queue) that it is of the current generation, or will
  be discarded by the check, or emptied by a drain still due. The proof is where the
  exception `late` was found exact: it must name both the receiver and the service's
  queue.

`GripperMonitorProofs`:

* `TypeCorrect`: `Spec => []TypeOK`, inductive as it stands.
* `RetriesCorrect`: `Spec => []RetriesBounded`. The bound alone is not inductive: the
  failure that follows a count beyond `MaxTotal` must be known to be the last. The
  strengthening `LadderInv` ties the count to the attempt flags (each flag pays for
  one more failure) and to the decision under way: STOP follows the last one.
* `DoneOnlyAfterGrasp`: `Spec => DoneAfterGrasp`. `GraspInv` says that the success
  counter never exceeds the history's, that a confirmed hold or a place implies that
  the history is full, and that `task_done` is decided only after a place.
* `FailureOnlyIfSeen`: `Spec => FailureIsSeen`. `CountInv`: the debounce counters of the
  flip and of the load never exceed the readings of closed jaws and of a weak load since
  the gripper began to close; each exit of `update` keeps it, and a verdict needs a full
  counter.
* `DoneOnlyAtHome`: `Spec => HomeIsSteady`. `HomeInv`: the count of the code never exceeds
  the iterations in a row (`homeRun`), and while it is not zero a place has been seen, so
  that the decision being handled is one that polls home: no iteration passes
  without touching the count, although only two of the three branches do.

`PolicyServerProofs`:

* `TypeCorrect`. What makes it hard is `steals <= ...`: each observation taken for a
  broken call must be matched by a fault. The invariant counts the getters at
  work that nobody waits for (`Strays`) against the faults that made them so,
  with the library's theorems on finite sets.
* `OvertakenIsStopped`: `Spec => OldInferenceAddsNothing`. `OldSnapshot`: the snapshot
  of an overtaken getter is less than `_episode_generation`, so the comparison fails;
  it is kept because the generation only grows until `Ready` empties `overtaken`.
* `BlockedOnlyByReissue`: `Spec => []StuckNeedsReissue`. `AloneInv`: until a call is issued
  again, the first client has at most one thread at work, the one it waits for, whose put
  finds room; so the `Ready` that follows strands none.
* `ServerRefinesService`: under `OneClient(s)`, that is `Senders = {s}` and
  `MaxSessions = 1`, `Spec => RefinesService`, for any number of getters, episodes
  and faults. `MapInv` says which program counters go with which calls; the lemmas
  `SendMaps`, `GetMaps` and `StepMaps` give for each action the abstract action, or the
  stutter, that it is.

`FlattenProofs` is about `FlattenSeq` of the community modules: its value for the empty
sequence, its type, and what it does to `Append`, `\o`, `Head` and `Tail`. The operator
is a recursive function; since the library's induction theorems cannot be used here, each
fact goes by the least counterexample (`LeastElement`): a set of numbers that is not
empty has a least element, from which a smaller one is derived.

`ActorLearnerProofs`. The ring first, as operators: the place of the k-th oldest element
is computed modulo the capacity (`Below`, `Wraps`, `PlaceAfter`).

* `AddKeepsNewest`: a buffer that holds the newest of what it was given, in order, does
  so after `add`, for every capacity, size and position.
* `ReloadKeepsOrder`: so does a new buffer, and one read back from a dataset.
* `SamplesFollow`: a sampled slot and the one after it hold transitions given one after
  the other, but at the seam of a full ring.

Then the specification:

* `TypeCorrect` and `NewestKept`: `Spec => []TypeOK`, `Spec => []KeepsNewest`, from one
  inductive invariant (`TypeInv`): the types, with that a dataset on disk is no longer
  than the ring it is read back into, and that the buffer `Holds` what it was given.
* `NewestIsNeverDropped`: `Spec => []NewestSurvives`. `ParameterInv` says which item is
  the newest push while the stream is up: the last one of the first place that is
  not empty, of the learner's queue, the wire and the actor's queue, or else what is
  loaded (`Newest`); it holds through breaks, signals and restarts.
* `TransitionsKeepOrder`: `Spec => []TransitionsInOrder`. `OrderInv`: what was acted is
  what was processed, what is left of the list in hand, what waits and what crosses,
  in this order; each step of a stream moves one list across one of these borders
  (`FlattenTail`, `FlattenAppend`).
* `NextIsOwn`: `Spec => []WrongOnlyAtSeams`. The property speaks of a sampled slot and the
  one after it; `SeamInv` speaks of everything given: each transition and the one
  given next follow each other, or the first ended its episode, or a NaN was left out
  between them (`Chain`), and what is given begins a new episode where a list begins.
  This is because every list under way ends with the end of an episode (`Wholes`), a
  restart's dataset too (`Closed`). `SamplesFollow` carries it over to the ring.
* `NothingIsTorn`: `Spec => []NoTornMessage`. `AllReceived` is about any messages of any
  positive length: after their first *n* chunks the receiver has a beginning of them and
  the pieces of the next (`ReceivesWhole`). It goes by the number of messages, and within
  one message by the number of its chunks (`MessageReceived`), each by the least
  counterexample. The lists in transit are such messages by `TypeCorrect`.

`RecordingProofs`, for any number of takes, frames, keys, faults and sessions:

* `TypeCorrect`: `Spec => []TypeOK`. A record names files and rows by number, so the types
  need to know which file is open and which comes next. `FilesInv` says so: `LogInv`
  (the records in the metadata files and in the buffer are those loaded and the latest,
  their file numbers never decrease, and this session's lie above all earlier ones),
  `MetaInv` (the buffered records go to the file that is open or the next one),
  `PartInv` (the episode being saved has its rows in the last data file, its video in the
  last video file).
* `EarlierIsKept`: `Spec => KeepsEarlier`. By `FilesInv`, whatever is stored goes to a
  file above those of every loaded record, `finalize` included.
* `LongerIsDiscarded` and `EpisodesReadBack`: `Spec => []LongerOnlyAfterDiscard`, `Spec
  => []ReadsBack`. Two arguments side by side. Of the pictures (`ReadInv`): the images
  on disk and with the writer are the take's, or leftovers that a discarded take
  explains, and each frame of the take is among them or `lost` (`ImagesInv`); what an
  encoder has put out, has in hand and in its queue is an ascending part of the take
  that misses only lost frames (`StreamInv`); so what is encoded is in order, of the
  take or left over, and misses only what was lost (`Content`, `OutInv`), and stays so
  in the file, where what is stored later comes behind it (`Clip`, `VideoInv`). Of the
  rows: each record has its rows in its data file, whatever fails (`BlockInv`); the
  counters and the positions in the records agree (`CountInv`), and the rows up to the
  last file with a record are what the records say, or there are more of them than the
  counters know (`RowsInv`). That alternative is needed: an exception between rows and
  record leaves rows that no record knows, and all that can be said of positions then is
  that the counters never agree again. `ExactInv` excludes it where there was no fault.

**Only model-checked**: liveness (`StallEnds`, `SendReturns`, `RetryEnds`, `BothEnd`,
`SaveEnds`), which is out of the prover's reach, with `ENABLED`. Every safety and
action property that a passing run checks is the subject of a theorem; two are proved
for less than the module allows: `EmptyOnlyByRace` for one episode (it is false for
two, note 31), `ServerRefinesService` for one sender and one session (the mapping has
one `Fate`).

## 6. Not modelled, and what could follow

* **Most of the code by lines** is neural networks (`policies/`), tensor pipelines
  (`processor/`, `optim/`, `transforms/`), drivers of motors, cameras, robots and
  teleoperators, wrappers of simulators, dataset tools and plots. It computes on
  numbers or talks to hardware; it has no protocol, and nothing a finite model
  tells apart. The modules here cover the concurrent and fault-handling code, so the
  share of all lines they map stays small.
* **RTC action queue** (`policies/rtc/action_queue.py`): nothing outside `policies/rtc`,
  its tests and examples calls it from two threads; the clients have a queue of
  their own, which is modelled.
* **Offline gripper state machine**: a sequential copy of the monitor.
* **`infer_delay`** (quantiles, hysteresis and cap of wall-clock times), the scoring of
  candidates, trajectory geometry: arithmetic that a unit test reaches.
* **`SendPolicyInstructions`**: loads the policy once, before anything runs.
* **Recording**: batched encoding (`video_encoding_batch_size` above 1), several cameras,
  statistics but for the images they need, the 120 s after which an encoder is no longer
  waited for, a PNG file cut short, and reading but for the positions a record points
  to.
* **RL**: the offline buffer, processes instead of threads, asynchronous prefetching,
  re-establishing a connection (the code does not).

What could follow, in order: batched encoding, the offline buffer, the growth of the
receiver's error count between merges.

## 7. Running

    tlc -config Robot.cfg AsyncInference.tla        (also Sim)
    tlc -config Server.cfg MCPolicyServer.tla       (also Sessions)
    tlc -config Gripper.cfg GripperMonitor.tla
    tlc -config Smart.cfg MCSmartClient.tla         (also Retries, Warmup)
    tlc -config Resume.cfg MCActorLearner.tla       (also Learning, Checkpoint)
    tlc -config Record.cfg Recording.tla
    tlapm AsyncInferenceProofs.tla

and `tlapm` likewise for `AsyncClientProofs`, `SmartClientProofs`,
`GripperMonitorProofs`, `PolicyServerProofs`, `FlattenProofs`, `ActorLearnerProofs` and
`RecordingProofs`. A run takes between seconds and four minutes (`Retries`, `Gripper`)
with two workers; the proofs take a few minutes each from nothing.
