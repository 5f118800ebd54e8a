----------------------------- MODULE AsyncClient -----------------------------
(***************************************************************************)
(* The asynchronous inference client: BaseAsyncClient with the control     *)
(* loop of RobotClient (one run) or of SimRobotClient (several episodes).  *)
(* Two threads share the action queue: the control thread executes actions *)
(* and sends observations, the receiver thread polls the policy service    *)
(* for action chunks and merges them into the queue.  A step is what one   *)
(* thread does under one lock, or between two reads of shared state.       *)
(***************************************************************************)
EXTENDS Integers, FiniteSets

CONSTANTS
  ChunkLen,       \* actions in a chunk (actions_per_chunk)
  ThresholdNum,   \* chunk_size_threshold as a fraction
  ThresholdDen,
  ForceAfter,     \* _MUST_GO_EMPTY_THRESHOLD
  MaxErrors,      \* _MAX_ERRORS of receive_actions
  MaxTs,          \* bound: an episode ends once this timestep was executed
  MaxEp,          \* bound: number of episodes (1 for RobotClient)
  Simulated       \* TRUE for SimRobotClient, FALSE for RobotClient

ASSUME ClientAssumption ==
  /\ ChunkLen \in Nat \ {0}
  /\ ThresholdNum \in Nat /\ ThresholdDen \in Nat \ {0}
  /\ ForceAfter \in Nat \ {0}
  /\ MaxErrors \in Nat \ {0}
  /\ MaxTs \in Nat
  /\ MaxEp \in Nat \ {0}
  /\ Simulated \in BOOLEAN

VARIABLES
  running,       \* ~shutdown_event
  gen,           \* _action_generation
  queue,         \* action_queue: its actions, dequeued in timestep order
  chunkSize,     \* action_chunk_size
  latest,        \* latest_action
  orig,          \* timesteps that are keys of _orig_buf
  mustGo,        \* the must_go event
  emptySteps,    \* _queue_empty_steps
  nextStart,     \* _next_obs_is_episode_start
  pcC, pending,  \* control thread: where it is, the timestep it popped
  leftover,      \* control thread: timesteps collected as leftover_actions
  sawEmpty,      \* control thread: its sample _queue_empty
  pcR, rGen,     \* receiver thread: where it is, its snapshot _gen
  rChunk,        \* receiver thread: the chunk it holds
  rLatest,       \* receiver thread: its sample current_latest
  err,           \* receiver thread: _err
  up, down,      \* the two calls: SendObservations and GetActions
  high           \* history: highest timestep executed in the episode

control  == <<emptySteps, nextStart, pcC, pending, leftover, sawEmpty, high>>
receiver == <<pcR, rGen, rChunk, rLatest, err>>
shared   == <<running, gen, queue, chunkSize, latest, orig, mustGo>>
clientVars == <<control, receiver, shared, up, down>>

(***************************************************************************)
(* Data.  A chunk is named by the observation it answers: the timestep and *)
(* the episode the observation was captured in.                            *)
(***************************************************************************)
Generation == 1 .. MaxEp
Obs   == [ts : Nat, ep : Generation]
NoObs == [ts |-> 0, ep |-> 1]

\* The actions of the chunk computed for observation o: _time_action_chunk
\* numbers them from the timestep of the observation.
Actions(o) == [ts : o.ts .. (o.ts + ChunkLen - 1), ep : {o.ep}, obs : {o.ts}]

Timesteps(q) == {a.ts : a \in q}

Quiet == [st |-> "none", ts |-> 0, ep |-> 1]
NoSend == [st |-> "none", ts |-> 0, ep |-> 1, must |-> FALSE, start |-> FALSE]

Resetting == {"resetGen", "resetQueue", "resetSize", "resetLatest",
              "resetOrig", "resetFlags"}
Stopped == {"done", "queueEmpty", "notRunning"}
ControlPc == {"loop", "pop", "commit", "ready", "collect", "sample", "send",
              "sending", "over", "initial"} \cup Resetting \cup Stopped
ReceiverPc == {"poll", "wait", "size", "fill", "read", "swap", "rearm",
               "stopped"}

\* The two calls: what is sent or answered, and how far it got.
Sends == [st : {"none", "req", "ok", "lost"}, ts : Nat, ep : Generation,
          must : BOOLEAN, start : BOOLEAN]
Polls == [st : {"none", "call", "empty", "error", "chunk"}, ts : Nat,
          ep : Generation]

FlagsOK ==
  /\ running \in BOOLEAN /\ mustGo \in BOOLEAN /\ nextStart \in BOOLEAN
  /\ sawEmpty \in BOOLEAN

ClientTypeOK ==
  /\ FlagsOK
  /\ gen \in Generation /\ rGen \in Generation
  /\ queue \subseteq [ts : Nat, ep : Generation, obs : Nat]
  /\ chunkSize \in {-1, ChunkLen}
  /\ latest \in Nat \cup {-1} /\ high \in Nat \cup {-1}
  /\ rLatest \in Nat \cup {-1} /\ pending \in Nat
  /\ orig \subseteq Nat /\ leftover \subseteq Nat
  /\ emptySteps \in 0 .. (ForceAfter - 1)
  /\ err \in 0 .. MaxErrors
  /\ rChunk \in Obs
  /\ pcC \in ControlPc /\ pcR \in ReceiverPc
  /\ up \in Sends /\ down \in Polls

(***************************************************************************)
(* start() and the first _reset_loop_state() have run and both threads     *)
(* have passed start_barrier.                                              *)
(***************************************************************************)
ClientInit ==
  /\ running = TRUE
  /\ gen = 1
  /\ queue = {}
  /\ chunkSize = -1
  /\ latest = -1
  /\ orig = {}
  /\ mustGo = TRUE
  /\ emptySteps = 0
  /\ nextStart = TRUE
  /\ pcC = IF Simulated THEN "initial" ELSE "loop"
  /\ pending = 0 /\ leftover = {} /\ sawEmpty = FALSE
  /\ pcR = "poll" /\ rGen = 1 /\ rChunk = NoObs /\ rLatest = -1 /\ err = 0
  /\ up = NoSend /\ down = Quiet
  /\ high = -1

-----------------------------------------------------------------------------
(***************************************************************************)
(* The control thread.                                                     *)
(***************************************************************************)
EpisodeOver == latest >= MaxTs

\* actions_available: the queue holds an action.
HasOriginals == orig # {}   \* mutant: asks the wrong buffer
HasActions == queue # {}

\* The head of the loop: is it still running, and is there an action?
ActionsAvailable ==
  /\ pcC = "loop"
  /\ pcC' = IF ~running THEN "done"
            ELSE IF EpisodeOver THEN "over"
            ELSE IF HasActions THEN "pop" ELSE "ready"
  /\ UNCHANGED <<emptySteps, nextStart, pending, leftover, sawEmpty, high,
                 receiver, shared, up, down>>

\* get_nowait() under the lock, with the matching _orig_buf.pop().  The
\* action is executed: RobotClient feeds its interpolator, SimRobotClient
\* steps the environment.
PopAction ==
  /\ pcC = "pop"
  /\ \E a \in queue :
       /\ \A b \in queue : a.ts <= b.ts
       /\ queue' = queue \ {a}
       /\ orig' = orig \ {a.ts}
       /\ pending' = a.ts
       /\ high' = IF a.ts > high THEN a.ts ELSE high
  /\ pcC' = "commit"
  /\ UNCHANGED <<emptySteps, nextStart, leftover, sawEmpty, receiver, running,
                 gen, chunkSize, latest, mustGo, up, down>>

\* get_nowait() raises queue.Empty, which nothing in the loop catches.
PopFromEmpty ==
  /\ pcC = "pop" /\ queue = {}
  /\ pcC' = "queueEmpty"
  /\ running' = FALSE
  /\ UNCHANGED <<emptySteps, nextStart, pending, leftover, sawEmpty, high,
                 receiver, gen, queue, chunkSize, latest, orig, mustGo,
                 up, down>>

\* latest_action is written under its own lock, after the dequeue.  In
\* simulation the executed action may have ended the episode.
CommitLatest ==
  /\ pcC = "commit"
  /\ latest' = pending /\ pending' = 0
  /\ pcC' \in IF Simulated THEN {"ready", "over"} ELSE {"ready"}
  /\ UNCHANGED <<emptySteps, nextStart, leftover, sawEmpty, high,
                 receiver, running, gen, queue, chunkSize, orig, mustGo,
                 up, down>>

QueueLow ==
  \/ chunkSize <= 0
  \/ Cardinality(queue) * ThresholdDen <= ThresholdNum * chunkSize

ReadyToSend ==
  /\ pcC = "ready"
  /\ pcC' = IF QueueLow THEN "collect" ELSE "loop"
  /\ UNCHANGED <<emptySteps, nextStart, pending, leftover, sawEmpty, high,
                 receiver, shared, up, down>>

\* control_loop_observation, stage 3: one critical section reads the queue
\* and _orig_buf.
CollectLeftover ==
  /\ pcC = "collect"
  /\ leftover' = Timesteps(queue) \cap orig
  /\ pcC' = "sample"
  /\ UNCHANGED <<emptySteps, nextStart, pending, sawEmpty, high, receiver,
                 shared, up, down>>

\* A second critical section samples whether the queue is empty.
SampleQueue ==
  /\ pcC = "sample"
  /\ sawEmpty' = (queue = {})
  /\ pcC' = "send"
  /\ UNCHANGED <<emptySteps, nextStart, pending, leftover, high, receiver,
                 shared, up, down>>

\* _force_must_go: the queue was found empty that many times in a row.
EmptySteps == IF sawEmpty THEN emptySteps + 1 ELSE 0
ForceLate == sawEmpty /\ EmptySteps > ForceAfter   \* mutant: off by one
ForceMustGo == sawEmpty /\ EmptySteps >= ForceAfter

MustUnforced == mustGo /\ sawEmpty   \* mutant: the force is ignored
Must == (mustGo /\ sawEmpty) \/ ForceMustGo

Start == nextStart /\ ~ForceMustGo

\* The must_go event is read, the flags are computed and the call is made.
SendObservation ==
  /\ pcC = "send"
  /\ emptySteps' = IF ForceMustGo THEN 0 ELSE EmptySteps
  /\ nextStart' = (nextStart /\ ~Start)
  /\ leftover' = {} /\ sawEmpty' = FALSE
  /\ IF running
     THEN /\ up' = [st |-> "req", ts |-> latest + 1, ep |-> gen,
                    must |-> Must, start |-> Start]
          /\ pcC' = "sending"
     ELSE /\ pcC' = "notRunning"      \* send_observation raises RuntimeError
          /\ UNCHANGED up
  /\ UNCHANGED <<pending, high, receiver, shared, down>>

\* SimRobotClient._send_initial_obs, once per episode.
SendInitialObs ==
  /\ pcC = "initial"
  /\ IF running
     THEN /\ up' = [st |-> "req", ts |-> 0, ep |-> gen,
                    must |-> TRUE, start |-> TRUE]
          /\ pcC' = "sending"
     ELSE /\ pcC' = "notRunning"
          /\ UNCHANGED up
  /\ UNCHANGED <<emptySteps, nextStart, pending, leftover, sawEmpty, high,
                 receiver, shared, down>>

\* The call has returned, or failed: send_observation's result is ignored.
\* A must_go observation then disarms the event.
ClearMustGo ==
  /\ pcC = "sending" /\ up.st \in {"ok", "lost"}
  /\ mustGo' = (mustGo /\ ~up.must)
  /\ nextStart' = (nextStart /\ ~up.start)
  /\ up' = NoSend
  /\ pcC' = "loop"
  /\ UNCHANGED <<emptySteps, pending, leftover, sawEmpty, high, receiver,
                 running, gen, queue, chunkSize, latest, orig, down>>

\* The episode ended: run_episode is called again, or the run is over.
EndEpisode ==
  /\ pcC = "over"
  /\ IF running /\ gen < MaxEp
     THEN pcC' = "resetGen" /\ UNCHANGED running
     ELSE pcC' = "done" /\ running' = FALSE
  /\ UNCHANGED <<emptySteps, nextStart, pending, leftover, sawEmpty, high,
                 receiver, gen, queue, chunkSize, latest, orig, mustGo,
                 up, down>>

(***************************************************************************)
(* _reset_loop_state, one step per piece of state the receiver shares.     *)
(***************************************************************************)
ResetGeneration ==
  /\ pcC = "resetGen" /\ pcC' = "resetQueue"
  /\ gen' = gen + 1
  /\ UNCHANGED <<emptySteps, nextStart, pending, leftover, sawEmpty, high,
                 receiver, running, queue, chunkSize, latest, orig, mustGo,
                 up, down>>

ResetQueue ==
  /\ pcC = "resetQueue" /\ pcC' = "resetSize"
  /\ queue' = {}
  /\ UNCHANGED <<emptySteps, nextStart, pending, leftover, sawEmpty, high,
                 receiver, running, gen, chunkSize, latest, orig, mustGo,
                 up, down>>

ResetChunkSize ==
  /\ pcC = "resetSize" /\ pcC' = "resetLatest"
  /\ chunkSize' = -1
  /\ UNCHANGED <<emptySteps, nextStart, pending, leftover, sawEmpty, high,
                 receiver, running, gen, queue, latest, orig, mustGo,
                 up, down>>

ResetLatestForgotten ==   \* mutant: latest_action survives the reset
  /\ pcC = "resetLatest" /\ pcC' = "resetOrig"
  /\ high' = -1
  /\ UNCHANGED <<emptySteps, nextStart, pending, leftover, sawEmpty,
                 receiver, running, gen, queue, chunkSize, latest, orig, mustGo,
                 up, down>>

ResetLatest ==
  /\ pcC = "resetLatest" /\ pcC' = "resetOrig"
  /\ latest' = -1 /\ high' = -1
  /\ UNCHANGED <<emptySteps, nextStart, pending, leftover, sawEmpty,
                 receiver, running, gen, queue, chunkSize, orig, mustGo,
                 up, down>>

ResetOrig ==
  /\ pcC = "resetOrig" /\ pcC' = "resetFlags"
  /\ orig' = {}
  /\ UNCHANGED <<emptySteps, nextStart, pending, leftover, sawEmpty, high,
                 receiver, running, gen, queue, chunkSize, latest, mustGo,
                 up, down>>

ResetFlags ==
  /\ pcC = "resetFlags"
  /\ pcC' = IF Simulated THEN "initial" ELSE "loop"
  /\ mustGo' = TRUE /\ emptySteps' = 0 /\ nextStart' = TRUE
  /\ UNCHANGED <<pending, leftover, sawEmpty, high, receiver, running, gen,
                 queue, chunkSize, latest, orig, up, down>>

ControlStep ==
  \/ ActionsAvailable \/ PopAction \/ PopFromEmpty \/ CommitLatest
  \/ ReadyToSend \/ CollectLeftover \/ SampleQueue \/ SendObservation
  \/ SendInitialObs \/ ClearMustGo \/ EndEpisode
  \/ ResetGeneration \/ ResetQueue \/ ResetChunkSize \/ ResetLatest
  \/ ResetOrig \/ ResetFlags

-----------------------------------------------------------------------------
(***************************************************************************)
(* The receiver thread: receive_actions.                                   *)
(***************************************************************************)
\* The head of its loop: snapshot the generation and call GetActions.
PollActions ==
  /\ pcR = "poll"
  /\ IF running
     THEN /\ pcR' = "wait" /\ rGen' = gen
          /\ down' = [Quiet EXCEPT !.st = "call"]
     ELSE /\ pcR' = "stopped" /\ UNCHANGED <<rGen, down>>
  /\ UNCHANGED <<control, rChunk, rLatest, err, shared, up>>

ReceiveEmpty ==
  /\ pcR = "wait" /\ down.st = "empty"
  /\ pcR' = "poll" /\ down' = Quiet
  /\ UNCHANGED <<control, rGen, rChunk, rLatest, err, shared, up>>

\* grpc.RpcError: only counted while running; the fifth one stops the client.
ReceiveError ==
  /\ pcR = "wait" /\ down.st = "error"
  /\ down' = Quiet
  /\ IF running
     THEN /\ err' = err + 1
          /\ running' = (err + 1 < MaxErrors)
          /\ pcR' = IF err + 1 < MaxErrors THEN "poll" ELSE "stopped"
     ELSE pcR' = "poll" /\ UNCHANGED <<err, running>>
  /\ UNCHANGED <<control, rGen, rChunk, rLatest, gen, queue, chunkSize, latest,
                 orig, mustGo, up>>

\* A chunk, but a reset ran while GetActions was blocked: the chunk is dropped
\* and must_go re-armed.
DiscardStale ==
  /\ pcR = "wait" /\ down.st = "chunk" /\ gen # rGen
  /\ mustGo' = TRUE
  /\ pcR' = "poll" /\ down' = Quiet
  /\ UNCHANGED <<control, rGen, rChunk, rLatest, err, running, gen, queue,
                 chunkSize, latest, orig, up>>

KeepChunk ==
  /\ pcR = "wait" /\ down.st = "chunk" /\ gen = rGen
  /\ rChunk' = [ts |-> down.ts, ep |-> down.ep]
  /\ pcR' = "size" /\ down' = Quiet
  /\ UNCHANGED <<control, rGen, rLatest, err, shared, up>>

\* max(action_chunk_size, len(timed_actions)), under no lock.
SetChunkSize ==
  /\ pcR = "size" /\ pcR' = "fill"
  /\ chunkSize' = ChunkLen
  /\ UNCHANGED <<control, rGen, rChunk, rLatest, err, running, gen, queue,
                 latest, orig, mustGo, up, down>>

\* The timesteps that enter _orig_buf with a chunk.
OriginalsAfterFirst == Timesteps(Actions(rChunk)) \ {rChunk.ts}  \* mutant
Originals == Timesteps(Actions(rChunk))

\* _orig_buf, in a critical section before the merge.
FillOrigBuf ==
  /\ pcR = "fill" /\ pcR' = "read"
  /\ orig' = orig \cup Originals
  /\ UNCHANGED <<control, rGen, rChunk, rLatest, err, running, gen,
                 queue, chunkSize, latest, mustGo, up, down>>

\* _aggregate_action_queues: latest_action is sampled once ...
ReadLatest ==
  /\ pcR = "read" /\ pcR' = "swap"
  /\ rLatest' = latest
  /\ UNCHANGED <<control, rGen, rChunk, err, shared, up, down>>

\* The queue after the merge.  Mutants: old actions past the chunk survive, the
\* action executed last is kept, the next one is dropped.
MergedKeepingOld ==
  {a \in Actions(rChunk) : a.ts > rLatest}
    \cup {a \in queue : a.ts > rChunk.ts + ChunkLen - 1}
MergedFromLatest == {a \in Actions(rChunk) : a.ts >= rLatest}
MergedPastNext == {a \in Actions(rChunk) : a.ts > rLatest + 1}
Merged == {a \in Actions(rChunk) : a.ts > rLatest}

\* ... and the queue is replaced by the incoming actions after that sample.
SwapQueue ==
  /\ pcR = "swap" /\ pcR' = "rearm"
  /\ queue' = Merged
  /\ rChunk' = NoObs /\ rLatest' = -1
  /\ UNCHANGED <<control, rGen, err, running, gen, chunkSize, latest, orig,
                 mustGo, up, down>>

RearmMustGo ==
  /\ pcR = "rearm" /\ pcR' = "poll"
  /\ mustGo' = TRUE /\ err' = 0
  /\ UNCHANGED <<control, rGen, rChunk, rLatest, running, gen, queue,
                 chunkSize, latest, orig, up, down>>

ReceiverStep ==
  \/ PollActions \/ ReceiveEmpty \/ ReceiveError
  \/ DiscardStale \/ KeepChunk \/ SetChunkSize \/ FillOrigBuf
  \/ ReadLatest \/ SwapQueue \/ RearmMustGo

ClientNext == ControlStep \/ ReceiverStep
=============================================================================
