---------------------------- MODULE SmartClient ----------------------------
(***************************************************************************)
(* The smart robot client: the two threads of AsyncClient, with a control  *)
(* loop that, when the gripper monitor decides on a retry, throws the      *)
(* queue away, drives the arm along a trajectory, sends observations to    *)
(* warm up the policy's context, and only then infers again.  While the    *)
(* arm moves a third thread sends what the camera sees.                    *)
(*                                                                         *)
(* The monitor is GripperMonitor's: here it may decide anything.  The      *)
(* service ignores the third thread's observations, which carry            *)
(* skip_inference.                                                         *)
(***************************************************************************)
EXTENDS AsyncClient, Sequences, SequencesExt

CONSTANTS
  MaxFailures, MaxFaults,   \* see PolicyService
  MaxRetries,               \* bound on trajectories, each with a sender
  TrajLen,                  \* steps of a trajectory
  Warmup,                   \* warmup steps after a recovery and after a retry
  QueueMax,                 \* maxsize of the senders' queue
  Decisions                 \* bound: what the monitor may decide

Kinds == {"recovery", "retry"}    \* return home; lift or rewind

ASSUME SmartAssumption ==
  /\ {MaxFaults, MaxRetries} \subseteq Nat
  /\ {MaxFailures, TrajLen, QueueMax} \subseteq Nat \ {0}
  /\ Warmup \in [Kinds -> Nat]
  /\ Decisions \subseteq Kinds \cup {"unbuilt", "reinfer", "stop"}

VARIABLES
  held, busy, fate, failures, broken, faults,  \* the service's state
  mode,       \* what the head of the loop does: policy, trajectory, warmup
  kind, left, \* of the trajectory, and its or the warmup's steps left
  todo,       \* steps that are due before the loop goes on
  frames, sentinel,   \* _q: observations, and None behind them
  senders,    \* background senders
  mine,       \* the one the client knows of (_thread), 0 for none
  gaveUp,     \* history: a drain timed out
  late        \* history: see StaleInFlight

Service == INSTANCE PolicyService

serverVars == <<held, busy, fate, failures, broken, faults>>
smartVars ==
  <<mode, kind, left, todo, frames, sentinel, senders, mine, gaveUp, late>>
vars == <<clientVars, serverVars, smartVars>>

\* A background sender waits for an observation or sends one, or does not run.
Sender == {"none", "waits", "sends"}

\* What is due in a re-inference and at the end of a trajectory.  A re-inference
\* sets must_go; a trajectory then clears it, and nothing reads it in between.
Empty == <<"bump", "drain", "forget">>
ForceEmpty == Empty \o <<"arm">>
AfterTrajectory(k) ==
  (IF k = "recovery" THEN <<"sentinel", "join", "bump", "drain">>
                     ELSE <<"bump", "drain", "sentinel", "join">>)
  \o (IF Warmup[k] = 0 THEN <<"arm">> ELSE <<>>)
Steps == {"start", "sentinel", "join", "look"} \cup ToSet(ForceEmpty)

TypeOK ==
  /\ ClientTypeOK /\ Service!ServiceTypeOK
  /\ mode \in {"policy", "trajectory", "warmup"} /\ kind \in Kinds
  /\ left \in Nat /\ todo \in Seq(Steps)
  /\ frames \in 0 .. QueueMax /\ sentinel \in BOOLEAN
  /\ senders \in [1 .. MaxRetries -> Sender] /\ mine \in 0 .. MaxRetries
  /\ gaveUp \in BOOLEAN /\ late \in BOOLEAN

Init ==
  /\ ClientInit /\ Service!ServiceInit
  /\ mode = "policy" /\ kind = "recovery" /\ left = 0 /\ todo = <<>>
  /\ frames = 0 /\ sentinel = FALSE
  /\ senders = [i \in 1 .. MaxRetries |-> "none"] /\ mine = 0
  /\ gaveUp = FALSE /\ late = FALSE

-----------------------------------------------------------------------------
(***************************************************************************)
(* The control loop.                                                       *)
(***************************************************************************)
AtHead == pcC = "loop" /\ todo = <<>>

\* Bound: the run is cut off once MaxTs, and TrajLen more for every generation,
\* was executed: after a retry at least one action is.
CutOff == mode = "policy" /\ latest >= MaxTs + TrajLen * (gen - 1)

\* The loop ends when the client is stopped.
LoopEnds ==
  /\ AtHead /\ (~running \/ CutOff)
  /\ pcC' = "done" /\ running' = FALSE
  /\ UNCHANGED <<emptySteps, nextStart, pending, leftover, sawEmpty, high,
                 receiver, gen, queue, chunkSize, latest, orig, mustGo, up,
                 down, serverVars, smartVars>>

\* Without a trajectory or a warmup the loop is the parent's, but has no episode
\* that ends.
LookForActions ==
  /\ AtHead /\ running /\ mode = "policy" /\ ~CutOff
  /\ pcC' = IF HasActions THEN "pop" ELSE "ready"
  /\ UNCHANGED <<emptySteps, nextStart, pending, leftover, sawEmpty, high,
                 receiver, shared, up, down>>

PolicyStep ==
  \/ LookForActions \/ PopAction \/ PopFromEmpty \/ CommitLatest
  \/ (todo = <<>> /\ ReadyToSend)
  \/ CollectLeftover \/ SampleQueue \/ SendObservation \/ ClearMustGo

\* The monitor decides on a retry: the queue is thrown away and a trajectory is
\* to be executed.  No observation is sent.
Retry ==
  /\ pcC = "ready" /\ todo = <<>> /\ gen + 3 <= MaxEp
  /\ pcC' = "loop"
  /\ \E k \in Kinds \cap Decisions : kind' = k
  /\ todo' = Empty \o <<"start">>
  /\ UNCHANGED <<emptySteps, nextStart, pending, leftover, sawEmpty, high,
                 receiver, shared, up, down, serverVars, mode, left, frames,
                 sentinel, senders, mine, gaveUp, late>>

\* No trajectory can be built: the loop goes on from where the arm is.
RetryUnbuilt ==
  /\ pcC = "ready" /\ todo = <<>> /\ gen + 3 <= MaxEp /\ "unbuilt" \in Decisions
  /\ pcC' = "loop"
  /\ todo' = ForceEmpty
  /\ UNCHANGED <<emptySteps, nextStart, pending, leftover, sawEmpty, high,
                 receiver, shared, up, down, serverVars, mode, kind, left,
                 frames, sentinel, senders, mine, gaveUp, late>>

\* A task is done, or re-inference on the spot: the loop goes on to send.
Reinfer ==
  /\ pcC = "ready" /\ todo = <<>> /\ gen + 3 <= MaxEp /\ "reinfer" \in Decisions
  /\ todo' = ForceEmpty \o <<"look">>
  /\ UNCHANGED <<clientVars, serverVars, mode, kind, left, frames, sentinel,
                 senders, mine, gaveUp, late>>

StopRetrying ==
  /\ pcC = "ready" /\ todo = <<>> /\ "stop" \in Decisions
  /\ pcC' = "done" /\ running' = FALSE
  /\ UNCHANGED <<emptySteps, nextStart, pending, leftover, sawEmpty, high,
                 receiver, gen, queue, chunkSize, latest, orig, mustGo, up,
                 down, serverVars, smartVars>>

\* latest_action is advanced so that every observation has a timestep of its own.
NextTimestep == latest' = (IF latest < 0 THEN 0 ELSE latest) + 1

TrajectoryStep ==
  /\ AtHead /\ running /\ mode = "trajectory" /\ NextTimestep
  /\ frames' = IF frames < QueueMax THEN frames + 1 ELSE frames
  /\ IF left > 1
     THEN left' = left - 1 /\ UNCHANGED <<mode, todo>>
     ELSE /\ todo' = AfterTrajectory(kind)
          /\ left' = Warmup[kind]
          /\ mode' = IF Warmup[kind] = 0 THEN "policy" ELSE "warmup"
  /\ UNCHANGED <<control, receiver, running, gen, queue, chunkSize, orig,
                 mustGo, up, down, serverVars, kind, sentinel, senders, mine,
                 gaveUp, late>>

\* An observation without an action; the last one is followed by the arming.
WarmupStep ==
  /\ AtHead /\ running /\ mode = "warmup" /\ NextTimestep
  /\ emptySteps' = 0 /\ pcC' = "collect"
  /\ left' = left - 1
  /\ mode' = IF left = 1 THEN "policy" ELSE mode
  /\ todo' = IF left = 1 THEN <<"bump", "drain", "arm">> ELSE <<>>
  /\ UNCHANGED <<nextStart, pending, leftover, sawEmpty, high, receiver,
                 running, gen, queue, chunkSize, orig, mustGo, up, down,
                 serverVars, kind, frames, sentinel, senders, mine, gaveUp,
                 late>>

(***************************************************************************)
(* The steps of a forced re-inference and of the end of a trajectory, each *)
(* on a piece of state that another thread shares.                         *)
(***************************************************************************)
Do(step) == pcC \in {"loop", "ready"} /\ todo # <<>> /\ Head(todo) = step
            /\ todo' = Tail(todo)

\* The receiver holds, or the service still has, what belongs to the generation
\* that ends: the generation guard will not stop it.
StaleInFlight == held.full \/ pcR \in {"size", "fill", "read", "swap"}

BumpGeneration ==
  /\ Do("bump") /\ gen' = gen + 1 /\ late' = (late \/ StaleInFlight)
  /\ UNCHANGED <<control, receiver, running, queue, chunkSize, latest, orig,
                 mustGo, up, down, serverVars, mode, kind, left, frames,
                 sentinel, senders, mine, gaveUp>>

DrainQueueKeeping ==   \* mutant: the actions stay in the queue
  /\ Do("drain") /\ emptySteps' = 0
  /\ UNCHANGED <<nextStart, pcC, pending, leftover, sawEmpty, high, receiver,
                 shared, up, down, serverVars, mode, kind, left, frames,
                 sentinel, senders, mine, gaveUp, late>>

DrainQueue ==
  /\ Do("drain") /\ queue' = {} /\ emptySteps' = 0
  /\ UNCHANGED <<nextStart, pcC, pending, leftover, sawEmpty, high, receiver,
                 running, gen, chunkSize, latest, orig, mustGo, up, down,
                 serverVars, mode, kind, left, frames, sentinel, senders, mine,
                 gaveUp, late>>

ForgetOriginals ==
  /\ Do("forget") /\ orig' = {}
  /\ UNCHANGED <<control, receiver, running, gen, queue, chunkSize, latest,
                 mustGo, up, down, serverVars, mode, kind, left, frames,
                 sentinel, senders, mine, gaveUp, late>>

Arm ==
  /\ Do("arm") /\ mustGo' = TRUE
  /\ UNCHANGED <<control, receiver, running, gen, queue, chunkSize, latest,
                 orig, up, down, serverVars, mode, kind, left, frames, sentinel,
                 senders, mine, gaveUp, late>>

\* must_go is cleared for the time of the trajectory, and a background sender is
\* started.  It gets a new queue, but _q is the object's: from now on an abandoned
\* sender reads the new queue as well, and what was in the old one is lost.
StartTrajectory ==
  /\ Do("start") /\ mustGo' = FALSE
  /\ mode' = "trajectory" /\ left' = TrajLen
  /\ frames' = 0 /\ sentinel' = FALSE
  /\ \E i \in 1 .. MaxRetries :
       /\ senders[i] = "none" /\ \A j \in 1 .. (i - 1) : senders[j] # "none"
       /\ mine' = i
       /\ senders' = [senders EXCEPT ![i] = "waits"]
  /\ UNCHANGED <<control, receiver, running, gen, queue, chunkSize, latest,
                 orig, up, down, serverVars, kind, gaveUp, late>>

\* drain: the sentinel, unless the queue stays full for too long.
PutSentinel ==
  /\ Do("sentinel")
  /\ sentinel' = (sentinel \/ frames < QueueMax)
  /\ UNCHANGED <<clientVars, serverVars, mode, kind, left, frames, senders,
                 mine, gaveUp, late>>

JoinAtOnce ==   \* mutant: the sender is not waited for
  /\ Do("join") /\ mine' = 0
  /\ UNCHANGED <<clientVars, serverVars, mode, kind, left, frames, sentinel,
                 senders, gaveUp, late>>

JoinForever ==   \* mutant: the wait has no timeout
  /\ Do("join") /\ mine' = 0
  /\ senders[mine] = "none"
  /\ UNCHANGED <<clientVars, serverVars, mode, kind, left, frames, sentinel,
                 senders, gaveUp, late>>

\* The sender has ended, or the wait for it times out.
Join ==
  /\ Do("join") /\ mine' = 0
  /\ gaveUp' = (gaveUp \/ senders[mine] # "none")
  /\ UNCHANGED <<clientVars, serverVars, mode, kind, left, frames, sentinel,
                 senders, late>>

\* The loop goes on after a re-inference: is the queue low?
GoOn ==
  /\ Do("look") /\ ReadyToSend
  /\ UNCHANGED <<serverVars, mode, kind, left, frames, sentinel, senders, mine,
                 gaveUp, late>>

SmartStep ==
  \/ LoopEnds \/ Retry \/ RetryUnbuilt \/ Reinfer \/ StopRetrying
  \/ TrajectoryStep \/ WarmupStep
  \/ BumpGeneration \/ DrainQueue \/ ForgetOriginals \/ Arm
  \/ StartTrajectory \/ PutSentinel \/ Join \/ GoOn
  \/ (PolicyStep /\ UNCHANGED <<serverVars, smartVars>>)

-----------------------------------------------------------------------------
(***************************************************************************)
(* The background senders, of which all that were not ended by a sentinel  *)
(* read the same queue, also those that the client has forgotten.          *)
(***************************************************************************)
TakeFrame(i) ==
  /\ senders[i] = "waits" /\ frames > 0
  /\ frames' = frames - 1 /\ senders' = [senders EXCEPT ![i] = "sends"]
  /\ UNCHANGED sentinel

\* The observation was sent, or sending it has failed.
FrameSent(i) ==
  /\ senders[i] = "sends" /\ senders' = [senders EXCEPT ![i] = "waits"]
  /\ UNCHANGED <<frames, sentinel>>

TakeSentinel(i) ==
  /\ senders[i] = "waits" /\ frames = 0 /\ sentinel
  /\ sentinel' = FALSE /\ senders' = [senders EXCEPT ![i] = "none"]
  /\ UNCHANGED frames

SenderStep ==
  /\ \E i \in 1 .. MaxRetries : TakeFrame(i) \/ FrameSent(i) \/ TakeSentinel(i)
  /\ UNCHANGED <<clientVars, serverVars, mode, kind, left, todo, mine, gaveUp,
                 late>>

-----------------------------------------------------------------------------
Receive == ReceiverStep /\ UNCHANGED <<serverVars, smartVars>>
ServiceMove ==
  Service!ServiceNext /\ UNCHANGED <<control, receiver, shared, smartVars>>
Terminated == pcC \in Stopped /\ pcR = "stopped" /\ UNCHANGED vars

Next == SmartStep \/ Receive \/ ServiceMove \/ SenderStep \/ Terminated

\* As in AsyncInference; nothing obliges a sender to get on.
TimesOutInGap == fate = "room" /\ down.st = "call" /\ down'.st = "empty"

Fairness ==
  /\ WF_vars(SmartStep) /\ WF_vars(Receive)
  /\ WF_vars(Service!TakeObs /\ ServiceMove)
  /\ WF_vars(Service!AnswerCall /\ ServiceMove)
  /\ SF_vars(Service!Dequeue /\ ServiceMove)
  /\ <>[][~TimesOutInGap]_vars

Spec == Init /\ [][Next]_vars /\ Fairness

-----------------------------------------------------------------------------
Popping == pcC = "pop" /\ pcC' = "commit"

\* What the robot executes was computed from an observation of the current
\* generation: a forced re-inference leaves nothing behind of the attempt that
\* failed, unless the receiver held a chunk, or the service an observation, of
\* the generation that was ended.
FreshAfterRetry ==
  [][Popping /\ ~late => \A a \in queue \ queue' : a.ep = gen]_vars

\* While the control loop sends an observation no background sender does, and none
\* will send what it finds in the queue, unless a drain has given up: an abandoned
\* sender outlives its trajectory, and reads the queue of the next.
SendsAlone ==
  up.st = "req" /\ (frames > 0 \/ \E i \in 1 .. MaxRetries : senders[i] = "sends")
    => gaveUp

\* After a retry the policy is in control again and has actions to execute,
\* unless the client stops or the policy counts as broken.
RetryEnds ==
  mode # "policy"
    ~> (mode = "policy" /\ todo = <<>> /\ queue # {}) \/ pcC \in Stopped \/ broken
=============================================================================
