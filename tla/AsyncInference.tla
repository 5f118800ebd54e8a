--------------------------- MODULE AsyncInference ---------------------------
(***************************************************************************)
(* The client's two threads composed with what the policy server promises, *)
(* and the properties of the asynchronous execution loop.                  *)
(***************************************************************************)
EXTENDS AsyncClient

CONSTANTS MaxFailures, MaxFaults   \* see PolicyService

VARIABLES held, busy, fate, failures, broken, faults,   \* the service's state
          raced                 \* history: see Overlap

Service == INSTANCE PolicyService

ASSUME FaultAssumption == MaxFaults \in Nat /\ MaxFailures \in Nat \ {0}

service == <<held, busy, fate, failures, broken, faults>>
vars == <<clientVars, service, raced>>

\* The receiver is between its sample of latest_action and the swap of the
\* queue, or about to take the sample, while the control thread has popped an
\* action that latest_action does not show yet, or is resetting the episode.
Merging == {"read", "swap"}
Overlap == pcR \in Merging /\ pcC \in Resetting \cup {"commit"}

Init == ClientInit /\ Service!ServiceInit /\ raced = FALSE

ClientMove  == ClientNext /\ UNCHANGED service
ServiceMove ==
  Service!ServiceNext /\ UNCHANGED <<control, receiver, shared>>

Recorded(A) == A /\ raced' = (raced \/ Overlap')

\* Both threads have ended, and nothing more happens.
Terminated == pcC \in Stopped /\ pcR = "stopped" /\ UNCHANGED vars

Next ==
  \/ Recorded(ClientMove \/ ServiceMove)
  \/ Terminated

\* The two threads are scheduled and the server finishes every call.  A call
\* blocks on the observation queue for obs_queue_timeout, a second or more, and
\* an eviction takes microseconds: calls do not forever time out in that gap,
\* nor lose the observation to it.  Nothing obliges a fault to happen.
TimesOutInGap == fate = "room" /\ down.st = "call" /\ down'.st = "empty"

Fairness ==
  /\ WF_pcC(ControlStep) /\ WF_pcR(ReceiverStep)
  /\ WF_<<up, fate>>(Service!TakeObs)
  /\ WF_<<down, busy>>(Service!AnswerCall)
  /\ SF_<<down, busy>>(Service!Dequeue)
  /\ <>[][~TimesOutInGap]_down

Spec == Init /\ [][Next]_vars /\ Fairness

-----------------------------------------------------------------------------
TypeOK ==
  /\ ClientTypeOK
  /\ Service!ServiceTypeOK
  /\ raced \in BOOLEAN

Popping == pcC = "pop" /\ pcC' = "commit"

\* The action queue is always what is left of ONE chunk, with no hole: the
\* merge drops what only the old queue had, and the control thread takes the
\* actions from the front (base_client.py, _aggregate_action_queues).
QueueIsChunkSuffix ==
  \A a \in queue :
    /\ a.obs <= a.ts /\ a.ts < a.obs + ChunkLen
    /\ \A b \in queue : b.obs = a.obs /\ b.ep = a.ep
    /\ \A t \in a.ts .. (a.obs + ChunkLen - 1) :
         [ts |-> t, ep |-> a.ep, obs |-> a.obs] \in queue

\* The control thread never skips a timestep of the episode it is in: what it
\* executes from a chunk of this episode is at most one past the highest
\* timestep executed, however merges, resets and polls interleave.
NoSkippedStep ==
  [][Popping => \A a \in queue \ queue' : a.ep = gen => a.ts <= high + 1]_vars

\* Unless a merge overlapped an uncommitted pop or a reset, no timestep is
\* executed twice in an episode: the race of _aggregate_action_queues with
\* control_loop_action is the only cause of re-execution.
ReplayNeedsRace ==
  [][Popping /\ ~raced => pending' > high]_vars

\* Unless a merge overlapped them, the leftover sent with an observation is
\* the whole queue: torch.stack never closes a gap over a missing timestep.
LeftoverIsQueue ==
  [][pcC = "collect" /\ pcC' = "sample" /\ ~raced
       => leftover' = Timesteps(queue)]_vars

\* With a single episode, queue.Empty reaches the control loop, which nothing
\* catches, only after a merge overlapped an uncommitted pop: actions_available
\* and the get_nowait() of control_loop_action are apart, but a merge between
\* the two leaves an action unless the queue it replaces was already executed.
EmptyNeedsRace == pcC = "queueEmpty" => raced

\* However often the queue runs empty it is refilled, or the run goes on to its
\* end, unless MaxFailures inferences failed in a row and the policy counts as
\* broken: force_must_go breaks every stall that the observation filter and a
\* lost must_go leave.
StallEnds ==
  []<>(queue # {} \/ pcC \in Stopped \cup Resetting \/ broken)
=============================================================================
