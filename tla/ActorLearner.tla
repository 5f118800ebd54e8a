---------------------------- MODULE ActorLearner ----------------------------
(***************************************************************************)
(* Distributed reinforcement learning (rl/): the actor acts and streams    *)
(* transitions and interaction messages to the learner, which fills the    *)
(* replay buffer, trains, streams parameters back and saves checkpoints    *)
(* from which it can be resumed.                                           *)
(*                                                                         *)
(* The three streams run by the same code on both sides, so their queues,  *)
(* wires and threads are functions of the stream.  A message crosses in    *)
(* one step: that its chunks are put together right is ByteStream's.       *)
(* Threads, not processes, as ConcurrencyConfig has it by default: the     *)
(* threads of a side share its shutdown event and its queues.              *)
(***************************************************************************)
EXTENDS ReplayBuffer, SequencesExt

CONSTANTS
  Kinds,                  \* how a step of the environment may end
  MaxSteps,               \* online_steps
  Before,                 \* online_step_before_learning
  SaveFreq,               \* save_freq
  MaxVer,                 \* bound on optimization steps
  MaxBreaks,              \* bound on broken streams
  MaxSignals,             \* bound on processes told to stop in a session
  MaxSessions,            \* bound on starts of the pair
  None

AllKinds == {"mid", "done", "truncated", "nan"}

ASSUME LearningAssumption ==
  /\ Kinds \subseteq AllKinds
  /\ {MaxSteps, Before, MaxVer, MaxBreaks, MaxSignals} \subseteq Nat
  /\ {SaveFreq, MaxSessions} \subseteq Nat \ {0}

\* "nan" is a step in mid-episode whose action contains a NaN.
Transition ==
  [session : 1 .. MaxSessions, episode : 0 .. MaxSteps, step : 0 .. MaxSteps,
   kind : AllKinds]

ASSUME UnsetAssumption == Unset \notin Transition

VARIABLES
  \* The streams.
  queue, wire, out, call, breaks,
  \* The actor.
  apc, acted, trace, here, loaded, actorShut,
  \* The learner; list is what is left of the list of transitions in hand, ver
  \* the optimization step, weights how many of them the policy went through.
  lpc, list, buffer, ver, weights, shift, message, learnerShut, saving,
  \* What the learner has on disk.
  last, dataset,
  \* History: the transitions processed, all that the buffer was ever given in
  \* this session and in those it was resumed from, the last interaction step
  \* reported, the newest parameters pushed, the number of the session, the
  \* transitions acted in earlier sessions, and what the buffer had ever been
  \* given when the dataset was written, as a dataset has it.
  processed, given, reported, pushed, session, earlier, archived

streamVars == <<queue, wire, out, call, breaks>>
actorVars == <<apc, acted, trace, here, loaded, actorShut>>
learnerVars == <<lpc, list, buffer, ver, weights, shift, message, learnerShut,
                 saving>>
diskVars == <<last, dataset>>
history == <<processed, given, reported, pushed, session, earlier, archived>>
vars == <<streamVars, actorVars, learnerVars, diskVars, history>>

ToLearner == {"transitions", "interactions"}
Streams == ToLearner \cup {"parameters"}

SourceShut(s) == IF s \in ToLearner THEN actorShut ELSE learnerShut
SinkShut(s)   == IF s \in ToLearner THEN learnerShut ELSE actorShut

\* The queues are closed once their owner leaves its main loop.
ActorClosed == apc \in {"joining", "ended"}
SourceClosed(s) == IF s \in ToLearner THEN ActorClosed ELSE lpc = "stopped"
SinkClosed(s)   == IF s \in ToLearner THEN lpc = "stopped" ELSE ActorClosed

\* What a stream carries: lists of transitions, steps, versions.
Payload(s) ==
  IF s = "transitions" THEN Seq(Transition)
  ELSE IF s = "interactions" THEN Nat ELSE 0 .. MaxVer

Carries(f) == DOMAIN f = Streams /\ \A s \in Streams : f[s] \in Seq(Payload(s))

Checkpoint == [ver : 0 .. MaxVer, interaction : Nat]

TypeOK ==
  /\ Carries(queue) /\ Carries(wire) /\ Carries(out)
  /\ call \in [Streams -> {"up", "draining", "over"}]
  /\ breaks \in 0 .. MaxBreaks
  /\ apc \in {"acting", "ended_episode", "joining", "ended"}
  /\ acted \in Seq(Transition) /\ trace \in Seq(Transition)
  /\ here \in [episode : 0 .. MaxSteps, step : 0 .. MaxSteps]
  /\ loaded \in 0 .. MaxVer /\ actorShut \in BOOLEAN
  /\ lpc \in {"top", "transitions", "interactions", "train", "unlink",
              "link", "clear", "write", "stopped"}
  /\ list \in Seq(Transition) /\ buffer \in Buffer(Transition)
  /\ ver \in 0 .. MaxVer /\ weights \in 0 .. ver /\ shift \in Nat
  /\ message \in Nat \cup {None} /\ learnerShut \in BOOLEAN
  /\ saving \in Checkpoint \cup {None} /\ last \in Checkpoint \cup {None}
  /\ dataset \in Seq(Transition) \cup {None}
  /\ {processed, given, earlier, archived} \subseteq Seq(Transition)
  /\ pushed \in 0 .. MaxVer /\ session \in 1 .. MaxSessions

\* The policy that make_policy returns is pushed before the learner's loop
\* begins: that of the configuration, not one a checkpoint holds.
FreshStreams ==
  /\ queue' = [s \in Streams |-> IF s = "parameters" THEN <<0>> ELSE <<>>]
  /\ wire' = [s \in Streams |-> <<>>] /\ out' = [s \in Streams |-> <<>>]
  /\ call' = [s \in Streams |-> "up"]

Init ==
  /\ queue = [s \in Streams |-> IF s = "parameters" THEN <<0>> ELSE <<>>]
  /\ wire = [s \in Streams |-> <<>>] /\ out = [s \in Streams |-> <<>>]
  /\ call = [s \in Streams |-> "up"]
  /\ breaks = 0
  /\ apc = "acting" /\ acted = <<>> /\ trace = <<>>
  /\ here = [episode |-> 0, step |-> 0] /\ loaded = 0 /\ actorShut = FALSE
  /\ lpc = "top" /\ list = <<>> /\ buffer = EmptyBuffer /\ ver = 0 /\ weights = 0
  /\ shift = 0 /\ message = None /\ learnerShut = FALSE /\ saving = None
  /\ last = None /\ dataset = None
  /\ processed = <<>> /\ given = <<>> /\ reported = 0 /\ pushed = 0 /\ session = 1
  /\ earlier = <<>> /\ archived = <<>>

-----------------------------------------------------------------------------
(***************************************************************************)
(* A stream: the generator that feeds it and the loop that drains it.  Its *)
(* call is up; draining once the generator has returned; over when the     *)
(* loop has returned or either side has failed, and nothing makes it anew. *)
(***************************************************************************)
Over(s) ==
  /\ call[s] # "over" /\ call' = [call EXCEPT ![s] = "over"]
  /\ wire' = [wire EXCEPT ![s] = <<>>]
  /\ UNCHANGED <<queue, out, actorVars, learnerVars, diskVars, history>>

TakeOldest(s) ==   \* mutant: the drain keeps the first item
  /\ call[s] = "up" /\ ~SourceShut(s) /\ ~SourceClosed(s) /\ queue[s] # <<>>
  /\ wire' = [wire EXCEPT ![s] = Append(@, Head(queue[s]))]
  /\ queue' = [queue EXCEPT ![s] = IF s \in ToLearner THEN Tail(@) ELSE <<>>]
  /\ UNCHANGED <<out, call, breaks, actorVars, learnerVars, diskVars, history>>

\* The actor's generators take the next message, the learner's the newest.
Take(s) ==
  /\ call[s] = "up" /\ ~SourceShut(s) /\ ~SourceClosed(s) /\ queue[s] # <<>>
  /\ wire' = [wire EXCEPT ![s] = Append(@, IF s \in ToLearner THEN Head(queue[s])
                                                             ELSE Last(queue[s]))]
  /\ queue' = [queue EXCEPT ![s] = IF s \in ToLearner THEN Tail(@) ELSE <<>>]
  /\ UNCHANGED <<out, call, breaks, actorVars, learnerVars, diskVars, history>>

\* The shutdown event is looked at between messages.
CloseStream(s) ==
  /\ call[s] = "up" /\ SourceShut(s) /\ call' = [call EXCEPT ![s] = "draining"]
  /\ UNCHANGED <<queue, wire, out, breaks, actorVars, learnerVars, diskVars,
                 history>>

\* get raises on a closed queue, and the call fails with the generator.
TakeFromClosed(s) ==
  call[s] = "up" /\ SourceClosed(s) /\ UNCHANGED breaks /\ Over(s)

Receive(s) ==
  /\ call[s] # "over" /\ wire[s] # <<>> /\ ~SinkShut(s) /\ ~SinkClosed(s)
  /\ wire' = [wire EXCEPT ![s] = Tail(@)]
  /\ out' = [out EXCEPT ![s] = Append(@, Head(wire[s]))]
  /\ UNCHANGED <<queue, call, breaks, actorVars, learnerVars, diskVars, history>>

\* The loop looks at the shutdown event when a message arrives, and only
\* then; put raises on a closed queue.
ReturnEarly(s) ==
  /\ wire[s] # <<>> /\ (SinkShut(s) \/ SinkClosed(s))
  /\ UNCHANGED breaks /\ Over(s)

EndOfStream(s) ==
  call[s] = "draining" /\ wire[s] = <<>> /\ UNCHANGED breaks /\ Over(s)

\* The learner's process ends, and its server with it.
ServerGone(s) == lpc = "stopped" /\ UNCHANGED breaks /\ Over(s)

\* A connection breaks.
Break(s) == breaks < MaxBreaks /\ breaks' = breaks + 1 /\ Over(s)

Stream(s) ==
  \/ Take(s) \/ CloseStream(s) \/ TakeFromClosed(s)
  \/ Receive(s) \/ ReturnEarly(s) \/ EndOfStream(s) \/ ServerGone(s)

-----------------------------------------------------------------------------
(***************************************************************************)
(* The actor.                                                              *)
(***************************************************************************)
Act ==
  /\ apc = "acting" /\ ~actorShut /\ Len(acted) < MaxSteps
  /\ \E k \in Kinds :
       LET t == [session |-> session, episode |-> here.episode,
                 step |-> here.step, kind |-> k]
           over == k \in {"done", "truncated"}
       IN
       /\ acted' = Append(acted, t) /\ trace' = Append(trace, t)
       /\ apc' = IF over THEN "ended_episode" ELSE apc
       /\ here' = IF over THEN [episode |-> here.episode + 1, step |-> 0]
                  ELSE [here EXCEPT !.step = @ + 1]
  /\ UNCHANGED <<streamVars, loaded, actorShut, learnerVars, diskVars, history>>

EndEpisodeKeeping ==   \* mutant: the list of transitions is not reset
  /\ apc = "ended_episode" /\ apc' = "acting"
  /\ loaded' = IF out["parameters"] = <<>> THEN loaded
               ELSE Last(out["parameters"])
  /\ out' = [out EXCEPT !["parameters"] = <<>>]
  /\ queue' = [queue EXCEPT !["transitions"] = Append(@, trace),
                            !["interactions"] = Append(@, Len(acted) - 1)]
  /\ UNCHANGED <<wire, call, breaks, acted, trace, here,
                 actorShut, learnerVars, diskVars, history>>

\* The newest parameters are loaded between episodes; then the episode's
\* transitions and its statistics are queued.
EndEpisode ==
  /\ apc = "ended_episode" /\ apc' = "acting"
  /\ loaded' = IF out["parameters"] = <<>> THEN loaded
               ELSE Last(out["parameters"])
  /\ out' = [out EXCEPT !["parameters"] = <<>>]
  /\ queue' = [queue EXCEPT !["transitions"] = Append(@, trace),
                            !["interactions"] = Append(@, Len(acted) - 1)]
  /\ trace' = <<>>
  /\ UNCHANGED <<wire, call, breaks, acted, here,
                 actorShut, learnerVars, diskVars, history>>

\* After a shutdown or the last step the queues are closed.
StopActing ==
  /\ apc = "acting" /\ (actorShut \/ Len(acted) = MaxSteps) /\ apc' = "joining"
  /\ UNCHANGED <<streamVars, acted, trace, here, loaded, actorShut, learnerVars,
                 diskVars, history>>

\* The three threads have ended.
Joined ==
  /\ apc = "joining" /\ apc' = "ended" /\ \A s \in Streams : call[s] = "over"
  /\ UNCHANGED <<streamVars, acted, trace, here, loaded, actorShut, learnerVars,
                 diskVars, history>>

Signals == Cardinality({p \in {"actor", "learner"} :
                         IF p = "actor" THEN actorShut ELSE learnerShut})

\* A signal asks a process to stop.
InterruptActor ==
  /\ Signals < MaxSignals /\ ~actorShut /\ actorShut' = TRUE
  /\ UNCHANGED <<streamVars, apc, acted, trace, here, loaded, learnerVars,
                 diskVars, history>>

-----------------------------------------------------------------------------
(***************************************************************************)
(* The learner.                                                            *)
(***************************************************************************)
TopUnchecked ==   \* mutant: the loop does not look at the shutdown event
  /\ lpc = "top" /\ lpc' = "transitions"
  /\ UNCHANGED <<streamVars, actorVars, list, buffer, ver, weights, shift,
                 message, learnerShut, saving, diskVars, history>>

Top ==
  /\ lpc = "top" /\ lpc' = IF learnerShut THEN "stopped" ELSE "transitions"
  /\ UNCHANGED <<streamVars, actorVars, list, buffer, ver, weights, shift,
                 message, learnerShut, saving, diskVars, history>>

HasNaN(t) == t.kind = "nan"

\* process_transitions: a list is taken whole, and then no event is looked at
\* before its end.
TakeTransitions ==
  /\ lpc = "transitions" /\ list = <<>>
  /\ ~learnerShut /\ out["transitions"] # <<>>
  /\ list' = Head(out["transitions"])
  /\ out' = [out EXCEPT !["transitions"] = Tail(@)]
  /\ UNCHANGED <<queue, wire, call, breaks, actorVars, lpc, buffer, ver, weights,
                 shift, message, learnerShut, saving, diskVars, history>>

\* A transition with a NaN is left out.
AddTransition ==
  LET t == Head(list) IN
  /\ lpc = "transitions" /\ list # <<>>
  /\ list' = Tail(list) /\ processed' = Append(processed, t)
  /\ IF HasNaN(t) THEN UNCHANGED <<buffer, given>>
     ELSE buffer' = Add(buffer, t) /\ given' = Append(given, t)
  /\ UNCHANGED <<streamVars, actorVars, lpc, ver, weights, shift, message,
                 learnerShut, saving, diskVars, reported, pushed, session, earlier,
                 archived>>

TransitionsDone ==
  /\ lpc = "transitions" /\ list = <<>>
  /\ learnerShut \/ out["transitions"] = <<>>
  /\ lpc' = "interactions" /\ message' = None
  /\ UNCHANGED <<streamVars, actorVars, list, buffer, ver, weights, shift,
                 learnerShut, saving, diskVars, history>>

ProcessInteraction ==
  /\ lpc = "interactions" /\ ~learnerShut /\ out["interactions"] # <<>>
  /\ message' = Head(out["interactions"]) + shift
  /\ out' = [out EXCEPT !["interactions"] = Tail(@)]
  /\ reported' = message'
  /\ UNCHANGED <<queue, wire, call, breaks, actorVars, lpc, list,
                 buffer, ver, weights, shift, learnerShut, saving, diskVars, processed,
                 given, pushed, session, earlier, archived>>

InteractionsDone ==
  /\ lpc = "interactions" /\ (learnerShut \/ out["interactions"] = <<>>)
  /\ lpc' = IF buffer.size < Before \/ ver = MaxVer THEN "top" ELSE "train"
  /\ UNCHANGED <<streamVars, actorVars, list, buffer, ver, weights, shift,
                 message, learnerShut, saving, diskVars, history>>

\* An optimization step; parameters are pushed if the last push is old enough.
Train ==
  /\ lpc = "train" /\ Sampled(buffer) # {} /\ ver' = ver + 1
  /\ weights' = weights + 1
  /\ lpc' = IF ver' % SaveFreq = 0 THEN "unlink" ELSE "top"
  /\ \/ /\ queue' = [queue EXCEPT !["parameters"] = Append(@, weights')]
        /\ pushed' = weights'
     \/ UNCHANGED <<queue, pushed>>
  /\ UNCHANGED <<wire, out, call, breaks, actorVars, list, buffer,
                 shift, message, learnerShut, saving, diskVars, processed,
                 given, reported, session, earlier, archived>>

\* randint raises when there is nothing to draw from.
TrainFails ==
  /\ lpc = "train" /\ Sampled(buffer) = {}
  /\ lpc' = "stopped" /\ learnerShut' = TRUE
  /\ UNCHANGED <<streamVars, actorVars, list, buffer, ver, weights, shift, message,
                 saving, diskVars, history>>

\* save_training_checkpoint: the checkpoint's files, the link to the last
\* checkpoint (removed, then made), the dataset (removed, then written).
Unlink ==
  /\ lpc = "unlink" /\ lpc' = "link" /\ last' = None
  /\ saving' = [ver |-> ver, interaction |-> IF message = None THEN 0 ELSE message]
  /\ UNCHANGED <<streamVars, actorVars, list, buffer, ver, weights, shift,
                 message, learnerShut, dataset, history>>

Link ==
  /\ lpc = "link" /\ lpc' = "clear" /\ last' = saving /\ saving' = None
  /\ UNCHANGED <<streamVars, actorVars, list, buffer, ver, weights, shift,
                 message, learnerShut, dataset, history>>

Clear ==
  /\ lpc = "clear" /\ lpc' = "write" /\ dataset' = None
  /\ UNCHANGED <<streamVars, actorVars, list, buffer, ver, weights, shift,
                 message, learnerShut, saving, last, history>>

\* A dataset has no column for truncation.
Stored(t) == IF t.kind = "truncated" THEN [t EXCEPT !.kind = "mid"] ELSE t
StoredAll(g) == [k \in DOMAIN g |-> Stored(g[k])]

WriteSampled ==   \* mutant: the dataset is of what sample may draw
  /\ lpc = "write" /\ lpc' = "top"
  /\ dataset' = StoredAll(SubSeq(InOrder(buffer), 1, buffer.size - 1))
  /\ archived' = StoredAll(given)
  /\ UNCHANGED <<streamVars, actorVars, list, buffer, ver, weights, shift,
                 message, learnerShut, saving, last, processed, given, reported, pushed,
                 session, earlier>>

Write ==
  /\ lpc = "write" /\ lpc' = "top"
  /\ dataset' = StoredAll(InOrder(buffer)) /\ archived' = StoredAll(given)
  /\ UNCHANGED <<streamVars, actorVars, list, buffer, ver, weights, shift,
                 message, learnerShut, saving, last, processed, given, reported, pushed,
                 session, earlier>>

InterruptLearner ==
  /\ Signals < MaxSignals /\ ~learnerShut /\ learnerShut' = TRUE
  /\ UNCHANGED <<streamVars, actorVars, lpc, list, buffer, ver, weights, shift,
                 message, saving, diskVars, history>>

-----------------------------------------------------------------------------
\* Both are started again with resume=true, after whatever ended them: a
\* crash at any point included.
Resume ==
  /\ session < MaxSessions /\ session' = session + 1
  /\ last # None /\ dataset # None
  /\ FreshStreams
  /\ apc' = "acting" /\ acted' = <<>> /\ trace' = <<>>
  /\ here' = [episode |-> 0, step |-> 0] /\ loaded' = 0 /\ actorShut' = FALSE
  /\ lpc' = "top" /\ list' = <<>> /\ buffer' = FromDataset(dataset)
  /\ ver' = last.ver /\ weights' = 0
  /\ shift' = last.interaction /\ message' = None /\ learnerShut' = FALSE
  /\ saving' = None
  /\ processed' = <<>> /\ given' = archived /\ pushed' = 0
  /\ earlier' = earlier \o acted
  /\ UNCHANGED <<breaks, diskVars, reported, archived>>

Actor == Act \/ EndEpisode \/ StopActing \/ Joined
Learner ==
  \/ Top \/ TakeTransitions \/ AddTransition \/ TransitionsDone
  \/ ProcessInteraction \/ InteractionsDone
  \/ Train \/ TrainFails \/ Unlink \/ Link \/ Clear \/ Write

Next ==
  \/ Actor \/ Learner \/ InterruptActor \/ InterruptLearner \/ Resume
  \/ \E s \in Streams : Stream(s) \/ Break(s)

Fairness ==
  /\ WF_vars(Actor) /\ WF_vars(Learner)
  /\ \A s \in Streams : WF_vars(Stream(s))

Spec == Init /\ [][Next]_vars /\ Fairness

-----------------------------------------------------------------------------
\* As long as its stream is up every transition the actor made is with the
\* learner, on its way, queued, or of the episode that runs, once and in
\* order; after that the learner still has a prefix of what was made.
TransitionsInOrder ==
  LET s == "transitions"
      delivered == processed \o list \o FlattenSeq(out[s])
  IN
  /\ IsPrefix(delivered, acted)
  /\ call[s] # "over" =>
       acted = delivered \o FlattenSeq(wire[s]) \o FlattenSeq(queue[s]) \o trace

\* Draining a queue down to its newest item never drops the newest push: it
\* is in the stream, with the actor, or loaded, as long as the stream is up.
NewestSurvives ==
  LET s == "parameters"
      waiting == queue[s] \o wire[s] \o out[s]
  IN call[s] # "over" => loaded = pushed \/ Contains(waiting, pushed)

\* The kind of the step t as it was acted: the buffer may have it from a dataset.
Truly(t, kinds) ==
  \E u \in ToSet(earlier \o acted) :
    u = [t EXCEPT !.kind = u.kind] /\ u.kind \in kinds

Succeeds(u, t) ==
  u.session = t.session /\ u.episode = t.episode /\ u.step = t.step + 1

\* The next state a sample takes from the following slot is the transition's
\* own, but at the seams: at the end of an episode, before a transition that
\* was left out, and in a full ring at the newest slot.
WrongOnlyAtSeams ==
  \A i \in Sampled(buffer) :
    LET t == buffer.ring[i]
        next == buffer.ring[Following(i)]
    IN
    /\ Unset \notin {t, next}
    /\ \/ Succeeds(next, t)
       \/ Truly(t, {"done", "truncated"})
       \/ Truly([t EXCEPT !.step = @ + 1], {"nan"})
       \/ buffer.size = Capacity /\ Following(i) = buffer.position

\* The ring holds what the buffer was given last, and reads it out in the
\* order it was given.  Across restarts: after them it holds the last of all
\* that it had been given, in every session, when the dataset was written.
KeepsNewest ==
  LET n == Len(given) IN
  InOrder(buffer) = SubSeq(given, n - buffer.size + 1, n)
  /\ buffer.size = IF n < Capacity THEN n ELSE Capacity

\* When both sides are told to stop, both come to an end.
BothEnd == (actorShut /\ learnerShut) ~> (apc = "ended" /\ lpc = "stopped")
=============================================================================
