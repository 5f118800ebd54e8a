---------------------------- MODULE PolicyServer ----------------------------
(***************************************************************************)
(* The policy server: the gRPC handlers SendObservations, GetActions and   *)
(* Ready of PolicyServer, each run by a thread of the server's pool.  A    *)
(* step is what a handler does under one lock, or one access to the        *)
(* one-place observation queue.  The client at the other end of the two    *)
(* calls is as general as the protocol allows.                             *)
(***************************************************************************)
EXTENDS Integers

CONSTANTS
  Senders, Getters,   \* threads that run SendObservations and GetActions
  Nobody,             \* no thread
  MaxFailures,        \* _MAX_CONSECUTIVE_INFERENCE_FAILURES
  MaxTs, MaxEp,       \* bounds: timesteps, episodes the client starts
  MaxSessions,        \* bound: how often a client connects
  MaxFaults           \* bound: failed calls and failed inferences

ASSUME ServerAssumption ==
  /\ Senders # {} /\ Getters # {} /\ Nobody \notin Senders \cup Getters
  /\ MaxFailures \in Nat \ {0} /\ MaxTs \in Nat /\ MaxEp \in Nat \ {0}
  /\ MaxSessions \in Nat \ {0} /\ MaxFaults \in Nat

VARIABLES
  up, down,            \* the calls SendObservations and GetActions
  upBy, downBy,        \* the threads whose answers the client waits for
  queue,               \* observation_queue, of one place
  predicted,           \* _predicted_timesteps, with the episode of each
  processed,           \* last_processed_obs is not None
  epGen,               \* _episode_generation
  failures, broken,    \* _inference_failure_count, _policy_broken
  serving,             \* ~shutdown_event
  sPc, sObs,           \* per sender: where it is, its observation
  gPc, gObs, gSnap,    \* per getter: where it is, obs, ep_gen_snapshot
  rPc,                 \* Ready: where it is
  session,             \* how many clients have connected
  overtaken,           \* history: getters whose snapshot is of an episode
                       \* that has ended since
  steals,              \* history: observations taken for a broken call
  faults

sending == <<up, upBy, sPc, sObs>>
getting == <<down, downBy, gPc, gObs, gSnap, steals>>
policy  == <<processed, failures, broken>>
episode == <<predicted, epGen, overtaken>>
connection == <<serving, rPc, session>>
vars == <<sending, getting, queue, policy, episode, connection, faults>>

Generation == 1 .. MaxEp
Timestep == 0 .. MaxTs
Slot == [full : BOOLEAN, ts : Nat, ep : Generation]
NoObs == [full |-> FALSE, ts |-> 0, ep |-> 1]
NoSend == [st |-> "none", ts |-> 0, ep |-> 1, must |-> FALSE, start |-> FALSE]
Quiet == [st |-> "none", ts |-> 0, ep |-> 1]

SenderPc == {"idle", "clear", "decide", "room", "evict", "put", "stuck"}
GetterPc == {"idle", "get", "orphan", "snap", "prepare", "infer", "finish"}

TypeOK ==
  /\ up \in [st : {"none", "req", "ok", "lost"}, ts : Timestep,
             ep : Generation, must : BOOLEAN, start : BOOLEAN]
  /\ down \in [st : {"none", "call", "empty", "error", "chunk"},
               ts : Timestep, ep : Generation]
  /\ upBy \in Senders \cup {Nobody} /\ downBy \in Getters \cup {Nobody}
  /\ queue \in Slot /\ predicted \subseteq Timestep \X Generation
  /\ processed \in BOOLEAN /\ broken \in BOOLEAN /\ serving \in BOOLEAN
  /\ epGen \in Nat /\ failures \in 0 .. MaxFaults
  /\ sPc \in [Senders -> SenderPc] /\ gPc \in [Getters -> GetterPc]
  /\ gObs \in [Getters -> Slot] /\ gSnap \in [Getters -> Nat]
  /\ rPc \in {"idle", "timesteps", "counters", "clear"}
  /\ session \in 1 .. MaxSessions /\ overtaken \subseteq Getters
  /\ upBy # Nobody => up.st = "req" /\ sPc[upBy] # "idle"
  /\ downBy # Nobody => down.st = "call" /\ gPc[downBy] # "idle"
  /\ faults \in 0 .. MaxFaults /\ steals \in 0 .. faults

\* One client has connected and sent its policy instructions.
Init ==
  /\ up = NoSend /\ down = Quiet /\ upBy = Nobody /\ downBy = Nobody
  /\ queue = NoObs /\ predicted = {} /\ processed = FALSE
  /\ epGen = 0 /\ failures = 0 /\ broken = FALSE /\ serving = TRUE
  /\ sPc = [s \in Senders |-> "idle"] /\ sObs = [s \in Senders |-> NoSend]
  /\ gPc = [g \in Getters |-> "idle"] /\ gObs = [g \in Getters |-> NoObs]
  /\ gSnap = [g \in Getters |-> 0]
  /\ rPc = "idle" /\ session = 1 /\ overtaken = {} /\ steals = 0
  /\ faults = 0

Fault == faults < MaxFaults /\ faults' = faults + 1

SenderAt(s, pc) == sPc' = [sPc EXCEPT ![s] = pc]
GetterAt(g, pc) == gPc' = [gPc EXCEPT ![g] = pc]

-----------------------------------------------------------------------------
(***************************************************************************)
(* SendObservations.                                                       *)
(***************************************************************************)
EndSendStillAwaited(s, result) ==   \* mutant: the waiting client is not told
  /\ SenderAt(s, "idle")
  /\ sObs' = [sObs EXCEPT ![s] = NoSend]
  /\ UNCHANGED <<up, upBy>>

\* The thread's own call ends; the client hears of it only if it waits for
\* this thread.
EndSend(s, result) ==
  /\ SenderAt(s, "idle")
  /\ sObs' = [sObs EXCEPT ![s] = NoSend]
  /\ IF upBy = s
     THEN up' = [up EXCEPT !.st = result] /\ upBy' = Nobody
     ELSE UNCHANGED <<up, upBy>>

\* A thread takes the call.  gRPC's retry policy may issue a call again whose
\* connection broke, while the first thread is still at work on it.
BeginSend(s) ==
  /\ up.st = "req" /\ sPc[s] = "idle"
  /\ IF upBy = Nobody THEN UNCHANGED faults ELSE Fault
  /\ upBy' = s /\ sObs' = [sObs EXCEPT ![s] = up]
  /\ SenderAt(s, "clear")
  /\ UNCHANGED <<up, getting, queue, policy, episode, connection>>

\* The call breaks before any thread has taken it.
CallLost ==
  /\ up.st = "req" /\ upBy = Nobody /\ Fault
  /\ up' = [up EXCEPT !.st = "lost"]
  /\ UNCHANGED <<upBy, sPc, sObs, getting, queue, policy, episode, connection>>

\* receive_bytes_in_chunks returns None while the server is being reset.
DropWhileReset(s) ==
  /\ sPc[s] = "clear" /\ ~serving
  /\ EndSend(s, "ok")
  /\ UNCHANGED <<getting, queue, policy, episode, connection, faults>>

\* The getters that may still add a timestep and whose snapshot is of the episode
\* that ends; others are of an earlier one, or of a client that has gone.
Inferring == {g \in Getters : gPc[g] \in {"prepare", "infer"} /\ gSnap[g] = epGen}

\* Mutant: the generation is not moved on.
ClearPredictedOnly(s) ==
  /\ sPc[s] = "clear" /\ serving
  /\ SenderAt(s, "decide")
  /\ IF sObs[s].must
     THEN /\ predicted' = {}
          /\ overtaken' = IF sObs[s].start THEN overtaken \cup Inferring
                          ELSE overtaken
          /\ UNCHANGED epGen
     ELSE UNCHANGED episode
  /\ UNCHANGED <<up, upBy, sObs, getting, queue, policy, connection, faults>>

\* A must_go observation clears the predicted timesteps; one that starts an
\* episode also moves the episode generation on.
ClearPredicted(s) ==
  /\ sPc[s] = "clear" /\ serving
  /\ SenderAt(s, "decide")
  /\ IF sObs[s].must
     THEN /\ predicted' = {}
          /\ IF sObs[s].start
             THEN epGen' = epGen + 1 /\ overtaken' = overtaken \cup Inferring
             ELSE UNCHANGED <<epGen, overtaken>>
     ELSE UNCHANGED episode
  /\ UNCHANGED <<up, upBy, sObs, getting, queue, policy, connection, faults>>

\* _obs_sanity_checks: a timestep that was predicted is rejected, one similar
\* to the last processed observation may be.
Predicted(ts) == \E p \in predicted : p[1] = ts

Accept(s) ==
  /\ sPc[s] = "decide"
  /\ sObs[s].must \/ ~processed \/ ~Predicted(sObs[s].ts)
  /\ SenderAt(s, "room")
  /\ UNCHANGED <<up, upBy, sObs, getting, queue, policy, episode, connection,
                 faults>>

RejectMustGo(s) ==   \* mutant: must_go does not bypass the checks
  /\ sPc[s] = "decide" /\ processed
  /\ EndSend(s, "ok")
  /\ UNCHANGED <<getting, queue, policy, episode, connection, faults>>

Reject(s) ==
  /\ sPc[s] = "decide"
  /\ ~sObs[s].must /\ processed
  /\ EndSend(s, "ok")
  /\ UNCHANGED <<getting, queue, policy, episode, connection, faults>>

PutUntested(s) ==   \* mutant: full() is not asked
  /\ sPc[s] = "room"
  /\ SenderAt(s, "put")
  /\ UNCHANGED <<up, upBy, sObs, getting, queue, policy, episode, connection,
                 faults>>

\* observation_queue.full() ...
TestFull(s) ==
  /\ sPc[s] = "room"
  /\ SenderAt(s, IF queue.full THEN "evict" ELSE "put")
  /\ UNCHANGED <<up, upBy, sObs, getting, queue, policy, episode, connection,
                 faults>>

\* ... then get_nowait(), which raises when another thread was faster ...
Evict(s) ==
  /\ sPc[s] = "evict" /\ queue.full
  /\ queue' = NoObs
  /\ SenderAt(s, "put")
  /\ UNCHANGED <<up, upBy, sObs, getting, policy, episode, connection, faults>>

EvictBlocks(s) ==   \* mutant: get() in place of get_nowait()
  /\ sPc[s] = "evict" /\ ~queue.full
  /\ UNCHANGED vars

EvictRaises(s) ==
  /\ sPc[s] = "evict" /\ ~queue.full
  /\ EndSend(s, "lost")
  /\ UNCHANGED <<getting, queue, policy, episode, connection, faults>>

\* ... then put(), which blocks while the queue is full.  The answer of the
\* call may be lost, and the call be issued again.
PutObs(s) ==
  /\ sPc[s] = "put" /\ ~queue.full
  /\ queue' = [full |-> TRUE, ts |-> sObs[s].ts, ep |-> sObs[s].ep]
  /\ \/ EndSend(s, "ok") /\ UNCHANGED faults
     \/ EndSend(s, "lost") /\ upBy = s /\ Fault
     \/ /\ upBy = s /\ Fault
        /\ SenderAt(s, "clear") /\ UNCHANGED <<up, upBy, sObs>>
  /\ UNCHANGED <<getting, policy, episode, connection>>

SendStep(s) ==
  \/ BeginSend(s) \/ DropWhileReset(s) \/ ClearPredicted(s) \/ Accept(s)
  \/ Reject(s) \/ TestFull(s) \/ Evict(s) \/ EvictRaises(s) \/ PutObs(s)

-----------------------------------------------------------------------------
(***************************************************************************)
(* GetActions.                                                             *)
(***************************************************************************)
EndGet(g, reply) ==
  /\ GetterAt(g, "idle")
  /\ gObs' = [gObs EXCEPT ![g] = NoObs]
  /\ gSnap' = [gSnap EXCEPT ![g] = 0]
  /\ IF downBy = g
     THEN down' = reply /\ downBy' = Nobody
     ELSE UNCHANGED <<down, downBy>>
  /\ UNCHANGED steals

EmptyReply == [Quiet EXCEPT !.st = "empty"]

BeginGet(g) ==
  /\ down.st = "call" /\ gPc[g] = "idle"
  /\ IF downBy = Nobody THEN UNCHANGED faults ELSE Fault
  /\ IF broken
     THEN /\ down' = EmptyReply /\ downBy' = Nobody
          /\ UNCHANGED gPc
     ELSE /\ GetterAt(g, "get") /\ downBy' = g
          /\ UNCHANGED down
  /\ UNCHANGED <<sending, gObs, gSnap, steals, queue, policy, episode,
                 connection>>

\* The client sees an RpcError while the thread works on.
CallBreaks ==
  /\ down.st = "call" /\ Fault
  /\ down' = [Quiet EXCEPT !.st = "error"] /\ downBy' = Nobody
  /\ UNCHANGED <<sending, gPc, gObs, gSnap, steals, queue, policy, episode,
                 connection>>

\* observation_queue.get(timeout).
TakeObs(g) ==
  /\ gPc[g] = "get" /\ queue.full
  /\ steals' = IF downBy = g THEN steals ELSE steals + 1
  /\ gObs' = [gObs EXCEPT ![g] = queue] /\ queue' = NoObs
  /\ GetterAt(g, "snap")
  /\ UNCHANGED <<sending, down, downBy, gSnap, policy, episode, connection,
                 faults>>

TimeOut(g) ==
  /\ \/ gPc[g] = "get" /\ ~queue.full
     \/ gPc[g] = "orphan"
  /\ EndGet(g, EmptyReply)
  /\ UNCHANGED <<sending, queue, policy, episode, connection, faults>>

SnapGeneration(g) ==
  /\ gPc[g] = "snap"
  /\ gSnap' = [gSnap EXCEPT ![g] = epGen]
  /\ GetterAt(g, "prepare") /\ overtaken' = overtaken \ {g}
  /\ UNCHANGED <<sending, down, downBy, gObs, steals, queue, policy, predicted,
                 epGen, connection, faults>>

\* The preprocessor has run: last_processed_obs is set before the model runs.
Prepare(g) ==
  /\ gPc[g] = "prepare"
  /\ processed' = TRUE
  /\ GetterAt(g, "infer")
  /\ UNCHANGED <<sending, down, downBy, gObs, gSnap, steals, queue, failures,
                 broken, episode, connection, faults>>

\* Preprocessing or inference raises.
InferFails(g) ==
  /\ gPc[g] \in {"prepare", "infer"} /\ Fault
  /\ failures' = failures + 1
  /\ broken' = (broken \/ failures + 1 >= MaxFailures)
  /\ EndGet(g, EmptyReply)
  /\ UNCHANGED <<sending, queue, processed, episode, connection>>

\* The model has run: the timestep counts as predicted unless an episode began
\* meanwhile.
AddPredicted(g) ==
  /\ gPc[g] = "infer"
  /\ predicted' = IF epGen = gSnap[g]
                  THEN predicted \cup {<<gObs[g].ts, gObs[g].ep>>}
                  ELSE predicted
  /\ GetterAt(g, "finish")
  /\ UNCHANGED <<sending, down, downBy, gObs, gSnap, steals, queue, policy,
                 epGen, overtaken, connection, faults>>

Finish(g) ==
  /\ gPc[g] = "finish"
  /\ failures' = 0
  /\ EndGet(g, [st |-> "chunk", ts |-> gObs[g].ts, ep |-> gObs[g].ep])
  /\ UNCHANGED <<sending, queue, processed, broken, episode, connection,
                 faults>>

GetStep(g) ==
  \/ BeginGet(g) \/ TakeObs(g) \/ TimeOut(g) \/ SnapGeneration(g)
  \/ Prepare(g) \/ InferFails(g) \/ AddPredicted(g) \/ Finish(g)

-----------------------------------------------------------------------------
(***************************************************************************)
(* Ready: _reset_server, when another client connects; what it sends counts *)
(* as a new episode.  Threads of the old client may still be at work.  Of  *)
(* those that block on the old queue object, a get() times out (one that   *)
(* still finds an observation there has got it before Ready) and a put()   *)
(* never returns: it is "stuck", and so is its thread of the pool.         *)
(***************************************************************************)
ReadyQueue ==
  /\ rPc = "idle" /\ session < MaxSessions
  /\ up.ep < MaxEp
  /\ up' = [NoSend EXCEPT !.ep = up.ep + 1] /\ upBy' = Nobody
  /\ down' = Quiet /\ downBy' = Nobody
  /\ session' = session + 1
  /\ serving' = FALSE /\ rPc' = "timesteps"
  /\ queue' = NoObs
  /\ gPc' = [g \in Getters |-> IF gPc[g] = "get" THEN "orphan" ELSE gPc[g]]
  /\ \E blocked \in SUBSET {s \in Senders : sPc[s] = "put" /\ queue.full} :
       sPc' = [s \in Senders |-> IF s \in blocked THEN "stuck" ELSE sPc[s]]
  /\ UNCHANGED <<sObs, gObs, gSnap, steals, policy, episode, faults>>

ReadyTimesteps ==
  /\ rPc = "timesteps" /\ rPc' = "counters"
  /\ predicted' = {}
  /\ UNCHANGED <<sending, getting, queue, policy, epGen, overtaken, serving,
                 session, faults>>

ReadyCounters ==
  /\ rPc = "counters" /\ rPc' = "clear"
  /\ failures' = 0 /\ broken' = FALSE /\ epGen' = 0
  /\ overtaken' = {}
  /\ UNCHANGED <<sending, getting, queue, processed, predicted, serving, session,
                 faults>>

ReadyClear ==
  /\ rPc = "clear" /\ rPc' = "idle"
  /\ serving' = TRUE
  /\ UNCHANGED <<sending, getting, queue, policy, episode, session, faults>>

ReadyStep == ReadyQueue \/ ReadyTimesteps \/ ReadyCounters \/ ReadyClear

-----------------------------------------------------------------------------
(***************************************************************************)
(* The client: one observation and one poll at a time.  An observation     *)
(* that starts an episode is must_go and opens the next episode.           *)
(***************************************************************************)
\* The episode of the client: up and sObs carry it on.
ClientSends ==
  /\ up.st # "req" /\ rPc = "idle"
  /\ \E ts \in Timestep, must, start \in BOOLEAN :
       /\ start => must /\ up.ep < MaxEp
       /\ up' = [st |-> "req", ts |-> ts, must |-> must, start |-> start,
                 ep |-> IF start THEN up.ep + 1 ELSE up.ep]
  /\ UNCHANGED <<upBy, sPc, sObs, getting, queue, policy, episode, connection,
                 faults>>

ClientPolls ==
  /\ down.st # "call" /\ rPc = "idle"
  /\ down' = [Quiet EXCEPT !.st = "call"]
  /\ UNCHANGED <<sending, downBy, gPc, gObs, gSnap, steals, queue, policy,
                 episode, connection, faults>>

ClientStep == ClientSends \/ ClientPolls

Next ==
  \/ \E s \in Senders : SendStep(s)
  \/ \E g \in Getters : GetStep(g)
  \/ CallLost \/ CallBreaks \/ ReadyStep \/ ClientStep

\* Every thread of the pool runs, a get() that waits for an observation while
\* observations come by gets one, a put() that waits for room while room comes
\* by gets it (the waiters of a Condition are woken in turn), and the client
\* keeps polling.
Fairness ==
  /\ \A s \in Senders : WF_vars(SendStep(s)) /\ SF_vars(PutObs(s))
  /\ \A g \in Getters : WF_vars(GetStep(g)) /\ SF_vars(TakeObs(g))
  /\ WF_vars(ReadyStep)
  /\ WF_vars(ClientPolls)

Spec == Init /\ [][Next]_vars /\ Fairness

-----------------------------------------------------------------------------
(***************************************************************************)
(* What one client sees is what PolicyService promises.                    *)
(***************************************************************************)
Live == downBy # Nobody /\ gPc[downBy] \in {"snap", "prepare", "infer", "finish"}

\* The observation under inference, and the fate of the one being sent.
Busy == IF Live THEN gObs[downBy] ELSE NoObs
Fate ==
  IF \E s \in Senders : sPc[s] = "put" THEN "room"
  ELSE IF \E s \in Senders : sPc[s] = "evict" /\ ~queue.full THEN "doomed"
  ELSE "open"

Promise == INSTANCE PolicyService WITH
  MaxFaults <- 2 * MaxFaults,
  faults <- faults + steals,
  held <- queue,
  busy <- Busy,
  fate <- Fate

\* One client with one call of each kind at a time sees a service that holds
\* at most one observation, always the newest it accepted, filters none with
\* must_go, and answers each from the observation it took: the handlers'
\* interleavings show as nothing worse than a call that fails because its
\* eviction was overtaken.
RefinesService == Promise!ServiceSpec

\* Every SendObservations call the client makes ends, and so does every thread
\* that runs one, also one whose client has given it up or gone: neither the
\* eviction nor the put on the one-place queue blocks it for good.  Excepted are
\* a policy that counts as broken, when nothing is dequeued any more, and the
\* thread that Ready leaves blocked on the queue it replaces.
SendReturns ==
  /\ []<>(up.st # "req" \/ broken)
  /\ \A s \in Senders : []<>(sPc[s] \in {"idle", "stuck"} \/ broken)

\* A thread is left blocked for good only if two calls of one client were at
\* work at once, one issued again while the other was not done, or if a client
\* before the last left one: a client that never reissues a call finds the queue
\* not full at its put, as the comment there says, and leaves no thread behind.
StuckNeedsReissue ==
  (\E s \in Senders : sPc[s] = "stuck") => faults > 0 \/ session > 2

\* An inference that had its snapshot when the next episode began adds no
\* timestep to that episode: the comparison of generations stops it, unless
\* another client connects and the generations start anew.
OldInferenceAddsNothing ==
  [][\A g \in overtaken : gPc[g] = "infer" /\ gPc'[g] = "finish"
       => predicted' = predicted]_vars
=============================================================================
