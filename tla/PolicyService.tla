---------------------------- MODULE PolicyService ----------------------------
(***************************************************************************)
(* What the policy server promises one client, without its handlers: at    *)
(* most one observation waits, at most one is under inference, a newer     *)
(* observation replaces the one that waits, and only an observation        *)
(* without must_go may be filtered.  Faults are what gRPC and the policy   *)
(* may do wrong; MaxFaults bounds how often.                               *)
(***************************************************************************)
EXTENDS Naturals

CONSTANTS
  Generation,    \* the client's episodes
  MaxFailures,   \* _MAX_CONSECUTIVE_INFERENCE_FAILURES
  MaxFaults      \* bound: how often a call or an inference may fail

VARIABLES up, down,     \* the calls SendObservations and GetActions
          held, busy,   \* the observation waiting, the one under inference
          fate,         \* of the observation being sent: open, "room" was
                        \* made for it, or "doomed" by a lost race
          failures,     \* inferences that failed in a row
          broken,       \* the policy counts as broken
          faults        \* bound: faults so far

counts == <<failures, broken>>
serviceVars == <<up, down, held, busy, fate, counts, faults>>

Slot  == [full : BOOLEAN, ts : Nat, ep : Generation]
Empty == [full |-> FALSE, ts |-> 0, ep |-> 1]
Full(o) == [full |-> TRUE, ts |-> o.ts, ep |-> o.ep]

ServiceTypeOK ==
  /\ held \in Slot /\ busy \in Slot
  /\ fate \in {"open", "room", "doomed"}
  /\ faults \in 0 .. MaxFaults
  /\ failures \in 0 .. faults /\ broken \in BOOLEAN

ServiceInit ==
  /\ held = Empty /\ busy = Empty /\ fate = "open"
  /\ failures = 0 /\ broken = FALSE /\ faults = 0

Fault == faults < MaxFaults /\ faults' = faults + 1

\* An inference fails: MaxFailures in a row, and the policy counts as broken,
\* for good.
CountFailure ==
  failures' = failures + 1 /\ broken' = (broken \/ failures + 1 >= MaxFailures)

(***************************************************************************)
(* SendObservations.                                                       *)
(***************************************************************************)
AcceptObs ==
  /\ up.st = "req" /\ fate # "doomed"
  /\ held' = Full(up)
  /\ up' = [up EXCEPT !.st = "ok"] /\ fate' = "open"
  /\ UNCHANGED <<down, busy, counts, faults>>

FilterObs ==
  /\ up.st = "req" /\ ~up.must /\ fate = "open"
  /\ up' = [up EXCEPT !.st = "ok"]
  /\ UNCHANGED <<down, held, busy, fate, counts, faults>>

\* The observation that waits, if any, is thrown out for the new one.
MakeRoom ==
  /\ up.st = "req" /\ fate = "open"
  /\ held' = Empty /\ fate' = "room"
  /\ UNCHANGED <<up, down, busy, counts, faults>>

\* What was to be thrown out has been dequeued instead: the call fails.
FailDoomed ==
  /\ up.st = "req" /\ fate = "doomed"
  /\ up' = [up EXCEPT !.st = "lost"] /\ fate' = "open"
  /\ UNCHANGED <<down, held, busy, counts, faults>>

\* The call fails, before or after the observation is enqueued.
LoseObs ==
  /\ up.st = "req" /\ fate # "doomed" /\ Fault
  /\ held' \in IF fate = "room" THEN {Full(up)} ELSE {held, Full(up)}
  /\ up' = [up EXCEPT !.st = "lost"] /\ fate' = "open"
  /\ UNCHANGED <<down, busy, counts>>

\* The answer is lost and gRPC's retry policy sends the request again.
RetryObs ==
  /\ up.st = "req" /\ fate # "doomed" /\ Fault
  /\ held' = Full(up) /\ fate' = "open"
  /\ UNCHANGED <<up, down, busy, counts>>

(***************************************************************************)
(* GetActions.                                                             *)
(***************************************************************************)
\* A dequeue may come between the test that the queue is full and the eviction
\* by the observation being sent.
Overtaken ==
  \/ UNCHANGED fate
  \/ up.st = "req" /\ fate = "open" /\ fate' = "doomed"

Dequeue ==
  /\ down.st = "call" /\ held.full /\ ~busy.full
  /\ busy' = held /\ held' = Empty
  /\ Overtaken
  /\ UNCHANGED <<up, down, counts, faults>>

ReplyChunk ==
  /\ down.st = "call" /\ busy.full
  /\ down' = [st |-> "chunk", ts |-> busy.ts, ep |-> busy.ep]
  /\ busy' = Empty /\ failures' = 0
  /\ UNCHANGED <<up, held, fate, broken, faults>>

\* obs_queue_timeout expires.
ReplyEmpty ==
  /\ down.st = "call" /\ ~held.full /\ ~busy.full
  /\ down' = [down EXCEPT !.st = "empty"]
  /\ UNCHANGED <<up, held, busy, fate, counts, faults>>

\* Inference raises: the observation is gone, the client is told nothing.
InferenceFails ==
  /\ down.st = "call" /\ busy.full /\ Fault /\ CountFailure
  /\ down' = [down EXCEPT !.st = "empty"]
  /\ busy' = Empty
  /\ UNCHANGED <<up, held, fate>>

\* The call fails with an RpcError, and with it the chunk it was to carry.
CallFails ==
  /\ down.st = "call" /\ Fault
  /\ down' = [down EXCEPT !.st = "error"]
  /\ busy' = Empty
  /\ UNCHANGED <<up, held, fate, counts>>

\* The answer is lost and gRPC's retry policy issues the call again.
RetryCall ==
  /\ down.st = "call" /\ busy.full /\ Fault
  /\ busy' = Empty
  /\ UNCHANGED <<up, down, held, fate, counts>>

\* A call nobody waits for any more may still be at work: a fault left it behind
\* that was no failed inference.
Forgotten == failures < faults

\* It takes an observation ...
StealObs ==
  /\ held.full /\ Forgotten /\ Fault
  /\ held' = Empty
  /\ Overtaken
  /\ UNCHANGED <<up, down, busy, counts>>

\* ... or its inference fails; or a call is issued again in time ...
HiddenFault ==
  /\ Fault /\ ((Forgotten /\ CountFailure) \/ UNCHANGED counts)
  /\ UNCHANGED <<up, down, held, busy, fate>>

\* ... or it ends well.
ForgottenEnds ==
  /\ Forgotten /\ failures' = 0
  /\ UNCHANGED <<up, down, held, busy, fate, broken, faults>>

\* Once the policy counts as broken calls are answered at once, also one that is
\* issued again while the first is still at work.
ReplyBroken ==
  /\ down.st = "call" /\ broken
  /\ down' = [down EXCEPT !.st = "empty"]
  /\ \/ ~busy.full /\ UNCHANGED <<busy, faults>>
     \/ Fault /\ busy' = Empty
  /\ UNCHANGED <<up, held, fate, counts>>

TakeObs == AcceptObs \/ FilterObs \/ MakeRoom \/ FailDoomed
AnswerCall == Dequeue \/ ReplyChunk \/ ReplyEmpty

ServiceNext ==
  \/ TakeObs \/ AnswerCall
  \/ LoseObs \/ RetryObs \/ InferenceFails \/ CallFails \/ RetryCall
  \/ StealObs \/ HiddenFault \/ ForgottenEnds \/ ReplyBroken

\* What a client may do: begin a call, and take the answer of one.
ClientStep ==
  /\ UNCHANGED <<held, busy, fate, counts, faults>>
  /\ up.st = "req" => up' = up
  /\ down.st = "call" => down' = down

ServiceSpec ==
  ServiceInit /\ [][ServiceNext \/ ClientStep]_serviceVars
=============================================================================
