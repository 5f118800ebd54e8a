------------------------ MODULE AsyncInferenceProofs ------------------------
(***************************************************************************)
(* Theorems about AsyncInference, for every value of its constants.        *)
(***************************************************************************)
EXTENDS AsyncInference, AsyncClientProofs

-----------------------------------------------------------------------------
(***************************************************************************)
(* Types.                                                                  *)
(***************************************************************************)
TypeInv == TypeOK /\ ClientTypeInv

LEMMA TypeInit == Init => TypeInv
<1> SUFFICES ASSUME Init
             PROVE  TypeInv
    OBVIOUS
<1>1. ClientTypeInv
      BY ClientTypeInit DEF Init
<1>2. Service!ServiceTypeOK
  <2>1. held \in Service!Slot /\ busy \in Service!Slot
        BY ClientAssumption
           DEF Init, Service!ServiceInit, Service!Slot, Service!Empty, Generation,
               ClientAssumption
  <2>2. failures \in 0 .. faults /\ faults \in 0 .. MaxFaults
        BY FaultAssumption DEF Init, Service!ServiceInit, FaultAssumption
  <2>3. broken \in BOOLEAN /\ fate \in {"open", "room", "doomed"}
        BY Zenon DEF Init, Service!ServiceInit
  <2>4. QED
        BY <2>1, <2>2, <2>3 DEF Service!ServiceTypeOK
<1>3. QED
      BY <1>1, <1>2, Zenon DEF Init, TypeInv, TypeOK, ClientTypeInv

LEMMA TypeClient ==
  TypeInv /\ ClientMove /\ raced' \in BOOLEAN => TypeInv'
<1> SUFFICES ASSUME TypeInv, ClientMove, raced' \in BOOLEAN
             PROVE  TypeInv'
    OBVIOUS
<1>1. ClientTypeInv'
      BY ClientTypeControl, ClientTypeReceiver DEF TypeInv, ClientMove, ClientNext
<1>2. Service!ServiceTypeOK'
      BY DEF TypeInv, TypeOK, ClientMove, service, Service!ServiceTypeOK
<1>3. QED
      BY <1>1, <1>2, Zenon DEF TypeInv, TypeOK, ClientTypeInv

LEMMA TypeService ==
  TypeInv /\ ServiceMove /\ raced' \in BOOLEAN => TypeInv'
<1> SUFFICES ASSUME TypeInv, ServiceMove, raced' \in BOOLEAN
             PROVE  TypeInv'
    OBVIOUS
<1>0. FlagsOK'
      BY DEF TypeInv, TypeOK, ClientTypeOK, ServiceMove, FlagsOK, control,
             receiver, shared
<1> USE FaultAssumption, ClientAssumption
    DEF FaultAssumption, ClientAssumption, TypeInv, TypeOK, ClientTypeOK,
        Service!ServiceTypeOK, Service!Slot, Service!Full, Service!Empty, Service!Fault,
        Service!Overtaken, Service!CountFailure, Service!counts, Sends, Polls,
        Generation
<1>1. /\ Service!ServiceTypeOK'
      /\ up' \in Sends /\ down' \in Polls
  <2>1. CASE Service!AcceptObs
        BY <2>1 DEF Service!AcceptObs
  <2>2. CASE Service!FilterObs
        BY <2>2 DEF Service!FilterObs
  <2>3. CASE Service!MakeRoom
        BY <2>3 DEF Service!MakeRoom
  <2>4. CASE Service!FailDoomed
        BY <2>4 DEF Service!FailDoomed
  <2>5. CASE Service!LoseObs
    <3>1. held' = held \/ held' = Service!Full(up)
          BY <2>5 DEF Service!LoseObs
    <3>2. /\ UNCHANGED <<down, busy, failures, broken>>
          /\ Service!Fault /\ fate' = "open"
          /\ up' = [up EXCEPT !.st = "lost"]
          BY <2>5 DEF Service!LoseObs
    <3>3. CASE held' = held
          BY <3>2, <3>3
    <3>4. CASE held' = Service!Full(up)
          BY <3>2, <3>4
    <3>5. QED
          BY <3>1, <3>3, <3>4
  <2>6. CASE Service!RetryObs
        BY <2>6 DEF Service!RetryObs
  <2>7. CASE Service!Dequeue
        BY <2>7 DEF Service!Dequeue
  <2>8. CASE Service!ReplyChunk
        BY <2>8 DEF Service!ReplyChunk
  <2>9. CASE Service!ReplyEmpty
        BY <2>9 DEF Service!ReplyEmpty
  <2>10. CASE Service!InferenceFails
        BY <2>10 DEF Service!InferenceFails
  <2>11. CASE Service!CallFails
        BY <2>11 DEF Service!CallFails
  <2>12. CASE Service!RetryCall
        BY <2>12 DEF Service!RetryCall
  <2>13. CASE Service!StealObs
        BY <2>13 DEF Service!StealObs
  <2>14. CASE Service!HiddenFault
    <3>1. Service!Fault /\ UNCHANGED <<up, down, held, busy, fate>>
          BY <2>14 DEF Service!HiddenFault
    <3>2. CASE Service!CountFailure
          BY <3>1, <3>2
    <3>3. CASE UNCHANGED <<failures, broken>>
          BY <3>1, <3>3
    <3>4. QED
          BY <2>14, <3>2, <3>3 DEF Service!HiddenFault
  <2>15. CASE Service!ForgottenEnds
        BY <2>15 DEF Service!ForgottenEnds
  <2>16. CASE Service!ReplyBroken
    <3>1. /\ down' = [down EXCEPT !.st = "empty"]
          /\ UNCHANGED <<up, held, fate, failures, broken>>
          BY <2>16 DEF Service!ReplyBroken, Service!counts
    <3>2. \/ UNCHANGED <<busy, faults>>
          \/ Service!Fault /\ busy' = Service!Empty
          BY <2>16 DEF Service!ReplyBroken
    <3>3. CASE UNCHANGED <<busy, faults>>
          BY <3>1, <3>3
    <3>4. CASE Service!Fault /\ busy' = Service!Empty
          BY <3>1, <3>4
    <3>5. QED
          BY <3>2, <3>3, <3>4
  <2>17. QED
        BY <2>1, <2>2, <2>3, <2>4, <2>5, <2>6, <2>7, <2>8, <2>9, <2>10, <2>11,
           <2>12, <2>13, <2>14, <2>15, <2>16
           DEF ServiceMove, Service!ServiceNext, Service!TakeObs,
               Service!AnswerCall
<1>2. QED
      BY <1>0, <1>1 DEF TypeInv, TypeOK, ClientTypeInv, ClientTypeOK, ServiceMove,
         control, receiver, shared

LEMMA TypeNext == TypeInv /\ [Next]_vars => TypeInv'
<1> SUFFICES ASSUME TypeInv, [Next]_vars
             PROVE  TypeInv'
    OBVIOUS
<1>1. CASE UNCHANGED vars
      BY <1>1
         DEF vars, clientVars, control, receiver, shared, service, TypeInv, TypeOK,
             ClientTypeInv, ClientTypeOK, FlagsOK, Service!ServiceTypeOK
<1>2. CASE Recorded(ClientMove \/ ServiceMove)
  <2>1. raced' \in BOOLEAN
        BY <1>2, Zenon DEF Recorded, TypeInv, TypeOK
  <2>2. CASE ServiceMove
        BY <2>1, <2>2, TypeService
  <2>3. CASE ClientMove
        BY <2>1, <2>3, TypeClient
  <2>4. QED
        BY <1>2, <2>2, <2>3 DEF Recorded
<1>3. CASE Terminated
      BY <1>1, <1>3 DEF Terminated
<1>4. QED
      BY <1>1, <1>2, <1>3 DEF Next

\* Every variable stays in its type: in particular the consecutive empty steps
\* never pass the threshold at which an observation is forced, and the receiver
\* counts no error past the one that stops the client.
THEOREM TypeCorrect == Spec => []TypeOK
<1>1. TypeInv => TypeOK
      BY DEF TypeInv
<1>2. QED
      BY <1>1, TypeInit, TypeNext, PTL DEF Spec

-----------------------------------------------------------------------------
(***************************************************************************)
(* The action queue.                                                       *)
(***************************************************************************)
\* Three steps touch the queue.
LEMMA QueueSteps ==
  [Next]_vars => \/ UNCHANGED queue \/ PopAction \/ ResetQueue \/ SwapQueue
<1> SUFFICES ASSUME [Next]_vars
             PROVE  \/ UNCHANGED queue \/ PopAction \/ ResetQueue \/ SwapQueue
    OBVIOUS
<1> USE DEF shared
<1>1. CASE ControlStep
      BY <1>1
         DEF ControlStep, ActionsAvailable, PopFromEmpty, CommitLatest,
             ReadyToSend, CollectLeftover, SampleQueue, SendObservation,
             SendInitialObs, ClearMustGo, EndEpisode, ResetGeneration,
             ResetChunkSize, ResetLatest, ResetOrig, ResetFlags
<1>2. CASE ReceiverStep
      BY <1>2
         DEF ReceiverStep, PollActions, ReceiveEmpty, ReceiveError,
             DiscardStale, KeepChunk, SetChunkSize, FillOrigBuf, ReadLatest, RearmMustGo
<1>3. CASE ServiceMove \/ UNCHANGED vars
      BY <1>3 DEF ServiceMove, vars, clientVars
<1>4. QED
      BY <1>1, <1>2, <1>3
         DEF Next, Recorded, ClientMove, ClientNext, Terminated

LEMMA MergedIsSuffix ==
  ASSUME NEW o \in Obs, NEW n \in Nat \cup {-1},
         queue' = {a \in Actions(o) : a.ts > n}
  PROVE  QueueIsChunkSuffix'
<1> SUFFICES ASSUME NEW a \in queue'
             PROVE  /\ a.obs <= a.ts /\ a.ts < a.obs + ChunkLen
                    /\ \A b \in queue' : b.obs = a.obs /\ b.ep = a.ep
                    /\ \A t \in a.ts .. (a.obs + ChunkLen - 1) :
                         [ts |-> t, ep |-> a.ep, obs |-> a.obs] \in queue'
    BY DEF QueueIsChunkSuffix
<1> USE ClientAssumption DEF ClientAssumption, Obs
<1>1. /\ a.ts \in o.ts .. (o.ts + ChunkLen - 1) /\ a.ts > n
      /\ a.ep = o.ep /\ a.obs = o.ts
      BY DEF Actions
<1>2. \A b \in queue' : b.obs = o.ts /\ b.ep = o.ep
      BY DEF Actions
<1>3. ASSUME NEW t \in a.ts .. (a.obs + ChunkLen - 1)
      PROVE  [ts |-> t, ep |-> a.ep, obs |-> a.obs] \in queue'
      BY <1>1, <1>3 DEF Actions
<1>4. QED
      BY <1>1, <1>2, <1>3

LEMMA SuffixNext ==
  TypeInv /\ QueueIsChunkSuffix /\ [Next]_vars => QueueIsChunkSuffix'
<1> SUFFICES ASSUME TypeInv, QueueIsChunkSuffix, [Next]_vars
             PROVE  QueueIsChunkSuffix'
    OBVIOUS
<1>1. CASE UNCHANGED queue
      BY <1>1 DEF QueueIsChunkSuffix
<1>2. CASE PopAction
  <2>1. PICK a \in queue : queue' = queue \ {a} /\ \A b \in queue : a.ts <= b.ts
        BY <1>2 DEF PopAction
  <2>2. ASSUME NEW b \in queue', NEW t \in b.ts .. (b.obs + ChunkLen - 1)
        PROVE  [ts |-> t, ep |-> b.ep, obs |-> b.obs] \in queue'
    <3>1. [ts |-> t, ep |-> b.ep, obs |-> b.obs] \in queue
          BY <2>1, <2>2 DEF QueueIsChunkSuffix
    <3>2. CASE t = a.ts
      <4>1. b.ts = a.ts /\ b.ep = a.ep /\ b.obs = a.obs
            BY <2>1, <2>2, <3>2
               DEF QueueIsChunkSuffix, TypeInv, TypeOK, ClientTypeOK
      <4>2. b = a
            BY <2>1, <2>2, <4>1 DEF TypeInv, TypeOK, ClientTypeOK
      <4>3. QED
            BY <2>1, <4>2
    <3>3. CASE t # a.ts
          BY <2>1, <3>1, <3>3
    <3>4. QED
          BY <3>2, <3>3
  <2>3. QED
        BY <2>1, <2>2 DEF QueueIsChunkSuffix
<1>3. CASE ResetQueue
      BY <1>3 DEF ResetQueue, QueueIsChunkSuffix
<1>4. CASE SwapQueue
      BY <1>4, MergedIsSuffix
         DEF SwapQueue, Merged, TypeInv, TypeOK, ClientTypeOK
<1>5. QED
      BY <1>1, <1>2, <1>3, <1>4, QueueSteps

\* The queue is at all times the rest of one chunk without a hole: a merge
\* replaces it whole, and the control thread takes its first action.
THEOREM SuffixCorrect == Spec => []QueueIsChunkSuffix
<1>1. Init => QueueIsChunkSuffix
      BY DEF Init, ClientInit, QueueIsChunkSuffix
<1>2. QED
      BY <1>1, SuffixNext, TypeInit, TypeNext, PTL DEF Spec

-----------------------------------------------------------------------------
(***************************************************************************)
(* Re-execution.  As long as no merge overlapped an uncommitted pop or a   *)
(* reset, latest_action is exact whenever the receiver samples it, and     *)
(* nothing that was executed is in the queue.                              *)
(***************************************************************************)
Exact ==
  ~raced => /\ ~Overlap
            /\ \A a \in queue : a.ts > high
            /\ pcC # "commit" => latest = high
            /\ pcC = "commit" => pending = high
            /\ pcR = "swap" => rLatest = high

ExactInv == TypeInv /\ QueueIsChunkSuffix /\ Exact

LEMMA RacedStep ==
  ASSUME Recorded(ClientMove \/ ServiceMove), ~raced'
  PROVE  ~raced /\ ~Overlap'
BY Zenon DEF Recorded

LEMMA ExactPop ==
  ASSUME ExactInv, PopAction, Recorded(ClientMove \/ ServiceMove)
  PROVE  Exact'
<1> SUFFICES ASSUME ~raced'
             PROVE  Exact'
    BY DEF Exact
<1> USE DEF ExactInv, TypeInv, TypeOK, ClientTypeOK
<1>1. ~raced /\ ~Overlap'
      BY RacedStep
<1>2. PICK a \in queue : /\ \A b \in queue : a.ts <= b.ts
                         /\ queue' = queue \ {a}
                         /\ pending' = a.ts
                         /\ high' = IF a.ts > high THEN a.ts ELSE high
      BY DEF PopAction
<1>3. high' = a.ts
      BY <1>1, <1>2 DEF Exact
<1>4. ASSUME NEW b \in queue'
      PROVE  b.ts > high'
  <2>1. b.ep = a.ep /\ b.obs = a.obs
        BY <1>2, <1>4 DEF QueueIsChunkSuffix
  <2>2. b.ts # a.ts
        BY <1>2, <1>4, <2>1
  <2>3. QED
        BY <1>2, <1>3, <1>4, <2>2
<1>5. pcC' = "commit" /\ UNCHANGED pcR
      BY DEF PopAction, receiver
<1>6. pcR' # "swap"
      BY <1>1, <1>5 DEF Overlap, Merging
<1>7. QED
      BY <1>1, <1>2, <1>3, <1>4, <1>5, <1>6 DEF Exact

LEMMA ExactControl ==
  ASSUME ExactInv, ControlStep, Recorded(ClientMove \/ ServiceMove)
  PROVE  Exact'
<1> SUFFICES ASSUME ~raced'
             PROVE  Exact'
    BY DEF Exact
<1>0. ~raced /\ ~Overlap'
      BY RacedStep
<1> USE <1>0
    DEF ExactInv, TypeInv, TypeOK, ClientTypeOK, Exact, receiver, shared
<1>1. CASE PopAction
      BY <1>1, ExactPop
<1>2. CASE CommitLatest
      BY <1>2 DEF CommitLatest, Overlap, Merging
<1>3. CASE ResetLatest
      BY <1>3 DEF ResetLatest, Overlap, Merging, Resetting
<1>4. CASE ResetQueue
      BY <1>4 DEF ResetQueue
<1>5. CASE ActionsAvailable \/ PopFromEmpty \/ ReadyToSend \/ EndEpisode
      BY <1>5 DEF ActionsAvailable, PopFromEmpty, ReadyToSend, EndEpisode
<1>6. CASE CollectLeftover \/ SampleQueue
      BY <1>6 DEF CollectLeftover, SampleQueue
<1>7. CASE SendObservation \/ SendInitialObs \/ ClearMustGo
      BY <1>7 DEF SendObservation, SendInitialObs, ClearMustGo
<1>8. CASE ResetGeneration \/ ResetChunkSize \/ ResetOrig \/ ResetFlags
      BY <1>8 DEF ResetGeneration, ResetChunkSize, ResetOrig, ResetFlags
<1>9. QED
      BY <1>1, <1>2, <1>3, <1>4, <1>5, <1>6, <1>7, <1>8 DEF ControlStep

LEMMA ExactReceiver ==
  ASSUME ExactInv, ReceiverStep, Recorded(ClientMove \/ ServiceMove)
  PROVE  Exact'
<1> SUFFICES ASSUME ~raced'
             PROVE  Exact'
    BY DEF Exact
<1>0. ~raced /\ ~Overlap'
      BY RacedStep
<1> USE <1>0 DEF ExactInv, Exact, control, shared
<1>1. CASE ReadLatest
      BY <1>1 DEF ReadLatest, Overlap, Merging
<1>2. CASE SwapQueue
      BY <1>2 DEF SwapQueue, Merged
<1>3. CASE PollActions \/ ReceiveEmpty \/ ReceiveError
      BY <1>3 DEF PollActions, ReceiveEmpty, ReceiveError
<1>4. CASE DiscardStale \/ KeepChunk \/ SetChunkSize \/ FillOrigBuf \/ RearmMustGo
      BY <1>4 DEF DiscardStale, KeepChunk, SetChunkSize, FillOrigBuf, RearmMustGo
<1>5. QED
      BY <1>1, <1>2, <1>3, <1>4 DEF ReceiverStep

LEMMA ExactNext == ExactInv /\ [Next]_vars => ExactInv'
<1> SUFFICES ASSUME ExactInv, [Next]_vars
             PROVE  ExactInv'
    OBVIOUS
<1>1. TypeInv' /\ QueueIsChunkSuffix'
      BY TypeNext, SuffixNext DEF ExactInv
<1>2. CASE UNCHANGED vars
  <2>1. SUFFICES ASSUME ~raced'
                 PROVE  Exact'
        BY <1>1 DEF ExactInv, Exact
  <2>2. QED
        BY <1>2, <2>1 DEF vars, clientVars, control, receiver, shared, service,
           ExactInv, Exact, Overlap
<1>3. CASE Recorded(ClientMove \/ ServiceMove)
  <2>1. CASE ControlStep
        BY <1>1, <1>3, <2>1, ExactControl DEF ExactInv
  <2>2. CASE ReceiverStep
        BY <1>1, <1>3, <2>2, ExactReceiver DEF ExactInv
  <2>3. CASE ServiceMove
    <3>1. SUFFICES ASSUME ~raced'
                   PROVE  Exact'
          BY <1>1 DEF ExactInv, Exact
    <3>2. ~raced /\ ~Overlap'
          BY <1>3, <3>1, RacedStep
    <3>3. QED
          BY <2>3, <3>2
             DEF ServiceMove, ExactInv, Exact, control, receiver, shared
  <2>4. QED
        BY <1>3, <2>1, <2>2, <2>3 DEF Recorded, ClientMove, ClientNext
<1>4. CASE Terminated
      BY <1>2, <1>4 DEF Terminated
<1>5. QED
      BY <1>2, <1>3, <1>4 DEF Next

\* Popping is the step PopAction.
LEMMA PoppingIsPop == [Next]_vars /\ Popping => PopAction
<1> SUFFICES ASSUME [Next]_vars, Popping
             PROVE  PopAction
    OBVIOUS
<1>1. CASE ControlStep
      BY <1>1
         DEF Popping, ControlStep, ActionsAvailable, PopFromEmpty, CommitLatest,
             ReadyToSend, CollectLeftover, SampleQueue, SendObservation,
             SendInitialObs, ClearMustGo, EndEpisode, ResetGeneration,
             ResetQueue, ResetChunkSize, ResetLatest, ResetOrig, ResetFlags
<1>2. CASE ReceiverStep
      BY <1>2
         DEF Popping, control, ReceiverStep, PollActions, ReceiveEmpty,
             ReceiveError, DiscardStale, KeepChunk, SetChunkSize, FillOrigBuf, ReadLatest,
             SwapQueue, RearmMustGo
<1>3. CASE ServiceMove \/ UNCHANGED vars
      BY <1>3 DEF Popping, ServiceMove, vars, clientVars, control
<1>4. QED
      BY <1>1, <1>2, <1>3
         DEF Next, Recorded, ClientMove, ClientNext, Terminated

\* No timestep is executed twice in an episode unless a merge overlapped a pop
\* not yet committed, or a reset: the window between the dequeue and the write
\* of latest_action is the only way back into the queue.
THEOREM ReplayOnlyByRace == Spec => ReplayNeedsRace
<1>1. Init => ExactInv
  <2>1. SUFFICES ASSUME Init
                 PROVE  Exact
        BY TypeInit DEF Init, ClientInit, ExactInv, QueueIsChunkSuffix
  <2>2. pcC \notin Resetting \cup {"commit"}
        BY <2>1, Zenon DEF Init, ClientInit, Resetting
  <2>3. QED
        BY <2>1, <2>2 DEF Init, ClientInit, Exact, Overlap, Merging
<1>2. ExactInv /\ [Next]_vars => (Popping /\ ~raced => pending' > high)
  <2> SUFFICES ASSUME ExactInv, [Next]_vars, Popping, ~raced
               PROVE  pending' > high
      OBVIOUS
  <2>1. PopAction
        BY PoppingIsPop
  <2>2. PICK a \in queue : pending' = a.ts
        BY <2>1 DEF PopAction
  <2>3. QED
        BY <2>2 DEF ExactInv, Exact
<1>3. QED
      BY <1>1, <1>2, ExactNext, PTL DEF Spec, ReplayNeedsRace

-----------------------------------------------------------------------------
(***************************************************************************)
(* No step skipped.  An observation of the current episode, wherever it or *)
(* its chunk is, was captured at most one step past the highest timestep   *)
(* executed; one of a later episode does not exist, and between the new    *)
(* generation and the reset of latest_action all are of earlier episodes.  *)
(***************************************************************************)
InReset == pcC \in {"resetQueue", "resetSize", "resetLatest"}

Behind(o) ==
  /\ o.ep <= gen
  /\ o.ep = gen => o.ts <= high + 1
  /\ InReset => o.ep < gen

Sampled ==
  /\ latest <= high
  /\ pcC = "commit" => pending <= high
  /\ pcR = "swap" /\ rChunk.ep = gen => rLatest <= high

Queued ==
  \A a \in queue :
    /\ a.ep <= gen
    /\ a.ep = gen /\ (\A b \in queue : a.ts <= b.ts) => a.ts <= high + 1
    /\ InReset => a.ep < gen

Travelling ==
  Behind(up) /\ Behind(down) /\ Behind(held) /\ Behind(busy) /\ Behind(rChunk)

NoSkip == Travelling /\ Sampled /\ Queued

NoSkipInv == TypeInv /\ QueueIsChunkSuffix /\ NoSkip

LEMMA NoSkipService ==
  ASSUME NoSkipInv, ServiceMove
  PROVE  NoSkip'
<1> USE DEF NoSkipInv, NoSkip
<1>1. UNCHANGED <<gen, high, latest, pending, pcC, pcR, rChunk, rLatest, queue>>
      BY DEF ServiceMove, control, receiver, shared
<1>2. Sampled' /\ Queued'
      BY <1>1 DEF Sampled, Queued, InReset
<1>3. Behind(rChunk)'
      BY <1>1 DEF Travelling, Behind, InReset
<1>4. Behind([ts |-> 0, ep |-> 1])'
      BY <1>1
         DEF TypeInv, TypeOK, ClientTypeOK, Generation, Travelling, Behind,
             Sends, InReset
<1>5. Behind(up)' /\ Behind(down)' /\ Behind(held)' /\ Behind(busy)'
  <2> USE <1>1, <1>4
      DEF Travelling, Behind, InReset, Service!Full, Service!Empty, TypeInv, TypeOK,
          ClientTypeOK, Sends, Polls, Service!ServiceTypeOK, Service!Slot
  <2>1. CASE Service!AcceptObs
        BY <2>1 DEF Service!AcceptObs
  <2>2. CASE Service!FilterObs
        BY <2>2 DEF Service!FilterObs
  <2>3. CASE Service!MakeRoom
        BY <2>3 DEF Service!MakeRoom
  <2>4. CASE Service!FailDoomed
        BY <2>4 DEF Service!FailDoomed
  <2>5. CASE Service!LoseObs
        BY <2>5 DEF Service!LoseObs
  <2>6. CASE Service!RetryObs
        BY <2>6 DEF Service!RetryObs
  <2>7. CASE Service!Dequeue
        BY <2>7 DEF Service!Dequeue
  <2>8. CASE Service!ReplyChunk
        BY <2>8 DEF Service!ReplyChunk
  <2>9. CASE Service!ReplyEmpty
        BY <2>9 DEF Service!ReplyEmpty
  <2>10. CASE Service!InferenceFails
        BY <2>10 DEF Service!InferenceFails
  <2>11. CASE Service!CallFails
        BY <2>11 DEF Service!CallFails
  <2>12. CASE Service!RetryCall
        BY <2>12 DEF Service!RetryCall
  <2>13. CASE Service!StealObs
        BY <2>13 DEF Service!StealObs
  <2>14. CASE Service!HiddenFault
        BY <2>14 DEF Service!HiddenFault
  <2>15. CASE Service!ForgottenEnds
        BY <2>15 DEF Service!ForgottenEnds
  <2>16. CASE Service!ReplyBroken
        BY <2>16 DEF Service!ReplyBroken
  <2>17. QED
        BY <2>1, <2>2, <2>3, <2>4, <2>5, <2>6, <2>7, <2>8, <2>9, <2>10, <2>11,
           <2>12, <2>13, <2>14, <2>15, <2>16
           DEF ServiceMove, Service!ServiceNext, Service!TakeObs,
               Service!AnswerCall
<1>6. QED
      BY <1>2, <1>3, <1>5 DEF Travelling

\* What has only been renamed, or not touched, stays behind.
LEMMA NoSkipFrame ==
  ASSUME NoSkipInv, UNCHANGED <<gen, high, latest, pending, queue, rChunk,
                                rLatest, held, busy>>,
         pcC' = "commit" => pcC = "commit", InReset' => InReset,
         pcR' = "swap" => pcR = "swap",
         up' = up \/ up' = NoSend \/ Behind(up)',
         down' = down \/ down' = Quiet
  PROVE  NoSkip'
<1> USE DEF NoSkipInv, NoSkip
<1>1. Sampled' /\ Queued'
      BY DEF Sampled, Queued
<1>2. gen \in Nat /\ high \in Nat \cup {-1} /\ gen >= 1 /\ (InReset => gen > 1)
      BY DEF TypeInv, TypeOK, ClientTypeOK, Generation, Travelling, Behind,
             Sends
<1>3. Behind(up)' /\ Behind(down)'
      BY <1>2 DEF Travelling, Behind, NoSend, Quiet
<1>4. Behind(held)' /\ Behind(busy)' /\ Behind(rChunk)'
      BY DEF Travelling, Behind
<1>5. QED
      BY <1>1, <1>3, <1>4 DEF Travelling

LEMMA NoSkipPop ==
  ASSUME NoSkipInv, PopAction, UNCHANGED service
  PROVE  NoSkip'
<1> USE DEF NoSkipInv, NoSkip
<1>1. PICK a \in queue : /\ \A b \in queue : a.ts <= b.ts
                         /\ queue' = queue \ {a}
                         /\ pending' = a.ts
                         /\ high' = IF a.ts > high THEN a.ts ELSE high
      BY DEF PopAction
<1>2. /\ ~InReset' /\ UNCHANGED <<gen, latest, pcR, rChunk, rLatest, up, down>>
      BY DEF PopAction, InReset, receiver
<1>3. /\ a.ts \in Nat /\ high \in Nat \cup {-1} /\ latest \in Nat \cup {-1}
      /\ rLatest \in Nat \cup {-1}
      /\ up.ts \in Nat /\ down.ts \in Nat /\ held.ts \in Nat
      /\ busy.ts \in Nat /\ rChunk.ts \in Nat
      BY DEF TypeInv, TypeOK, ClientTypeOK, Service!ServiceTypeOK,
             Service!Slot, Sends, Polls, Obs
<1>4. high' >= high /\ high' >= a.ts /\ high' \in Nat \cup {-1}
      BY <1>1, <1>3
<1>5. Sampled'
      BY <1>1, <1>2, <1>3, <1>4 DEF Sampled
<1>6. Travelling'
      BY <1>2, <1>3, <1>4 DEF Travelling, Behind, service
<1>7. ASSUME NEW b \in queue', \A c \in queue' : b.ts <= c.ts
      PROVE  b.ts <= high' + 1
  <2>1. /\ b.ep = a.ep /\ b.obs = a.obs /\ b.ts < b.obs + ChunkLen
        /\ b.ts \in Nat /\ a.ts <= b.ts /\ a.obs \in Nat
        BY <1>1, <1>7
           DEF QueueIsChunkSuffix, TypeInv, TypeOK, ClientTypeOK
  <2>2. b.ts # a.ts
        BY <1>1, <1>7, <2>1 DEF TypeInv, TypeOK, ClientTypeOK
  <2>3. [ts |-> a.ts + 1, ep |-> a.ep, obs |-> a.obs] \in queue
    <3>1. a.ts + 1 \in a.ts .. (a.obs + ChunkLen - 1)
      <4>1. b.ts < a.obs + ChunkLen /\ a.ts < b.ts
            BY <1>3, <2>1, <2>2
      <4>2. ChunkLen \in Nat
            BY ClientAssumption DEF ClientAssumption
      <4>3. \A i, j, k, n \in Nat : i < j /\ j < k + n => i + 1 \in i .. (k + n - 1)
            OBVIOUS
      <4>4. QED
            BY <1>3, <2>1, <4>1, <4>2, <4>3
    <3>2. \A t \in a.ts .. (a.obs + ChunkLen - 1) :
            [ts |-> t, ep |-> a.ep, obs |-> a.obs] \in queue
          BY DEF QueueIsChunkSuffix
    <3>3. QED
          BY <3>1, <3>2
  <2>4. [ts |-> a.ts + 1, ep |-> a.ep, obs |-> a.obs] \in queue'
        BY <1>1, <1>3, <2>3
  <2>5. b.ts <= a.ts + 1
        BY <1>7, <2>4
  <2>6. QED
        BY <1>3, <1>4, <2>1, <2>5
<1>8. Queued'
      BY <1>1, <1>2, <1>7 DEF Queued
<1>9. QED
      BY <1>5, <1>6, <1>8

LEMMA NoSkipSwap ==
  ASSUME NoSkipInv, SwapQueue, UNCHANGED service
  PROVE  NoSkip'
<1> USE DEF NoSkipInv, NoSkip
<1>1. /\ UNCHANGED <<gen, high, latest, pending, pcC, up, down>>
      /\ pcR = "swap" /\ pcR' = "rearm" /\ rChunk' = NoObs
      /\ queue' = {a \in Actions(rChunk) : a.ts > rLatest}
      BY DEF SwapQueue, Merged, control, shared
<1>2. Sampled' /\ Travelling'
  <2>1. Behind(NoObs)
        BY DEF TypeInv, TypeOK, ClientTypeOK, Generation, Travelling, Behind,
               Sends, NoObs
  <2>2. QED
        BY <1>1, <2>1 DEF Sampled, Travelling, Behind, InReset, service
<1>3. /\ rChunk.ts \in Nat /\ rLatest \in Nat \cup {-1}
      /\ high \in Nat \cup {-1} /\ ChunkLen \in Nat \ {0}
      BY ClientAssumption
         DEF TypeInv, TypeOK, ClientTypeOK, Obs, ClientAssumption
<1>4. ASSUME NEW a \in queue'
      PROVE  a.ep = rChunk.ep /\ a.ts \in rChunk.ts .. (rChunk.ts + ChunkLen - 1)
               /\ a.ts > rLatest /\ a.obs = rChunk.ts
      BY <1>1, <1>4 DEF Actions
<1>5. ASSUME NEW a \in queue', a.ep = gen, \A b \in queue' : a.ts <= b.ts
      PROVE  a.ts <= high + 1
  <2>1. rChunk.ts <= high + 1 /\ rLatest <= high
        BY <1>1, <1>4, <1>5 DEF Travelling, Behind, Sampled
  <2>2. CASE a.ts = rChunk.ts
        BY <2>1, <2>2
  <2>3. CASE a.ts = rLatest + 1
        BY <1>3, <2>1, <2>3
  <2>4. CASE a.ts > rChunk.ts /\ a.ts > rLatest + 1
    <3>1. [ts |-> a.ts - 1, ep |-> rChunk.ep, obs |-> rChunk.ts] \in queue'
          BY <1>1, <1>3, <1>4, <1>5, <2>4 DEF Actions
    <3>2. a.ts <= a.ts - 1
          BY <1>5, <3>1
    <3>3. QED
          BY <1>3, <1>4, <1>5, <3>2
  <2>5. QED
        BY <1>3, <1>4, <1>5, <2>2, <2>3, <2>4
<1>6. Queued'
      BY <1>1, <1>4, <1>5 DEF Queued, Travelling, Behind, InReset
<1>7. QED
      BY <1>2, <1>6

LEMMA NoSkipControl ==
  ASSUME NoSkipInv, ControlStep, UNCHANGED service
  PROVE  NoSkip'
<1> USE DEF NoSkipInv, NoSkip
<1>1. /\ gen \in Nat /\ high \in Nat \cup {-1} /\ latest \in Nat \cup {-1}
      /\ pending \in Nat
      BY DEF TypeInv, TypeOK, ClientTypeOK, Generation
<1>2. UNCHANGED <<rChunk, rLatest, pcR, down, held, busy>>
      BY DEF ControlStep, ActionsAvailable, PopAction, PopFromEmpty,
             CommitLatest, ReadyToSend, CollectLeftover, SampleQueue,
             SendObservation, SendInitialObs, ClearMustGo, EndEpisode,
             ResetGeneration, ResetQueue, ResetChunkSize, ResetLatest,
             ResetOrig, ResetFlags, receiver, service
<1>3. CASE PopAction
      BY <1>3, NoSkipPop
<1>4. CASE CommitLatest
  <2>1. UNCHANGED <<gen, high, queue, up>> /\ ~InReset'
        BY <1>4 DEF CommitLatest, InReset
  <2>2. latest' <= high /\ pcC' # "commit"
        BY <1>4 DEF CommitLatest, Sampled
  <2>3. QED
        BY <1>2, <2>1, <2>2 DEF Travelling, Behind, Sampled, Queued
<1>5. CASE SendObservation \/ SendInitialObs
  <2>1. /\ UNCHANGED <<gen, high, latest, pending, queue>>
        /\ pcC' # "commit" /\ ~InReset'
        BY <1>5 DEF SendObservation, SendInitialObs, InReset, shared
  <2>2. \/ up' = up
        \/ up'.ep = gen /\ up'.ts \in {0, latest + 1}
        BY <1>5 DEF SendObservation, SendInitialObs
  <2>3. latest + 1 <= high + 1 /\ 0 <= high + 1
        BY <1>1 DEF Sampled
  <2>4. Behind(up)'
        BY <1>1, <2>1, <2>2, <2>3 DEF Travelling, Behind
  <2>5. QED
        BY <1>2, <2>1, <2>4, NoSkipFrame
<1>6. CASE ResetGeneration
  <2>1. /\ gen' = gen + 1 /\ pcC' = "resetQueue"
        /\ UNCHANGED <<high, latest, pending, queue, up>>
        BY <1>6 DEF ResetGeneration
  <2>2. /\ up.ep \in Nat /\ down.ep \in Nat /\ held.ep \in Nat
        /\ busy.ep \in Nat /\ rChunk.ep \in Nat
        /\ \A a \in queue : a.ep \in Nat
        BY DEF TypeInv, TypeOK, ClientTypeOK, Service!ServiceTypeOK,
               Service!Slot, Sends, Polls, Obs, Generation
  <2>3. Travelling' /\ Queued'
        BY <1>1, <1>2, <2>1, <2>2 DEF Travelling, Behind, Queued
  <2>4. Sampled'
        BY <1>1, <1>2, <2>1, <2>2 DEF Travelling, Behind, Sampled
  <2>5. QED
        BY <2>3, <2>4
<1>7. CASE ResetQueue
  <2>1. /\ queue' = {} /\ UNCHANGED <<gen, high, latest, pending, up>>
        /\ InReset /\ pcC' # "commit"
        BY <1>7 DEF ResetQueue, InReset
  <2>2. QED
        BY <1>2, <2>1 DEF Travelling, Behind, Sampled, Queued
<1>8. CASE ResetLatest
  <2>1. /\ latest' = -1 /\ high' = -1 /\ UNCHANGED <<gen, pending, queue, up>>
        /\ InReset /\ ~InReset' /\ pcC' # "commit"
        BY <1>8 DEF ResetLatest, InReset
  <2>2. /\ up.ep # gen /\ down.ep # gen /\ held.ep # gen /\ busy.ep # gen
        /\ rChunk.ep # gen /\ \A a \in queue : a.ep # gen
        BY <1>1, <2>1
           DEF Travelling, Behind, Queued, TypeInv, TypeOK, ClientTypeOK,
               Generation
  <2>3. QED
        BY <1>2, <2>1, <2>2 DEF Travelling, Behind, Sampled, Queued
<1>9. CASE \/ ActionsAvailable \/ PopFromEmpty \/ ReadyToSend
           \/ CollectLeftover \/ SampleQueue \/ ClearMustGo \/ EndEpisode
           \/ ResetChunkSize \/ ResetOrig \/ ResetFlags
  <2>1. /\ UNCHANGED <<gen, high, latest, pending, queue>>
        /\ pcC' # "commit" /\ (InReset' => InReset)
        /\ up' \in {up, NoSend}
        BY <1>9
           DEF ActionsAvailable, PopFromEmpty, ReadyToSend, CollectLeftover,
               SampleQueue, ClearMustGo, EndEpisode, ResetChunkSize,
               ResetOrig, ResetFlags, shared, InReset
  <2>2. QED
        BY <1>2, <2>1, NoSkipFrame
<1>10. QED
       BY <1>3, <1>4, <1>5, <1>6, <1>7, <1>8, <1>9 DEF ControlStep

LEMMA NoSkipReceiver ==
  ASSUME NoSkipInv, ReceiverStep, UNCHANGED service
  PROVE  NoSkip'
<1> USE DEF NoSkipInv, NoSkip
<1>1. CASE SwapQueue
      BY <1>1, NoSkipSwap
<1>2. CASE KeepChunk
  <2>1. /\ UNCHANGED <<gen, high, latest, pending, queue, up, pcC, held, busy>>
        /\ rChunk'.ts = down.ts /\ rChunk'.ep = down.ep /\ down' = Quiet
        /\ pcR' = "size"
        BY <1>2 DEF KeepChunk, shared, control, service
  <2>2. Behind(Quiet)
        BY DEF TypeInv, TypeOK, ClientTypeOK, Generation, Travelling, Behind,
               Sends, Quiet
  <2>3. Travelling' /\ Sampled' /\ Queued'
        BY <2>1, <2>2 DEF Travelling, Behind, Sampled, Queued, InReset
  <2>4. QED
        BY <2>3
<1>3. CASE ReadLatest
  <2>1. /\ UNCHANGED <<gen, high, latest, pending, queue, up, down, pcC, held,
                       busy, rChunk>>
        /\ rLatest' = latest
        BY <1>3 DEF ReadLatest, shared, control, service
  <2>2. QED
        BY <2>1 DEF Travelling, Behind, Sampled, Queued, InReset
<1>4. CASE RearmMustGo
  <2>1. /\ UNCHANGED <<gen, high, latest, pending, queue, up, down, pcC, held,
                       busy, rChunk>>
        /\ pcR' = "poll"
        BY <1>4 DEF RearmMustGo, control, service
  <2>2. QED
        BY <2>1 DEF Travelling, Behind, Sampled, Queued, InReset
<1>5. CASE \/ PollActions \/ ReceiveEmpty \/ ReceiveError \/ DiscardStale
           \/ SetChunkSize \/ FillOrigBuf
  <2>1. /\ UNCHANGED <<gen, high, latest, pending, queue, up, pcC, held, busy,
                       rChunk, rLatest>>
        /\ pcR' # "swap"
        /\ \/ down' \in {down, Quiet}
           \/ down'.ts = 0 /\ down'.ep = 1
        BY <1>5
           DEF PollActions, ReceiveEmpty, ReceiveError, DiscardStale,
               SetChunkSize, FillOrigBuf, control, shared, service, Quiet
  <2>2. Behind([ts |-> 0, ep |-> 1])
        BY DEF TypeInv, TypeOK, ClientTypeOK, Generation, Travelling, Behind,
               Sends
  <2>3. QED
        BY <2>1, <2>2
           DEF Travelling, Behind, Sampled, Queued, InReset, Quiet
<1>6. QED
      BY <1>1, <1>2, <1>3, <1>4, <1>5 DEF ReceiverStep

LEMMA NoSkipNext == NoSkipInv /\ [Next]_vars => NoSkipInv'
<1> SUFFICES ASSUME NoSkipInv, [Next]_vars
             PROVE  NoSkipInv'
    OBVIOUS
<1>1. TypeInv' /\ QueueIsChunkSuffix'
      BY TypeNext, SuffixNext DEF NoSkipInv
<1>2. CASE UNCHANGED vars
      BY <1>1, <1>2
         DEF vars, clientVars, control, receiver, shared, service, NoSkipInv, NoSkip,
             Travelling, Behind, Sampled, Queued, InReset
<1>3. CASE Recorded(ClientMove \/ ServiceMove)
  <2>1. CASE ServiceMove
        BY <1>1, <2>1, NoSkipService DEF NoSkipInv
  <2>2. CASE ClientMove
        BY <1>1, <2>2, NoSkipControl, NoSkipReceiver
           DEF NoSkipInv, ClientMove, ClientNext, service
  <2>3. QED
        BY <1>3, <2>1, <2>2 DEF Recorded
<1>4. QED
      BY <1>2, <1>3 DEF Next, Terminated

\* The control thread never skips a timestep of the episode it is in, whatever
\* the number of episodes, the chunk length and the faults of the service.
THEOREM NoStepSkipped == Spec => NoSkippedStep
<1>1. Init => NoSkipInv
  <2>1. SUFFICES ASSUME Init
                 PROVE  NoSkip
        BY TypeInit DEF Init, ClientInit, NoSkipInv, QueueIsChunkSuffix
  <2>2. pcC \in {"initial", "loop"} /\ ~InReset
        BY <2>1, Zenon DEF Init, ClientInit, InReset
  <2>3. Travelling
        BY <2>1, <2>2
           DEF Init, ClientInit, Travelling, Behind, NoSend, Quiet, NoObs,
               Service!ServiceInit, Service!Empty
  <2>4. Sampled /\ Queued
        BY <2>1, <2>2 DEF Init, ClientInit, Sampled, Queued
  <2>5. QED
        BY <2>3, <2>4 DEF NoSkip
<1>2. ASSUME NoSkipInv, [Next]_vars, Popping,
             NEW a \in queue \ queue', a.ep = gen
      PROVE  a.ts <= high + 1
  <2>1. PopAction
        BY <1>2, PoppingIsPop
  <2>2. \A b \in queue : a.ts <= b.ts
        BY <1>2, <2>1 DEF PopAction
  <2>3. QED
        BY <1>2, <2>2 DEF NoSkipInv, NoSkip, Queued
<1>3. NoSkipInv /\ [Next]_vars
        => (Popping => \A a \in queue \ queue' : a.ep = gen => a.ts <= high + 1)
      BY <1>2
<1>4. QED
      BY <1>1, <1>3, NoSkipNext, PTL DEF Spec, NoSkippedStep

-----------------------------------------------------------------------------
(***************************************************************************)
(* queue.Empty.  In a single episode, and until a merge overlaps a pop not *)
(* yet committed, observations and their chunks stay in the order of their *)
(* capture on the whole way from the control thread to the action queue.   *)
(* A merge then never brings an older chunk than the one it replaces, and  *)
(* the last action of a chunk not older than a queue with an action left   *)
(* was not executed: the merge leaves an action.                           *)
(***************************************************************************)
InHand == pcR \in {"size", "fill", "read", "swap"}

\* What got as far as the queue, an answer, the server, or the call is not
\* newer than timestep n.
Received(n) == \A a \in queue : a.obs <= n
Answered(n) ==
  /\ Received(n)
  /\ InHand => rChunk.ts <= n
  /\ down.st = "chunk" => down.ts <= n
  /\ busy.full => busy.ts <= n
Waiting(n) == Answered(n) /\ (held.full => held.ts <= n)
Sent(n) == Waiting(n) /\ (up.st = "req" => up.ts <= n)

InOrder ==
  /\ InHand => Received(rChunk.ts)
  /\ down.st = "chunk" => Received(down.ts)
  /\ busy.full => Received(busy.ts)
  /\ held.full => Answered(held.ts)
  /\ up.st = "req" => Waiting(up.ts)
  /\ Sent(latest + 1)

OneCall ==
  /\ down.st # "none" => pcR = "wait"
  /\ busy.full => down.st = "call"

OneEpisode ==
  /\ pcC \notin Resetting
  /\ pcC = "initial" => latest = -1
  /\ pcC = "commit" => latest <= pending

PopsAction ==
  /\ pcC = "pop" => queue # {}
  /\ pcC # "queueEmpty"

Orderly == ~raced => OneCall /\ OneEpisode /\ InOrder /\ PopsAction

OrderInv == ExactInv /\ Orderly

\* The timesteps that InOrder compares are numbers.
LEMMA OrderTypes ==
  ASSUME TypeInv
  PROVE  /\ latest \in Nat \cup {-1} /\ high \in Nat \cup {-1}
         /\ pending \in Nat /\ rLatest \in Nat \cup {-1}
         /\ up.ts \in Nat /\ down.ts \in Nat /\ held.ts \in Nat
         /\ busy.ts \in Nat /\ rChunk.ts \in Nat
         /\ \A a \in queue : a.obs \in Nat /\ a.ts \in Nat
BY DEF TypeInv, TypeOK, ClientTypeOK, Service!ServiceTypeOK, Service!Slot,
       Sends, Polls, Obs

\* A step that only removes what is in flight, or renames it, keeps the order.
LEMMA OrderFrame ==
  ASSUME TypeInv, InOrder, queue' \subseteq queue, latest' \in Nat \cup {-1},
         latest <= latest', InHand' => InHand, UNCHANGED <<held, busy>>,
         InHand' => rChunk' = rChunk,
         down'.st = "chunk" => down' = down,
         up'.st = "req" => up' = up
  PROVE  InOrder'
<1>1. \A n \in Int : Received(n) => Received(n)'
      BY DEF Received
<1>2. \A n \in Int : Answered(n) => Answered(n)'
      BY <1>1 DEF Answered
<1>3. \A n \in Int : Waiting(n) => Waiting(n)'
      BY <1>2 DEF Waiting
<1>4. \A n \in Int : Sent(n) => Sent(n)'
      BY <1>3 DEF Sent
<1>5. Sent(latest' + 1)
      BY OrderTypes DEF InOrder, Sent, Waiting, Answered, Received
<1>6. QED
      BY <1>1, <1>2, <1>3, <1>4, <1>5, OrderTypes DEF InOrder

LEMMA OrderService ==
  ASSUME OrderInv, ServiceMove, ~raced
  PROVE  OneCall' /\ OneEpisode' /\ InOrder' /\ PopsAction'
<1> USE DEF OrderInv, Orderly, ExactInv
<1>1. UNCHANGED <<pcC, pcR, queue, latest, pending, rChunk>>
      BY DEF ServiceMove, control, receiver, shared
<1>2. OneEpisode' /\ PopsAction'
      BY <1>1 DEF OneEpisode, PopsAction
<1>3. OneCall' /\ InOrder'
  <2> USE <1>1, OrderTypes
      DEF InHand, Received, Answered, Waiting, Sent, InOrder, OneCall,
          Service!Full, Service!Empty, Service!Slot
  <2>1. CASE Service!AcceptObs
        BY <2>1 DEF Service!AcceptObs
  <2>2. CASE Service!FilterObs
        BY <2>2 DEF Service!FilterObs
  <2>3. CASE Service!MakeRoom
        BY <2>3 DEF Service!MakeRoom
  <2>4. CASE Service!FailDoomed
        BY <2>4 DEF Service!FailDoomed
  <2>5. CASE Service!LoseObs
        BY <2>5 DEF Service!LoseObs
  <2>6. CASE Service!RetryObs
        BY <2>6 DEF Service!RetryObs
  <2>7. CASE Service!Dequeue
        BY <2>7 DEF Service!Dequeue
  <2>8. CASE Service!ReplyChunk
        BY <2>8 DEF Service!ReplyChunk
  <2>9. CASE Service!ReplyEmpty
        BY <2>9 DEF Service!ReplyEmpty
  <2>10. CASE Service!InferenceFails
        BY <2>10 DEF Service!InferenceFails
  <2>11. CASE Service!CallFails
        BY <2>11 DEF Service!CallFails
  <2>12. CASE Service!RetryCall
        BY <2>12 DEF Service!RetryCall
  <2>13. CASE Service!StealObs
        BY <2>13 DEF Service!StealObs
  <2>14. CASE Service!HiddenFault
        BY <2>14 DEF Service!HiddenFault
  <2>15. CASE Service!ForgottenEnds
        BY <2>15 DEF Service!ForgottenEnds
  <2>16. CASE Service!ReplyBroken
        BY <2>16 DEF Service!ReplyBroken
  <2>17. QED
        BY <2>1, <2>2, <2>3, <2>4, <2>5, <2>6, <2>7, <2>8, <2>9, <2>10, <2>11,
           <2>12, <2>13, <2>14, <2>15, <2>16
           DEF ServiceMove, Service!ServiceNext, Service!TakeObs,
               Service!AnswerCall
<1>4. QED
      BY <1>2, <1>3

LEMMA OrderSwap ==
  ASSUME OrderInv, SwapQueue, UNCHANGED service, ~raced
  PROVE  OneCall' /\ OneEpisode' /\ InOrder' /\ PopsAction'
<1> USE DEF OrderInv, Orderly, ExactInv
<1>1. /\ UNCHANGED <<pcC, latest, pending, up, down, held, busy>>
      /\ pcR = "swap" /\ pcR' = "rearm"
      /\ queue' = {a \in Actions(rChunk) : a.ts > rLatest}
      BY DEF SwapQueue, Merged, control, shared, service
<1>2. down.st = "none" /\ ~busy.full
      BY <1>1 DEF OneCall
<1>3. \A a \in queue' : a.obs = rChunk.ts
      BY <1>1 DEF Actions
<1>4. OneCall' /\ OneEpisode'
      BY <1>1 DEF OneCall, OneEpisode
<1>5. InOrder'
      BY <1>1, <1>2, <1>3
         DEF InOrder, Received, Answered, Waiting, Sent, InHand
<1>6. ASSUME NEW a \in queue
      PROVE  queue' # {}
  <2> DEFINE last == rChunk.ts + ChunkLen - 1
  <2>1. /\ a.obs <= rChunk.ts /\ a.ts < a.obs + ChunkLen /\ a.ts > rLatest
        BY <1>1 DEF InOrder, InHand, Received, QueueIsChunkSuffix, Exact
  <2>2. /\ a.obs \in Nat /\ a.ts \in Nat /\ rChunk.ts \in Nat
        /\ rLatest \in Nat \cup {-1} /\ ChunkLen \in Nat \ {0}
        BY OrderTypes, ClientAssumption DEF ClientAssumption
  <2>3. last > rLatest /\ last \in rChunk.ts .. (rChunk.ts + ChunkLen - 1)
        BY <2>1, <2>2
  <2>4. [ts |-> last, ep |-> rChunk.ep, obs |-> rChunk.ts] \in Actions(rChunk)
        BY <2>3 DEF Actions
  <2>5. QED
        BY <1>1, <2>3, <2>4
<1>7. PopsAction'
      BY <1>1, <1>6 DEF PopsAction
<1>8. QED
      BY <1>4, <1>5, <1>7

LEMMA OrderReceiver ==
  ASSUME OrderInv, ReceiverStep, UNCHANGED service, ~raced
  PROVE  OneCall' /\ OneEpisode' /\ InOrder' /\ PopsAction'
<1> USE DEF OrderInv, Orderly, ExactInv
<1>1. CASE SwapQueue
      BY <1>1, OrderSwap
<1>2. CASE KeepChunk
  <2>1. /\ UNCHANGED <<pcC, latest, pending, queue, up, held, busy>>
        /\ pcR = "wait" /\ pcR' = "size" /\ down.st = "chunk"
        /\ rChunk'.ts = down.ts /\ down'.st = "none"
        BY <1>2 DEF KeepChunk, control, shared, service, Quiet
  <2>2. OneCall' /\ OneEpisode' /\ PopsAction'
        BY <2>1 DEF OneCall, OneEpisode, PopsAction
  <2>3. InOrder'
        BY <2>1 DEF InOrder, Received, Answered, Waiting, Sent, InHand
  <2>4. QED
        BY <2>2, <2>3
<1>3. CASE \/ PollActions \/ ReceiveEmpty \/ ReceiveError \/ DiscardStale
           \/ SetChunkSize \/ FillOrigBuf \/ ReadLatest \/ RearmMustGo
  <2>1. /\ UNCHANGED <<pcC, latest, pending, queue, up, held, busy>>
        /\ InHand' => InHand /\ rChunk' = rChunk
        /\ down'.st = "chunk" => down' = down
        BY <1>3
           DEF PollActions, ReceiveEmpty, ReceiveError, DiscardStale,
               SetChunkSize, FillOrigBuf, ReadLatest, RearmMustGo, control,
               shared, service, InHand, Quiet
  <2>2. OneCall'
        BY <1>3
           DEF PollActions, ReceiveEmpty, ReceiveError, DiscardStale,
               SetChunkSize, FillOrigBuf, ReadLatest, RearmMustGo, service,
               Quiet, OneCall
  <2>3. InOrder'
        BY <2>1, OrderFrame, OrderTypes
  <2>4. OneEpisode' /\ PopsAction'
        BY <2>1 DEF OneEpisode, PopsAction
  <2>5. QED
        BY <2>2, <2>3, <2>4
<1>4. QED
      BY <1>1, <1>2, <1>3 DEF ReceiverStep

LEMMA OrderControl ==
  ASSUME MaxEp = 1, OrderInv, ControlStep, UNCHANGED service, ~raced
  PROVE  OneCall' /\ OneEpisode' /\ InOrder' /\ PopsAction'
<1> USE DEF OrderInv, Orderly, ExactInv
<1>1. UNCHANGED <<rChunk, pcR, down, held, busy>>
      BY DEF ControlStep, ActionsAvailable, PopAction, PopFromEmpty,
             CommitLatest, ReadyToSend, CollectLeftover, SampleQueue,
             SendObservation, SendInitialObs, ClearMustGo, EndEpisode,
             ResetGeneration, ResetQueue, ResetChunkSize, ResetLatest,
             ResetOrig, ResetFlags, receiver, service
<1>2. OneCall'
      BY <1>1 DEF OneCall
<1>3. pcC' \notin Resetting
  <2>1. gen = 1
        BY DEF TypeInv, TypeOK, ClientTypeOK, Generation
  <2>2. QED
        BY <2>1
           DEF OneEpisode, Resetting, ControlStep, ActionsAvailable, PopAction,
               PopFromEmpty, CommitLatest, ReadyToSend, CollectLeftover,
               SampleQueue, SendObservation, SendInitialObs, ClearMustGo,
               EndEpisode, ResetGeneration, ResetQueue, ResetChunkSize,
               ResetLatest, ResetOrig, ResetFlags
<1>4. CASE PopAction
  <2>1. PICK a \in queue : queue' = queue \ {a} /\ pending' = a.ts
        BY <1>4 DEF PopAction
  <2>2. /\ pcC = "pop" /\ pcC' = "commit" /\ UNCHANGED <<latest, up>>
        BY <1>4 DEF PopAction
  <2>3. latest <= pending'
        BY <2>1, <2>2, OrderTypes DEF Exact
  <2>4. InOrder'
        BY <1>1, <2>1, <2>2, OrderFrame, OrderTypes DEF InHand
  <2>5. QED
        BY <1>2, <1>3, <2>2, <2>3, <2>4 DEF OneEpisode, PopsAction
<1>5. CASE CommitLatest
  <2>1. /\ latest' = pending /\ UNCHANGED <<queue, up>> /\ pcC = "commit"
        /\ pcC' \in {"ready", "over"}
        BY <1>5 DEF CommitLatest
  <2>2. latest <= latest' /\ latest' \in Nat \cup {-1}
        BY <2>1, OrderTypes DEF OneEpisode
  <2>3. InOrder'
        BY <1>1, <2>1, <2>2, OrderFrame DEF InHand
  <2>4. QED
        BY <1>2, <1>3, <2>1, <2>3 DEF OneEpisode, PopsAction
<1>6. CASE SendObservation \/ SendInitialObs
  <2>1. /\ UNCHANGED <<latest, queue>>
        /\ pcC' \in {"sending", "notRunning"}
        /\ up' = up \/ (up'.st = "req" /\ up'.ts = latest + 1)
        BY <1>6 DEF SendObservation, SendInitialObs, shared, OneEpisode
  <2>2. CASE up' = up
    <3>1. InOrder'
          BY <1>1, <2>1, <2>2, OrderFrame, OrderTypes DEF InHand
    <3>2. QED
          BY <1>2, <1>3, <2>1, <3>1 DEF OneEpisode, PopsAction
  <2>3. CASE up'.st = "req" /\ up'.ts = latest + 1
    <3>1. InOrder'
          BY <1>1, <2>1, <2>3, OrderTypes
             DEF InOrder, Received, Answered, Waiting, Sent, InHand
    <3>2. QED
          BY <1>2, <1>3, <2>1, <3>1 DEF OneEpisode, PopsAction
  <2>4. QED
        BY <2>1, <2>2, <2>3
<1>7. CASE \/ ActionsAvailable \/ PopFromEmpty \/ ReadyToSend
           \/ CollectLeftover \/ SampleQueue \/ ClearMustGo \/ EndEpisode
  <2>1. /\ UNCHANGED <<latest, queue>>
        /\ pcC' \notin {"commit", "initial"}
        /\ up'.st = "req" => up' = up
        BY <1>7
           DEF ActionsAvailable, PopFromEmpty, ReadyToSend, CollectLeftover,
               SampleQueue, ClearMustGo, EndEpisode, shared, NoSend
  <2>2. InOrder'
        BY <1>1, <2>1, OrderFrame, OrderTypes DEF InHand
  <2>3. PopsAction'
        BY <1>7
           DEF PopsAction, ActionsAvailable, HasActions, PopFromEmpty,
               ReadyToSend, CollectLeftover, SampleQueue, ClearMustGo,
               EndEpisode, shared
  <2>4. QED
        BY <1>2, <1>3, <2>1, <2>2, <2>3 DEF OneEpisode
<1>8. CASE \/ ResetGeneration \/ ResetQueue \/ ResetChunkSize
           \/ ResetLatest \/ ResetOrig \/ ResetFlags
      BY <1>8
         DEF OneEpisode, Resetting, ResetGeneration, ResetQueue,
             ResetChunkSize, ResetLatest, ResetOrig, ResetFlags
<1>9. QED
      BY <1>4, <1>5, <1>6, <1>7, <1>8 DEF ControlStep

LEMMA OrderNext ==
  ASSUME MaxEp = 1, OrderInv, [Next]_vars
  PROVE  OrderInv'
<1>1. ExactInv'
      BY ExactNext DEF OrderInv
<1>2. CASE UNCHANGED vars
      BY <1>1, <1>2, Zenon
         DEF vars, clientVars, control, receiver, shared, service, OrderInv, Orderly,
             OneCall, OneEpisode, InOrder, PopsAction, Received, Answered,
             Waiting, Sent, InHand
<1>3. CASE Recorded(ClientMove \/ ServiceMove)
  <2>1. SUFFICES ASSUME ~raced'
                 PROVE  OneCall' /\ OneEpisode' /\ InOrder' /\ PopsAction'
        BY <1>1 DEF OrderInv, Orderly
  <2>2. ~raced
        BY <1>3, <2>1, RacedStep
  <2>3. CASE ServiceMove
        BY <2>2, <2>3, OrderService
  <2>4. CASE ClientMove
        BY <2>2, <2>4, OrderControl, OrderReceiver
           DEF ClientMove, ClientNext, service
  <2>5. QED
        BY <1>3, <2>3, <2>4 DEF Recorded
<1>4. QED
      BY <1>2, <1>3 DEF Next, Terminated

\* In a single episode queue.Empty reaches the control loop only after a merge
\* overlapped a pop not yet committed, whatever the chunk length, the faults of
\* the service and the interleaving of the two threads.
THEOREM EmptyOnlyByRace ==
  ASSUME MaxEp = 1
  PROVE  Spec => []EmptyNeedsRace
<1>1. Init => OrderInv
  <2> SUFFICES ASSUME Init
               PROVE  OrderInv
      OBVIOUS
  <2>1. TypeInv /\ QueueIsChunkSuffix
        BY TypeInit DEF Init, ClientInit, QueueIsChunkSuffix
  <2>2. /\ pcC \in {"initial", "loop"} /\ pcR = "poll" /\ queue = {}
        /\ up.st = "none" /\ down.st = "none" /\ latest = -1 /\ high = -1
        /\ ~held.full /\ ~busy.full
        BY DEF Init, ClientInit, NoSend, Quiet, Service!ServiceInit,
               Service!Empty
  <2>3. Exact
        BY <2>2 DEF Exact, Overlap, Merging
  <2>4. OneCall /\ OneEpisode /\ InOrder /\ PopsAction
        BY <2>2
           DEF OneCall, OneEpisode, InOrder, PopsAction, Received, Answered,
               Waiting, Sent, InHand, Resetting
  <2>5. QED
        BY <2>1, <2>3, <2>4 DEF OrderInv, ExactInv, Orderly
<1>2. OrderInv => EmptyNeedsRace
      BY DEF OrderInv, Orderly, PopsAction, EmptyNeedsRace
<1>3. OrderInv /\ [Next]_vars => OrderInv'
      BY OrderNext
<1>4. QED
      BY <1>1, <1>2, <1>3, PTL DEF Spec

-----------------------------------------------------------------------------
(***************************************************************************)
(* The leftover.  Until a merge overlaps an uncommitted pop or a reset,    *)
(* _orig_buf covers the queue, and between the fill of the buffer and the  *)
(* swap of the queue it covers what the swap will bring: a pop takes out   *)
(* of both what it executes, and the sample of latest_action is exact.     *)
(***************************************************************************)
Covered ==
  /\ \A a \in queue : a.ts \in orig
  /\ pcR \in Merging => \A a \in Actions(rChunk) : a.ts > high => a.ts \in orig
  /\ pcC \in Resetting \ {"resetGen", "resetQueue"} => queue = {}

CoverInv == ExactInv /\ (~raced => Covered)

LEMMA CoverPop ==
  ASSUME CoverInv, PopAction, UNCHANGED service, ~raced, ~Overlap'
  PROVE  Covered'
<1> USE DEF CoverInv, ExactInv
<1>1. PICK a \in queue : /\ queue' = queue \ {a} /\ orig' = orig \ {a.ts}
                         /\ \A b \in queue : a.ts <= b.ts
                         /\ high' = IF a.ts > high THEN a.ts ELSE high
      BY DEF PopAction
<1>2. pcC' = "commit" /\ UNCHANGED pcR
      BY DEF PopAction, receiver
<1>3. pcR' \notin Merging
      BY <1>2 DEF Overlap
<1>4. ASSUME NEW b \in queue'
      PROVE  b.ts \in orig'
  <2>1. b.ep = a.ep /\ b.obs = a.obs
        BY <1>1, <1>4 DEF QueueIsChunkSuffix
  <2>2. b.ts # a.ts
        BY <1>1, <1>4, <2>1 DEF TypeInv, TypeOK, ClientTypeOK
  <2>3. QED
        BY <1>1, <1>4, <2>2 DEF Covered
<1>5. QED
      BY <1>2, <1>3, <1>4 DEF Covered, Resetting

LEMMA CoverControl ==
  ASSUME CoverInv, ControlStep, UNCHANGED service, ~raced, ~Overlap'
  PROVE  Covered'
<1> USE DEF CoverInv
<1>1. UNCHANGED <<rChunk, pcR>>
      BY DEF ControlStep, ActionsAvailable, PopAction, PopFromEmpty,
             CommitLatest, ReadyToSend, CollectLeftover, SampleQueue,
             SendObservation, SendInitialObs, ClearMustGo, EndEpisode,
             ResetGeneration, ResetQueue, ResetChunkSize, ResetLatest,
             ResetOrig, ResetFlags, receiver
<1>2. CASE PopAction
      BY <1>2, CoverPop
<1>3. CASE ResetQueue \/ ResetLatest \/ ResetOrig
  <2>1. /\ pcC \in {"resetQueue", "resetLatest", "resetOrig"}
        /\ pcC' \in Resetting
        /\ queue' = {}
        BY <1>3 DEF ResetQueue, ResetLatest, ResetOrig, Covered, Resetting
  <2>2. pcR' \notin Merging
        BY <2>1 DEF Overlap
  <2>3. QED
        BY <2>1, <2>2 DEF Covered
<1>4. CASE \/ ActionsAvailable \/ PopFromEmpty \/ CommitLatest \/ ReadyToSend
           \/ CollectLeftover \/ SampleQueue \/ SendObservation
           \/ SendInitialObs \/ ClearMustGo \/ EndEpisode
           \/ ResetGeneration \/ ResetChunkSize \/ ResetFlags
  <2>1. UNCHANGED <<queue, orig, high>>
        BY <1>4
           DEF ActionsAvailable, PopFromEmpty, CommitLatest, ReadyToSend,
               CollectLeftover, SampleQueue, SendObservation, SendInitialObs,
               ClearMustGo, EndEpisode, ResetGeneration, ResetChunkSize,
               ResetFlags, shared
  <2>2. pcC' \in Resetting \ {"resetGen", "resetQueue"}
          => pcC \in Resetting \ {"resetGen", "resetQueue"}
        BY <1>4
           DEF ActionsAvailable, PopFromEmpty, CommitLatest, ReadyToSend,
               CollectLeftover, SampleQueue, SendObservation, SendInitialObs,
               ClearMustGo, EndEpisode, ResetGeneration, ResetChunkSize,
               ResetFlags, Resetting
  <2>3. QED
        BY <1>1, <2>1, <2>2 DEF Covered, Actions
<1>5. QED
      BY <1>2, <1>3, <1>4 DEF ControlStep

LEMMA CoverReceiver ==
  ASSUME CoverInv, ReceiverStep, UNCHANGED service, ~raced, ~Overlap'
  PROVE  Covered'
<1> USE DEF CoverInv, ExactInv
<1>1. CASE FillOrigBuf
  <2>1. /\ orig' = orig \cup {a.ts : a \in Actions(rChunk)}
        /\ UNCHANGED <<pcC, queue, rChunk>>
        BY <1>1 DEF FillOrigBuf, Originals, Timesteps, control
  <2>2. \A a \in Actions(rChunk)' : a.ts \in orig'
        BY <2>1 DEF Actions
  <2>3. QED
        BY <2>1, <2>2 DEF Covered
<1>2. CASE SwapQueue
  <2>1. /\ queue' = {a \in Actions(rChunk) : a.ts > rLatest}
        /\ UNCHANGED <<pcC, orig>> /\ pcR = "swap" /\ pcR' = "rearm"
        BY <1>2 DEF SwapQueue, Merged, control
  <2>2. rLatest = high /\ pcC \notin Resetting
        BY <2>1 DEF Exact, Overlap, Merging
  <2>3. \A a \in queue' : a.ts \in orig'
        BY <2>1, <2>2 DEF Covered, Merging
  <2>4. QED
        BY <2>1, <2>2, <2>3 DEF Covered, Merging
<1>3. CASE \/ PollActions \/ ReceiveEmpty \/ ReceiveError \/ DiscardStale
           \/ KeepChunk \/ SetChunkSize \/ ReadLatest \/ RearmMustGo
  <2>1. /\ UNCHANGED <<pcC, queue, orig, high>>
        /\ pcR' \in Merging => pcR \in Merging /\ rChunk' = rChunk
        BY <1>3
           DEF PollActions, ReceiveEmpty, ReceiveError, DiscardStale,
               KeepChunk, SetChunkSize, ReadLatest, RearmMustGo, control, shared,
               Merging
  <2>2. QED
        BY <2>1 DEF Covered, Actions
<1>4. QED
      BY <1>1, <1>2, <1>3 DEF ReceiverStep

LEMMA CoverNext == CoverInv /\ [Next]_vars => CoverInv'
<1> SUFFICES ASSUME CoverInv, [Next]_vars
             PROVE  CoverInv'
    OBVIOUS
<1>1. ExactInv'
      BY ExactNext DEF CoverInv
<1>2. CASE UNCHANGED vars \/ ServiceMove
  <2>1. UNCHANGED <<pcC, pcR, queue, orig, high, rChunk>>
        BY <1>2
           DEF ServiceMove, vars, clientVars, control, receiver, shared
  <2>2. ~raced' => ~raced
        BY <1>2 DEF Next, Recorded, Terminated, vars
  <2>3. QED
        BY <1>1, <2>1, <2>2 DEF CoverInv, Covered, Actions
<1>3. CASE Recorded(ClientMove \/ ServiceMove) /\ ClientMove
  <2>1. SUFFICES ASSUME ~raced'
                 PROVE  Covered'
        BY <1>1 DEF CoverInv
  <2>2. ~raced /\ ~Overlap'
        BY <1>3, <2>1, RacedStep
  <2>3. QED
        BY <1>3, <2>2, CoverControl, CoverReceiver
           DEF ClientMove, ClientNext, service
<1>4. QED
      BY <1>2, <1>3 DEF Next, Recorded, Terminated

\* Collecting is the step CollectLeftover.
LEMMA CollectingIsCollect ==
  ASSUME [Next]_vars, pcC = "collect", pcC' = "sample"
  PROVE  CollectLeftover
<1>1. CASE ControlStep
      BY <1>1
         DEF ControlStep, ActionsAvailable, PopAction, PopFromEmpty,
             CommitLatest, ReadyToSend, SampleQueue, SendObservation,
             SendInitialObs, ClearMustGo, EndEpisode, ResetGeneration,
             ResetQueue, ResetChunkSize, ResetLatest, ResetOrig, ResetFlags
<1>2. CASE ReceiverStep
      BY <1>2
         DEF control, ReceiverStep, PollActions, ReceiveEmpty, ReceiveError,
             DiscardStale, KeepChunk, SetChunkSize, FillOrigBuf, ReadLatest, SwapQueue,
             RearmMustGo
<1>3. CASE ServiceMove \/ UNCHANGED vars
      BY <1>3 DEF ServiceMove, vars, clientVars, control
<1>4. QED
      BY <1>1, <1>2, <1>3
         DEF Next, Recorded, ClientMove, ClientNext, Terminated

\* The leftover sent with an observation is the whole queue, unless a merge
\* overlapped an uncommitted pop or a reset: torch.stack closes no gap.
THEOREM LeftoverComplete == Spec => LeftoverIsQueue
<1>1. Init => CoverInv
  <2> SUFFICES ASSUME Init
               PROVE  CoverInv
      OBVIOUS
  <2>1. TypeInv /\ QueueIsChunkSuffix
        BY TypeInit DEF Init, ClientInit, QueueIsChunkSuffix
  <2>2. /\ pcC \notin Resetting \cup {"commit"} /\ pcR = "poll" /\ queue = {}
        /\ latest = -1 /\ high = -1
        BY Zenon DEF Init, ClientInit, Resetting
  <2>3. Exact /\ Covered
        BY <2>2 DEF Exact, Covered, Overlap, Merging
  <2>4. QED
        BY <2>1, <2>3 DEF CoverInv, ExactInv
<1>2. CoverInv /\ [Next]_vars
        => (pcC = "collect" /\ pcC' = "sample" /\ ~raced
              => leftover' = Timesteps(queue))
  <2> SUFFICES ASSUME CoverInv, [Next]_vars, pcC = "collect",
                      pcC' = "sample", ~raced
               PROVE  leftover' = Timesteps(queue)
      OBVIOUS
  <2>1. leftover' = Timesteps(queue) \cap orig
        BY CollectingIsCollect DEF CollectLeftover
  <2>2. Timesteps(queue) \subseteq orig
        BY DEF CoverInv, Covered, Timesteps
  <2>3. QED
        BY <2>1, <2>2
<1>3. QED
      BY <1>1, <1>2, CoverNext, PTL DEF Spec, LeftoverIsQueue

=============================================================================
