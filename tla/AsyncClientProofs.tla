------------------------- MODULE AsyncClientProofs -------------------------
(***************************************************************************)
(* What every client built on AsyncClient needs: its two threads keep      *)
(* the types, for every value of the constants.                            *)
(***************************************************************************)
EXTENDS AsyncClient, TLAPS

\* Two facts make the types inductive: the receiver that has counted MaxErrors
\* errors has stopped, and a reset runs only when an episode is left.
ClientTypeInv ==
  /\ ClientTypeOK
  /\ pcR # "stopped" => err < MaxErrors
  /\ pcC = "resetGen" => gen < MaxEp

LEMMA FlagsControl == FlagsOK /\ ControlStep => FlagsOK'
<1> SUFFICES ASSUME FlagsOK, ControlStep
             PROVE  FlagsOK'
    OBVIOUS
<1> USE DEF FlagsOK, control, receiver, shared
<1>1. CASE ActionsAvailable
      BY <1>1, Zenon DEF ActionsAvailable
<1>2. CASE PopAction
      BY <1>2, Zenon DEF PopAction
<1>3. CASE PopFromEmpty
      BY <1>3, Zenon DEF PopFromEmpty
<1>4. CASE CommitLatest
      BY <1>4, Zenon DEF CommitLatest
<1>5. CASE ReadyToSend
      BY <1>5, Zenon DEF ReadyToSend
<1>6. CASE CollectLeftover
      BY <1>6, Zenon DEF CollectLeftover
<1>7. CASE SampleQueue
      BY <1>7, Zenon DEF SampleQueue
<1>8. CASE SendObservation
      BY <1>8, Zenon DEF SendObservation
<1>9. CASE SendInitialObs
      BY <1>9, Zenon DEF SendInitialObs
<1>10. CASE ClearMustGo
      BY <1>10, Zenon DEF ClearMustGo
<1>11. CASE EndEpisode
      BY <1>11, Zenon DEF EndEpisode
<1>12. CASE ResetGeneration \/ ResetQueue \/ ResetChunkSize \/ ResetLatest
              \/ ResetOrig \/ ResetFlags
      BY <1>12, Zenon DEF ResetGeneration, ResetQueue, ResetChunkSize,
         ResetLatest, ResetOrig, ResetFlags
<1>13. QED
      BY <1>1, <1>2, <1>3, <1>4, <1>5, <1>6, <1>7, <1>8, <1>9, <1>10, <1>11,
         <1>12 DEF ControlStep

LEMMA SendsRecord ==
  ASSUME NEW st \in {"none", "req", "ok", "lost"}, NEW ts \in Nat,
         NEW ep \in Generation, NEW must \in BOOLEAN, NEW start \in BOOLEAN
  PROVE  [st |-> st, ts |-> ts, ep |-> ep, must |-> must, start |-> start]
           \in Sends
BY Zenon DEF Sends

LEMMA NoSendInSends == NoSend \in Sends
<1>1. 0 \in Nat /\ 1 \in Generation
      BY ClientAssumption DEF ClientAssumption, Generation
<1>2. QED
      BY <1>1, SendsRecord DEF NoSend

LEMMA SentRecord ==
  ASSUME SendObservation, running
  PROVE  up' = [st |-> "req", ts |-> latest + 1, ep |-> gen,
                must |-> Must, start |-> Start]
BY Zenon DEF SendObservation

LEMMA CountedSteps ==
  ASSUME SendObservation, sawEmpty
  PROVE  \/ emptySteps' = 0
         \/ /\ emptySteps' = emptySteps + 1
            /\ ~(emptySteps + 1 >= ForceAfter)
<1>1. EmptySteps = emptySteps + 1
      BY Zenon DEF EmptySteps
<1>2. QED
      BY <1>1, Zenon DEF SendObservation, ForceMustGo

LEMMA ClientTypeInit == ClientInit => ClientTypeInv
<1> SUFFICES ASSUME ClientInit
             PROVE  ClientTypeInv
    OBVIOUS
<1>1. FlagsOK
      BY Zenon DEF ClientInit, FlagsOK
<1>2. up \in Sends
      BY Zenon, NoSendInSends DEF ClientInit
<1>3. pcC \in {"initial", "loop"}
      BY Zenon DEF ClientInit
<1>4. QED
      BY <1>1, <1>2, <1>3, ClientAssumption
         DEF ClientAssumption, ClientInit, ClientTypeInv, ClientTypeOK,
             Generation, Quiet, NoObs, Obs, Polls, ControlPc, ReceiverPc

LEMMA ClientTypeControl == ClientTypeInv /\ ControlStep => ClientTypeInv'
<1> SUFFICES ASSUME ClientTypeInv, ControlStep
             PROVE  ClientTypeInv'
    OBVIOUS
<1>0. FlagsOK'
      BY FlagsControl DEF ClientTypeInv, ClientTypeOK
<1> USE ClientAssumption, <1>0
    DEF ClientAssumption, ClientTypeInv, ClientTypeOK, Generation, ControlPc,
        Resetting, Stopped, control, receiver, shared
<1>1. CASE ActionsAvailable
      BY <1>1 DEF ActionsAvailable
<1>2. CASE PopAction
  <2>1. PICK a \in queue : /\ queue' = queue \ {a}
                           /\ orig' = orig \ {a.ts}
                           /\ pending' = a.ts
                           /\ high' = IF a.ts > high THEN a.ts ELSE high
        BY <1>2 DEF PopAction
  <2>2. a.ts \in Nat
        OBVIOUS
  <2>3. QED
        BY <1>2, <2>1, <2>2 DEF PopAction
<1>3. CASE PopFromEmpty
      BY <1>3 DEF PopFromEmpty
<1>4. CASE CommitLatest
      BY <1>4 DEF CommitLatest
<1>5. CASE ReadyToSend
      BY <1>5 DEF ReadyToSend
<1>6. CASE CollectLeftover
  <2>1. leftover' \subseteq Nat
        BY <1>6 DEF CollectLeftover
  <2>2. QED
        BY <1>6, <2>1 DEF CollectLeftover
<1>7. CASE SampleQueue
      BY <1>7 DEF SampleQueue
<1>8. CASE SendObservation
  <2>1. emptySteps' \in 0 .. (ForceAfter - 1)
    <3>1. CASE sawEmpty
          BY <1>8, <3>1, CountedSteps
    <3>2. CASE ~sawEmpty
          BY <1>8, <3>2 DEF SendObservation, ForceMustGo, EmptySteps
    <3>3. QED
          BY <3>1, <3>2
  <2>2. latest + 1 \in Nat
        OBVIOUS
  <2>3. Must \in BOOLEAN /\ Start \in BOOLEAN
        BY Zenon DEF Must, Start
  <2>4. up' \in Sends
    <3>1. CASE running
          BY <1>8, <2>2, <2>3, <3>1, SentRecord, SendsRecord
    <3>2. CASE ~running
          BY <1>8, <3>2 DEF SendObservation
    <3>3. QED
          BY <3>1, <3>2
  <2>5. QED
        BY <1>8, <2>1, <2>4 DEF SendObservation
<1>9. CASE SendInitialObs
  <2>1. up' \in Sends
    <3>1. CASE running
      <4>1. up' = [st |-> "req", ts |-> 0, ep |-> gen,
                   must |-> TRUE, start |-> TRUE]
            BY <1>9, <3>1, Zenon DEF SendInitialObs
      <4>2. QED
            BY <4>1, SendsRecord
    <3>2. CASE ~running
          BY <1>9, <3>2 DEF SendInitialObs
    <3>3. QED
          BY <3>1, <3>2
  <2>2. QED
        BY <1>9, <2>1 DEF SendInitialObs
<1>10. CASE ClearMustGo
      BY <1>10, NoSendInSends DEF ClearMustGo
<1>11. CASE EndEpisode
      BY <1>11 DEF EndEpisode
<1>12. CASE ResetGeneration
      BY <1>12 DEF ResetGeneration
<1>13. CASE ResetQueue
      BY <1>13 DEF ResetQueue
<1>14. CASE ResetChunkSize
      BY <1>14 DEF ResetChunkSize
<1>15. CASE ResetLatest
      BY <1>15 DEF ResetLatest
<1>16. CASE ResetOrig
      BY <1>16 DEF ResetOrig
<1>17. CASE ResetFlags
      BY <1>17 DEF ResetFlags
<1>18. QED
      BY <1>1, <1>2, <1>3, <1>4, <1>5, <1>6, <1>7, <1>8, <1>9, <1>10, <1>11,
         <1>12, <1>13, <1>14, <1>15, <1>16, <1>17 DEF ControlStep

LEMMA FlagsReceiver == FlagsOK /\ ReceiverStep => FlagsOK'
<1> SUFFICES ASSUME FlagsOK, ReceiverStep
             PROVE  FlagsOK'
    OBVIOUS
<1> USE DEF FlagsOK, control, receiver, shared
<1>1. CASE PollActions
      BY <1>1, Zenon DEF PollActions
<1>2. CASE ReceiveEmpty
      BY <1>2, Zenon DEF ReceiveEmpty
<1>3. CASE ReceiveError
  <2>1. (err + 1 < MaxErrors) \in BOOLEAN
        BY SMT
  <2>2. QED
        BY <1>3, <2>1, Zenon DEF ReceiveError
<1>4. CASE DiscardStale
      BY <1>4, Zenon DEF DiscardStale
<1>5. CASE KeepChunk
      BY <1>5, Zenon DEF KeepChunk
<1>6. CASE FillOrigBuf
      BY <1>6, Zenon DEF FillOrigBuf
<1>7. CASE SetChunkSize
      BY <1>7, Zenon DEF SetChunkSize
<1>8. CASE ReadLatest
      BY <1>8, Zenon DEF ReadLatest
<1>9. CASE SwapQueue
      BY <1>9, Zenon DEF SwapQueue
<1>10. CASE RearmMustGo
      BY <1>10, Zenon DEF RearmMustGo
<1>11. QED
      BY <1>1, <1>2, <1>3, <1>4, <1>5, <1>6, <1>7, <1>8, <1>9, <1>10
         DEF ReceiverStep

LEMMA ActionsType ==
  ASSUME NEW o \in Obs
  PROVE  /\ Actions(o) \subseteq [ts : Nat, ep : Generation, obs : Nat]
         /\ Timesteps(Actions(o)) \subseteq Nat
BY ClientAssumption DEF ClientAssumption, Actions, Timesteps, Obs, Generation

LEMMA ClientTypeReceiver == ClientTypeInv /\ ReceiverStep => ClientTypeInv'
<1> SUFFICES ASSUME ClientTypeInv, ReceiverStep
             PROVE  ClientTypeInv'
    OBVIOUS
<1>0. FlagsOK'
      BY FlagsReceiver DEF ClientTypeInv, ClientTypeOK
<1> USE ClientAssumption, <1>0
    DEF ClientAssumption, ClientTypeInv, ClientTypeOK, ReceiverPc, control,
        receiver, shared
<1>1. CASE PollActions
      BY <1>1 DEF PollActions, Polls, Quiet, Generation
<1>2. CASE ReceiveEmpty
      BY <1>2 DEF ReceiveEmpty, Polls, Quiet, Generation
<1>3. CASE ReceiveError
      BY <1>3 DEF ReceiveError, Polls, Quiet, Generation
<1>4. CASE DiscardStale
      BY <1>4 DEF DiscardStale, Polls, Quiet, Generation
<1>5. CASE KeepChunk
      BY <1>5 DEF KeepChunk, Polls, Quiet, Generation, Obs
<1>6. CASE FillOrigBuf
      BY <1>6, ActionsType DEF FillOrigBuf, Originals
<1>7. CASE SetChunkSize
      BY <1>7 DEF SetChunkSize
<1>8. CASE ReadLatest
      BY <1>8 DEF ReadLatest
<1>9. CASE SwapQueue
      BY <1>9, ActionsType
         DEF SwapQueue, Merged, NoObs, Obs, Generation
<1>10. CASE RearmMustGo
      BY <1>10 DEF RearmMustGo
<1>11. QED
      BY <1>1, <1>2, <1>3, <1>4, <1>5, <1>6, <1>7, <1>8, <1>9, <1>10
         DEF ReceiverStep
=============================================================================
