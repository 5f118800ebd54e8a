------------------------ MODULE PolicyServerProofs ------------------------
(***************************************************************************)
(* What is proved of the policy server for any number of threads, clients, *)
(* episodes and faults: its types, that an inference overtaken by the next *)
(* episode adds nothing to it, and that one client's calls are served as   *)
(* PolicyService promises.                                                 *)
(***************************************************************************)
EXTENDS PolicyServer, FiniteSets, FiniteSetTheorems, TLAPS

(***************************************************************************)
(* Type correctness.  The bound of steals needs the calls that broke while *)
(* their thread waits for an observation: each of them had its fault.      *)
(***************************************************************************)
Sent == [st : {"none", "req", "ok", "lost"}, ts : Timestep, ep : Generation,
         must : BOOLEAN, start : BOOLEAN]
Kept == [full : BOOLEAN, ts : Timestep, ep : Generation]
Strays == {g \in Getters : gPc[g] = "get" /\ g # downBy}

SendOK ==
  /\ up \in Sent /\ sObs \in [Senders -> Sent]
  /\ sPc \in [Senders -> SenderPc]
  /\ upBy \in Senders \cup {Nobody}
  /\ upBy # Nobody => up.st = "req" /\ sPc[upBy] # "idle"

GetOK ==
  /\ down \in [st : {"none", "call", "empty", "error", "chunk"},
               ts : Timestep, ep : Generation]
  /\ gPc \in [Getters -> GetterPc]
  /\ gObs \in [Getters -> Kept] /\ gSnap \in [Getters -> Nat]
  /\ downBy \in Getters \cup {Nobody}
  /\ downBy # Nobody => down.st = "call" /\ gPc[downBy] # "idle"

StoreOK ==
  /\ queue \in Kept /\ predicted \subseteq Timestep \X Generation
  /\ processed \in BOOLEAN /\ broken \in BOOLEAN /\ serving \in BOOLEAN
  /\ epGen \in Nat /\ overtaken \subseteq Getters
  /\ rPc \in {"idle", "timesteps", "counters", "clear"}
  /\ session \in 1 .. MaxSessions

FaultsOK ==
  /\ faults \in 0 .. MaxFaults /\ failures \in 0 .. faults

StealsOK ==
  /\ steals \in Nat /\ IsFiniteSet(Strays)
  /\ steals + Cardinality(Strays) <= faults

TypeInv == SendOK /\ GetOK /\ StoreOK /\ FaultsOK /\ StealsOK

LEMMA TypeInvImpliesTypeOK ==
  ASSUME TypeInv
  PROVE  TypeOK
<1>1. Cardinality(Strays) \in Nat
      BY FS_CardinalityType DEF TypeInv, StealsOK
<1>2. steals \in 0 .. faults
      BY <1>1 DEF TypeInv, StealsOK, FaultsOK
<1>3. faults \in 0 .. MaxFaults /\ failures \in 0 .. MaxFaults
      BY ServerAssumption DEF ServerAssumption, TypeInv, FaultsOK
<1>4. queue \in Slot /\ gObs \in [Getters -> Slot]
      BY ServerAssumption
         DEF ServerAssumption, TypeInv, StoreOK, GetOK, Kept, Slot, Timestep,
             Generation
<1>5. QED
      BY <1>2, <1>3, <1>4
         DEF TypeOK, TypeInv, SendOK, GetOK, StoreOK, Sent

LEMMA TypeInit ==
  ASSUME Init
  PROVE  TypeInv
<1> USE ServerAssumption DEF ServerAssumption, Init
<1>1. SendOK
      BY DEF SendOK, Sent, NoSend, SenderPc, Timestep, Generation
<1>2. GetOK
      BY DEF GetOK, Kept, Quiet, NoObs, GetterPc, Timestep, Generation
<1>3. StoreOK
  <2>1. NoObs \in Kept
        BY DEF Kept, NoObs, Timestep, Generation
  <2>2. {} \subseteq Timestep \X Generation /\ {} \subseteq Getters
        OBVIOUS
  <2>3. session \in 1 .. MaxSessions /\ epGen \in Nat
        OBVIOUS
  <2>4. QED
        BY <2>1, <2>2, <2>3 DEF StoreOK
<1>4. Strays = {}
      BY DEF Strays
<1>5. Cardinality({}) = 0 /\ IsFiniteSet({})
      BY FS_EmptySet
<1>6. StealsOK /\ FaultsOK
      BY <1>4, <1>5 DEF StealsOK, FaultsOK
<1>7. QED
      BY <1>1, <1>2, <1>3, <1>6 DEF TypeInv

(***************************************************************************)
(* SendObservations.                                                       *)
(***************************************************************************)
LEMMA EndSendKeeps ==
  ASSUME SendOK, NEW s \in Senders, NEW result \in {"ok", "lost"},
         EndSend(s, result)
  PROVE  SendOK'
<1> USE ServerAssumption
        DEF ServerAssumption, SendOK, EndSend, SenderAt, Sent, NoSend, SenderPc
<1>1. NoSend \in Sent
      BY DEF Timestep, Generation
<1>2. /\ sPc' \in [Senders -> SenderPc] /\ sObs' \in [Senders -> Sent]
      /\ sPc'[s] = "idle" /\ \A t \in Senders \ {s} : sPc'[t] = sPc[t]
      BY <1>1
<1>3. CASE upBy = s
      BY <1>2, <1>3
<1>4. CASE upBy # s
      BY <1>2, <1>4
<1>5. QED
      BY <1>3, <1>4

\* A sender that only moves on within its call.
LEMMA MovesKeeps ==
  ASSUME SendOK, NEW s \in Senders, NEW pc \in SenderPc \ {"idle"},
         SenderAt(s, pc), UNCHANGED <<up, upBy, sObs>>
  PROVE  SendOK'
BY ServerAssumption DEF ServerAssumption, SendOK, SenderAt

LEMMA SendStepSend ==
  ASSUME TypeInv, NEW s \in Senders, SendStep(s)
  PROVE  SendOK'
<1> USE DEF TypeInv
<1>1. CASE BeginSend(s)
      BY <1>1, ServerAssumption
         DEF ServerAssumption, BeginSend, SendOK, SenderAt, SenderPc
<1>2. CASE DropWhileReset(s)
      BY <1>2, EndSendKeeps DEF DropWhileReset
<1>3. CASE ClearPredicted(s)
      BY <1>3, MovesKeeps DEF ClearPredicted, SenderPc
<1>4. CASE Accept(s)
      BY <1>4, MovesKeeps DEF Accept, SenderPc
<1>5. CASE Reject(s)
      BY <1>5, EndSendKeeps DEF Reject
<1>6. CASE TestFull(s)
      BY <1>6, MovesKeeps DEF TestFull, SenderPc
<1>7. CASE Evict(s)
      BY <1>7, MovesKeeps DEF Evict, SenderPc
<1>8. CASE EvictRaises(s)
      BY <1>8, EndSendKeeps DEF EvictRaises
<1>9. CASE PutObs(s)
  <2>1. CASE EndSend(s, "ok") \/ EndSend(s, "lost")
        BY <2>1, EndSendKeeps
  <2>2. CASE SenderAt(s, "clear") /\ UNCHANGED <<up, upBy, sObs>>
        BY <2>2, MovesKeeps DEF SenderPc
  <2>3. QED
        BY <1>9, <2>1, <2>2 DEF PutObs
<1>10. QED
       BY <1>1, <1>2, <1>3, <1>4, <1>5, <1>6, <1>7, <1>8, <1>9 DEF SendStep

LEMMA SendType ==
  ASSUME TypeInv, [Next]_vars
  PROVE  SendOK'
<1> USE DEF TypeInv
<1>1. ASSUME NEW s \in Senders, SendStep(s)
      PROVE  SendOK'
      BY <1>1, SendStepSend
<1>2. CASE UNCHANGED sending
      BY <1>2 DEF sending, SendOK
<1>3. ASSUME NEW g \in Getters, GetStep(g)
      PROVE  UNCHANGED sending
      BY <1>3 DEF GetStep, BeginGet, TakeObs, TimeOut, SnapGeneration, Prepare,
         InferFails, AddPredicted, Finish
<1>4. CASE CallLost
      BY <1>4 DEF CallLost, SendOK, Sent
<1>5. CASE CallBreaks
      BY <1>5, <1>2 DEF CallBreaks
<1>6. CASE ReadyQueue
  <2>1. up.ep + 1 \in Generation
        BY <1>6, ServerAssumption
           DEF ServerAssumption, ReadyQueue, SendOK, Sent, Generation
  <2>2. up' = [NoSend EXCEPT !.ep = up.ep + 1] /\ upBy' = Nobody /\ sObs' = sObs
        BY <1>6 DEF ReadyQueue
  <2>3. NoSend \in Sent
        BY ServerAssumption
           DEF ServerAssumption, Sent, NoSend, Timestep, Generation
  <2>4. up' \in Sent /\ upBy' = Nobody /\ sObs' = sObs
        BY <2>1, <2>2, <2>3 DEF Sent
  <2>5. PICK blocked : sPc' = [s \in Senders |-> IF s \in blocked THEN "stuck"
                                                 ELSE sPc[s]]
        BY <1>6 DEF ReadyQueue
  <2>6. sPc' \in [Senders -> SenderPc]
        BY <2>5 DEF SendOK, SenderPc
  <2>7. QED
        BY <2>4, <2>6 DEF SendOK
<1>7. CASE ReadyTimesteps \/ ReadyCounters \/ ReadyClear
      BY <1>7, <1>2 DEF ReadyTimesteps, ReadyCounters, ReadyClear
<1>8. CASE ClientSends
      BY <1>8, ServerAssumption
         DEF ServerAssumption, ClientSends, SendOK, Sent, Generation
<1>9. CASE ClientPolls
      BY <1>9, <1>2 DEF ClientPolls
<1>10. CASE UNCHANGED vars
       BY <1>10, <1>2 DEF vars
<1>11. QED
       BY <1>1, <1>2, <1>3, <1>4, <1>5, <1>6, <1>7, <1>8, <1>9, <1>10
          DEF Next, ReadyStep, ClientStep

(***************************************************************************)
(* GetActions.                                                             *)
(***************************************************************************)
LEMMA EndGetKeeps ==
  ASSUME GetOK, NEW g \in Getters, NEW reply, EndGet(g, reply),
         reply \in [st : {"empty", "chunk"}, ts : Timestep, ep : Generation]
  PROVE  GetOK'
<1> USE ServerAssumption
        DEF ServerAssumption, GetOK, EndGet, GetterAt, GetterPc
<1>1. NoObs \in Kept
      BY DEF NoObs, Kept, Timestep, Generation
<1>2. /\ gPc' \in [Getters -> GetterPc] /\ gObs' \in [Getters -> Kept]
      /\ gSnap' \in [Getters -> Nat]
      /\ gPc'[g] = "idle" /\ \A h \in Getters \ {g} : gPc'[h] = gPc[h]
      BY <1>1
<1>3. CASE downBy = g
      BY <1>2, <1>3
<1>4. CASE downBy # g
      BY <1>2, <1>4
<1>5. QED
      BY <1>3, <1>4

LEMMA Replies ==
  ASSUME GetOK
  PROVE  /\ EmptyReply \in [st : {"empty", "chunk"}, ts : Timestep,
                            ep : Generation]
         /\ \A g \in Getters :
              [st |-> "chunk", ts |-> gObs[g].ts, ep |-> gObs[g].ep]
                \in [st : {"empty", "chunk"}, ts : Timestep, ep : Generation]
BY ServerAssumption
   DEF ServerAssumption, GetOK, EmptyReply, Quiet, Kept, Timestep, Generation

\* A getter that only moves on within its call.
LEMMA GetterMovesKeeps ==
  ASSUME GetOK, NEW g \in Getters, NEW pc \in GetterPc \ {"idle"},
         GetterAt(g, pc), UNCHANGED <<down, downBy>>,
         gObs' \in [Getters -> Kept], gSnap' \in [Getters -> Nat]
  PROVE  GetOK'
BY ServerAssumption DEF ServerAssumption, GetOK, GetterAt

LEMMA GetStepGet ==
  ASSUME TypeInv, NEW g \in Getters, GetStep(g)
  PROVE  GetOK'
<1> USE DEF TypeInv
<1>0. gObs \in [Getters -> Kept] /\ gSnap \in [Getters -> Nat]
      BY DEF GetOK
<1>1. CASE BeginGet(g)
  <2>1. UNCHANGED <<gObs, gSnap>> /\ down.st = "call"
        BY <1>1 DEF BeginGet
  <2>2. CASE broken
        BY <1>1, <2>1, <2>2, ServerAssumption, Replies
           DEF ServerAssumption, BeginGet, GetOK
  <2>3. CASE ~broken
    <3>1. gPc' = [gPc EXCEPT ![g] = "get"] /\ downBy' = g /\ UNCHANGED down
          BY <1>1, <2>3 DEF BeginGet, GetterAt
    <3>2. QED
          BY <2>1, <3>1, ServerAssumption DEF ServerAssumption, GetOK, GetterPc
  <2>4. QED
        BY <2>2, <2>3
<1>2. CASE TakeObs(g)
  <2>1. gObs' \in [Getters -> Kept]
        BY <1>0, <1>2 DEF TakeObs, StoreOK
  <2>2. QED
        BY <1>0, <1>2, <2>1, GetterMovesKeeps DEF TakeObs, GetterPc
<1>3. CASE TimeOut(g)
      BY <1>3, EndGetKeeps, Replies DEF TimeOut
<1>4. CASE SnapGeneration(g)
  <2>1. gSnap' \in [Getters -> Nat]
        BY <1>0, <1>4 DEF SnapGeneration, StoreOK
  <2>2. QED
        BY <1>0, <1>4, <2>1, GetterMovesKeeps DEF SnapGeneration, GetterPc
<1>5. CASE Prepare(g)
      BY <1>0, <1>5, GetterMovesKeeps DEF Prepare, GetterPc
<1>6. CASE InferFails(g)
      BY <1>6, EndGetKeeps, Replies DEF InferFails
<1>7. CASE AddPredicted(g)
      BY <1>0, <1>7, GetterMovesKeeps DEF AddPredicted, GetterPc
<1>8. CASE Finish(g)
      BY <1>8, EndGetKeeps, Replies DEF Finish
<1>9. QED
      BY <1>1, <1>2, <1>3, <1>4, <1>5, <1>6, <1>7, <1>8 DEF GetStep

LEMMA GetType ==
  ASSUME TypeInv, [Next]_vars
  PROVE  GetOK'
<1> USE DEF TypeInv
<1>1. ASSUME NEW g \in Getters, GetStep(g)
      PROVE  GetOK'
      BY <1>1, GetStepGet
<1>2. CASE UNCHANGED <<down, downBy, gPc, gObs, gSnap>>
      BY <1>2 DEF GetOK
<1>3. ASSUME NEW s \in Senders, SendStep(s)
      PROVE  UNCHANGED <<down, downBy, gPc, gObs, gSnap>>
      BY <1>3 DEF SendStep, BeginSend, DropWhileReset, ClearPredicted, Accept,
         Reject, TestFull, Evict, EvictRaises, PutObs, getting
<1>4. CASE CallLost \/ ReadyTimesteps \/ ReadyCounters \/ ReadyClear
           \/ ClientSends
      BY <1>4, <1>2 DEF CallLost, ReadyTimesteps, ReadyCounters, ReadyClear,
         ClientSends, getting
<1>5. CASE CallBreaks
      BY <1>5, ServerAssumption
         DEF ServerAssumption, CallBreaks, GetOK, Quiet, Timestep, Generation
<1>6. CASE ReadyQueue
      BY <1>6, ServerAssumption
         DEF ServerAssumption, ReadyQueue, GetOK, GetterPc, Quiet, Timestep,
             Generation
<1>7. CASE ClientPolls
      BY <1>7, ServerAssumption
         DEF ServerAssumption, ClientPolls, GetOK, Quiet, Timestep, Generation
<1>8. CASE UNCHANGED vars
      BY <1>8, <1>2 DEF vars, getting
<1>9. QED
      BY <1>1, <1>2, <1>3, <1>4, <1>5, <1>6, <1>7, <1>8
         DEF Next, ReadyStep, ClientStep

(***************************************************************************)
(* The store, the episodes and the faults.                                 *)
(***************************************************************************)
LEMMA SendStepStore ==
  ASSUME TypeInv, NEW s \in Senders, SendStep(s)
  PROVE  StoreOK'
<1> USE ServerAssumption DEF ServerAssumption, TypeInv, policy, connection
<1>0. NoObs \in Kept
      BY DEF NoObs, Kept, Timestep, Generation
<1>1. CASE UNCHANGED <<queue, policy, episode, connection>>
      BY <1>1 DEF StoreOK, episode
<1>2. CASE ClearPredicted(s)
      BY <1>2 DEF ClearPredicted, StoreOK, episode, Inferring
<1>3. CASE Evict(s)
      BY <1>0, <1>3 DEF Evict, StoreOK, episode
<1>4. CASE PutObs(s)
  <2>1. sObs[s] \in Sent
        BY DEF SendOK
  <2>2. queue' \in Kept
        BY <1>4, <2>1 DEF PutObs, Sent, Kept
  <2>3. QED
        BY <1>4, <2>2 DEF PutObs, StoreOK, episode
<1>5. QED
      BY <1>1, <1>2, <1>3, <1>4
         DEF SendStep, BeginSend, DropWhileReset, Accept, Reject, TestFull,
             EvictRaises

LEMMA GetStepStore ==
  ASSUME TypeInv, NEW g \in Getters, GetStep(g)
  PROVE  StoreOK'
<1> USE ServerAssumption DEF ServerAssumption, TypeInv, policy, connection
<1>0. NoObs \in Kept
      BY DEF NoObs, Kept, Timestep, Generation
<1>1. CASE UNCHANGED <<queue, processed, broken, episode, connection>>
      BY <1>1 DEF StoreOK, episode
<1>2. CASE TakeObs(g)
      BY <1>0, <1>2 DEF TakeObs, StoreOK, episode
<1>3. CASE SnapGeneration(g)
      BY <1>3 DEF SnapGeneration, StoreOK
<1>4. CASE Prepare(g)
      BY <1>4 DEF Prepare, StoreOK, episode
<1>5. CASE InferFails(g)
  <2>1. broken' \in BOOLEAN
        BY <1>5 DEF InferFails, StoreOK
  <2>2. QED
        BY <1>5, <2>1 DEF InferFails, StoreOK, episode
<1>6. CASE AddPredicted(g)
  <2>1. gObs[g].ts \in Timestep /\ gObs[g].ep \in Generation
        BY DEF GetOK, Kept
  <2>2. predicted' \subseteq Timestep \X Generation
        BY <1>6, <2>1 DEF AddPredicted, StoreOK
  <2>3. QED
        BY <1>6, <2>2 DEF AddPredicted, StoreOK
<1>7. QED
      BY <1>1, <1>2, <1>3, <1>4, <1>5, <1>6
         DEF GetStep, BeginGet, TimeOut, Finish

LEMMA StoreType ==
  ASSUME TypeInv, [Next]_vars
  PROVE  StoreOK'
<1> USE ServerAssumption DEF ServerAssumption, TypeInv
<1>1. ASSUME NEW s \in Senders, SendStep(s)
      PROVE  StoreOK'
      BY <1>1, SendStepStore
<1>2. ASSUME NEW g \in Getters, GetStep(g)
      PROVE  StoreOK'
      BY <1>2, GetStepStore
<1>3. CASE CallLost \/ CallBreaks \/ ClientStep \/ UNCHANGED vars
      BY <1>3
         DEF CallLost, CallBreaks, ClientStep, ClientSends, ClientPolls, vars,
             StoreOK, policy, episode, connection
<1>4. CASE ReadyQueue
  <2>1. queue' \in Kept
        BY <1>4 DEF ReadyQueue, NoObs, Kept, Timestep, Generation
  <2>2. session' \in 1 .. MaxSessions /\ rPc' = "timesteps"
        BY <1>4 DEF ReadyQueue, StoreOK
  <2>3. serving' = FALSE /\ UNCHANGED policy /\ UNCHANGED episode
        BY <1>4 DEF ReadyQueue
  <2>4. QED
        BY <2>1, <2>2, <2>3 DEF StoreOK, policy, episode
<1>5. CASE ReadyTimesteps
      BY <1>5 DEF ReadyTimesteps, StoreOK, policy
<1>6. CASE ReadyCounters
      BY <1>6 DEF ReadyCounters, StoreOK
<1>7. CASE ReadyClear
      BY <1>7 DEF ReadyClear, StoreOK, policy, episode
<1>8. QED
      BY <1>1, <1>2, <1>3, <1>4, <1>5, <1>6, <1>7 DEF Next, ReadyStep

LEMMA FaultsType ==
  ASSUME TypeInv, [Next]_vars
  PROVE  FaultsOK' /\ faults' >= faults
<1> USE ServerAssumption DEF ServerAssumption, TypeInv, FaultsOK, Fault
<1>1. ASSUME NEW s \in Senders, SendStep(s)
      PROVE  /\ failures' = failures
             /\ UNCHANGED faults \/ Fault
      BY <1>1
         DEF SendStep, BeginSend, DropWhileReset, ClearPredicted, Accept, Reject,
             TestFull, Evict, EvictRaises, PutObs, policy
<1>2. ASSUME NEW g \in Getters, GetStep(g)
      PROVE  FaultsOK' /\ faults' >= faults
  <2>1. CASE InferFails(g)
        BY <2>1 DEF InferFails
  <2>2. CASE Finish(g)
        BY <2>2 DEF Finish
  <2>3. CASE UNCHANGED failures /\ (UNCHANGED faults \/ Fault)
        BY <2>3
  <2>4. QED
        BY <1>2, <2>1, <2>2, <2>3
           DEF GetStep, BeginGet, TakeObs, TimeOut, SnapGeneration, Prepare,
               AddPredicted, policy
<1>3. CASE UNCHANGED failures /\ (UNCHANGED faults \/ Fault)
      BY <1>3
<1>4. CASE CallLost \/ CallBreaks \/ ClientStep \/ UNCHANGED vars
      BY <1>3, <1>4
         DEF CallLost, CallBreaks, ClientStep, ClientSends, ClientPolls, vars,
             policy
<1>5. CASE ReadyStep
      BY <1>5
         DEF ReadyStep, ReadyQueue, ReadyTimesteps, ReadyCounters, ReadyClear,
             policy
<1>6. QED
      BY <1>1, <1>2, <1>3, <1>4, <1>5 DEF Next

\* A step that leaves no further call astray.
LEMMA NoMoreStrays ==
  ASSUME StealsOK, FaultsOK, FaultsOK', faults' >= faults, steals' = steals,
         Strays' \subseteq Strays
  PROVE  StealsOK'
<1>1. IsFiniteSet(Strays') /\ Cardinality(Strays') <= Cardinality(Strays)
      BY FS_Subset DEF StealsOK
<1>2. Cardinality(Strays) \in Nat /\ Cardinality(Strays') \in Nat
      BY <1>1, FS_CardinalityType DEF StealsOK
<1>3. QED
      BY <1>1, <1>2 DEF StealsOK, FaultsOK

\* A call that breaks leaves one.
LEMMA OneMoreStray ==
  ASSUME StealsOK, FaultsOK, FaultsOK', faults' = faults + 1,
         steals' = steals, Strays' \subseteq Strays \cup {downBy}
  PROVE  StealsOK'
<1>1. /\ IsFiniteSet(Strays \cup {downBy})
      /\ Cardinality(Strays \cup {downBy}) <= Cardinality(Strays) + 1
  <2>1. Cardinality(Strays) \in Nat
        BY FS_CardinalityType DEF StealsOK
  <2>2. /\ IsFiniteSet(Strays \cup {downBy})
        /\ Cardinality(Strays \cup {downBy}) =
             IF downBy \in Strays THEN Cardinality(Strays)
             ELSE Cardinality(Strays) + 1
        BY FS_AddElement DEF StealsOK
  <2>3. QED
        BY <2>1, <2>2
<1>2. /\ IsFiniteSet(Strays')
      /\ Cardinality(Strays') <= Cardinality(Strays \cup {downBy})
      BY <1>1, FS_Subset
<1>3. /\ Cardinality(Strays) \in Nat /\ Cardinality(Strays') \in Nat
      /\ Cardinality(Strays \cup {downBy}) \in Nat
      BY <1>1, <1>2, FS_CardinalityType DEF StealsOK
<1>4. QED
      BY <1>1, <1>2, <1>3 DEF StealsOK, FaultsOK

\* A call astray takes an observation and counts as a steal from then on.
LEMMA StrayTakes ==
  ASSUME TypeInv, NEW g \in Strays, FaultsOK', faults' = faults,
         steals' = steals + 1, Strays' \subseteq Strays \ {g}
  PROVE  StealsOK' /\ steals < faults
<1>1. /\ IsFiniteSet(Strays \ {g})
      /\ Cardinality(Strays \ {g}) = Cardinality(Strays) - 1
      BY FS_RemoveElement DEF TypeInv, StealsOK
<1>2. /\ IsFiniteSet(Strays')
      /\ Cardinality(Strays') <= Cardinality(Strays \ {g})
      BY <1>1, FS_Subset
<1>3. Cardinality(Strays) \in Nat /\ Cardinality(Strays') \in Nat
      BY <1>1, <1>2, FS_CardinalityType DEF TypeInv, StealsOK
<1>4. Cardinality(Strays \ {g}) \in Nat
      BY <1>1, FS_CardinalityType
<1>5. QED
      BY <1>1, <1>2, <1>3, <1>4 DEF TypeInv, StealsOK, FaultsOK

LEMMA StealsType ==
  ASSUME TypeInv, [Next]_vars
  PROVE  StealsOK'
<1> USE DEF TypeInv
<1>0. FaultsOK' /\ faults' >= faults
      BY FaultsType
<1>1. CASE UNCHANGED <<gPc, downBy, steals>>
      BY <1>0, <1>1, NoMoreStrays DEF Strays
<1>2. ASSUME NEW s \in Senders, SendStep(s)
      PROVE  UNCHANGED <<gPc, downBy, steals>>
      BY <1>2 DEF SendStep, BeginSend, DropWhileReset, ClearPredicted, Accept,
         Reject, TestFull, Evict, EvictRaises, PutObs, getting
<1>3. ASSUME NEW g \in Getters, GetStep(g)
      PROVE  StealsOK'
  <2>0. gPc \in [Getters -> GetterPc]
        BY DEF GetOK
  <2>1. CASE BeginGet(g)
    <3>1. steals' = steals /\ down.st = "call" /\ gPc[g] = "idle"
          BY <2>1 DEF BeginGet
    <3>2. Strays' \subseteq Strays \cup {downBy}
      <4>1. CASE broken
            BY <2>1, <4>1 DEF BeginGet, Strays
      <4>2. CASE ~broken
            BY <2>0, <2>1, <4>2 DEF BeginGet, Strays, GetterAt
      <4>3. QED
            BY <4>1, <4>2
    <3>3. CASE downBy = Nobody
      <4>1. Strays' \subseteq Strays
            BY <3>2, <3>3, ServerAssumption DEF ServerAssumption, Strays
      <4>2. QED
            BY <1>0, <3>1, <4>1, NoMoreStrays
    <3>4. CASE downBy # Nobody
      <4>1. faults' = faults + 1
            BY <2>1, <3>4 DEF BeginGet, Fault
      <4>2. QED
            BY <1>0, <3>1, <3>2, <4>1, OneMoreStray
    <3>5. QED
          BY <3>3, <3>4
  <2>2. CASE TakeObs(g) /\ downBy = g
    <3>1. steals' = steals /\ Strays' \subseteq Strays
          BY <2>0, <2>2 DEF TakeObs, Strays, GetterAt
    <3>2. QED
          BY <1>0, <3>1, NoMoreStrays
  <2>3. CASE TakeObs(g) /\ downBy # g
    <3>1. /\ steals' = steals + 1 /\ g \in Strays /\ faults' = faults
          /\ Strays' \subseteq Strays \ {g}
          BY <2>0, <2>3 DEF TakeObs, Strays, GetterAt, GetterPc
    <3>2. QED
          BY <1>0, <3>1, StrayTakes
  <2>4. ASSUME NEW reply, EndGet(g, reply)
        PROVE  StealsOK'
    <3>1. steals' = steals /\ Strays' \subseteq Strays
          BY <2>0, <2>4 DEF EndGet, Strays, GetterAt
    <3>2. QED
          BY <1>0, <3>1, NoMoreStrays
  <2>5. ASSUME NEW pc \in GetterPc \ {"get"}, GetterAt(g, pc),
               UNCHANGED <<downBy, steals>>
        PROVE  StealsOK'
    <3>1. Strays' \subseteq Strays
          BY <2>0, <2>5 DEF Strays, GetterAt
    <3>2. QED
          BY <1>0, <2>5, <3>1, NoMoreStrays
  <2>6. CASE TimeOut(g) \/ InferFails(g) \/ Finish(g)
        BY <2>4, <2>6 DEF TimeOut, InferFails, Finish
  <2>7. CASE SnapGeneration(g) \/ Prepare(g) \/ AddPredicted(g)
        BY <2>5, <2>7 DEF SnapGeneration, Prepare, AddPredicted, GetterPc
  <2>8. QED
        BY <1>3, <2>1, <2>2, <2>3, <2>6, <2>7 DEF GetStep
<1>4. CASE CallBreaks
  <2>1. /\ steals' = steals /\ faults' = faults + 1
        /\ Strays' \subseteq Strays \cup {downBy}
        BY <1>4 DEF CallBreaks, Fault, Strays
  <2>2. QED
        BY <1>0, <2>1, OneMoreStray
<1>5. CASE ReadyQueue
  <2>1. steals' = steals /\ Strays' \subseteq Strays
        BY <1>5 DEF ReadyQueue, Strays
  <2>2. QED
        BY <1>0, <2>1, NoMoreStrays
<1>6. CASE CallLost \/ ReadyTimesteps \/ ReadyCounters \/ ReadyClear
           \/ ClientStep \/ UNCHANGED vars
      BY <1>1, <1>6
         DEF CallLost, ReadyTimesteps, ReadyCounters, ReadyClear, ClientStep,
             ClientSends, ClientPolls, vars, getting
<1>7. QED
      BY <1>1, <1>2, <1>3, <1>4, <1>5, <1>6 DEF Next, ReadyStep

LEMMA TypeInductive == Spec => []TypeInv
<1>1. ASSUME TypeInv, [Next]_vars
      PROVE  TypeInv'
      BY <1>1, SendType, GetType, StoreType, FaultsType, StealsType
         DEF TypeInv
<1>2. QED
      BY <1>1, TypeInit, PTL DEF Spec

\* Every variable of the server keeps its type, a client waits only for a
\* thread that is at work on its call, and every observation that
\* observation_queue.get() hands to a call that broke is matched by a fault of
\* its own.
THEOREM TypeCorrect == Spec => []TypeOK
BY TypeInductive, TypeInvImpliesTypeOK, PTL

-----------------------------------------------------------------------------
(***************************************************************************)
(* An overtaken inference holds a generation that is older than the        *)
(* server's, which only grows until another client connects.               *)
(***************************************************************************)
OldSnapshot ==
  \A g \in overtaken : gPc[g] \in {"prepare", "infer"} => gSnap[g] < epGen

LEMMA OldSnapshotStep ==
  ASSUME TypeInv, OldSnapshot, [Next]_vars
  PROVE  OldSnapshot'
<1> USE DEF OldSnapshot
<1>0. /\ gPc \in [Getters -> GetterPc] /\ gSnap \in [Getters -> Nat]
      /\ epGen \in Nat /\ overtaken \subseteq Getters
      BY DEF TypeInv, GetOK, StoreOK
<1>1. CASE UNCHANGED <<overtaken, gPc, gSnap, epGen>>
      BY <1>1
<1>2. ASSUME NEW s \in Senders, SendStep(s)
      PROVE  OldSnapshot'
  <2>1. CASE ClearPredicted(s)
    <3>1. UNCHANGED <<gPc, gSnap>>
          BY <2>1 DEF ClearPredicted, getting
    <3>2. \/ UNCHANGED <<epGen, overtaken>>
          \/ epGen' = epGen + 1 /\ overtaken' = overtaken \cup Inferring
          BY <2>1 DEF ClearPredicted, episode
    <3>3. QED
          BY <1>0, <3>1, <3>2 DEF Inferring
  <2>2. QED
        BY <1>1, <1>2, <2>1
           DEF SendStep, BeginSend, DropWhileReset, Accept, Reject, TestFull,
               Evict, EvictRaises, PutObs, getting, episode
<1>3. ASSUME NEW g \in Getters, GetStep(g)
      PROVE  OldSnapshot'
  <2>1. CASE SnapGeneration(g)
        BY <1>0, <2>1 DEF SnapGeneration, GetterAt
  <2>2. CASE Prepare(g)
        BY <1>0, <2>2 DEF Prepare, GetterAt, episode
  <2>3. ASSUME NEW pc \in {"get", "snap", "finish"}, GetterAt(g, pc),
               UNCHANGED <<overtaken, gSnap, epGen>>
        PROVE  OldSnapshot'
        BY <1>0, <2>3 DEF GetterAt
  <2>4. ASSUME NEW reply, EndGet(g, reply), UNCHANGED <<overtaken, epGen>>
        PROVE  OldSnapshot'
        BY <1>0, <2>4 DEF EndGet, GetterAt
  <2>5. CASE BeginGet(g)
        BY <1>1, <2>3, <2>5 DEF BeginGet, episode
  <2>6. CASE TakeObs(g) \/ AddPredicted(g)
        BY <2>3, <2>6 DEF TakeObs, AddPredicted, episode
  <2>7. CASE TimeOut(g) \/ InferFails(g) \/ Finish(g)
        BY <2>4, <2>7 DEF TimeOut, InferFails, Finish, episode
  <2>8. QED
        BY <1>3, <2>1, <2>2, <2>5, <2>6, <2>7 DEF GetStep
<1>4. CASE ReadyQueue
      BY <1>0, <1>4 DEF ReadyQueue, episode
<1>5. CASE ReadyCounters
      BY <1>5 DEF ReadyCounters
<1>6. CASE CallLost \/ CallBreaks \/ ReadyTimesteps \/ ReadyClear
           \/ ClientStep \/ UNCHANGED vars
      BY <1>1, <1>6
         DEF CallLost, CallBreaks, ReadyTimesteps, ReadyClear, ClientStep,
             ClientSends, ClientPolls, vars, getting, episode
<1>7. QED
      BY <1>2, <1>3, <1>4, <1>5, <1>6 DEF Next, ReadyStep

LEMMA OvertakenAddsNothing ==
  ASSUME TypeInv, OldSnapshot, [Next]_vars,
         NEW h \in overtaken, gPc[h] = "infer", gPc'[h] = "finish"
  PROVE  predicted' = predicted
<1>0. /\ gPc \in [Getters -> GetterPc] /\ h \in Getters
      /\ gSnap[h] \in Nat /\ epGen \in Nat
      BY DEF TypeInv, GetOK, StoreOK
<1>1. ~UNCHANGED gPc
      OBVIOUS
<1>2. ASSUME NEW g \in Getters, GetStep(g)
      PROVE  predicted' = predicted
  <2>1. CASE AddPredicted(g) /\ g = h
        BY <1>0, <2>1 DEF AddPredicted, OldSnapshot
  <2>2. CASE AddPredicted(g) /\ g # h
        BY <1>0, <2>2 DEF AddPredicted, GetterAt
  <2>3. QED
        BY <1>2, <2>1, <2>2
           DEF GetStep, BeginGet, TakeObs, TimeOut, SnapGeneration, Prepare,
               InferFails, Finish, episode
<1>3. ASSUME NEW s \in Senders, SendStep(s)
      PROVE  UNCHANGED gPc
      BY <1>3 DEF SendStep, BeginSend, DropWhileReset, ClearPredicted, Accept,
         Reject, TestFull, Evict, EvictRaises, PutObs, getting
<1>4. CASE ReadyQueue
      BY <1>4 DEF ReadyQueue, episode
<1>5. CASE CallLost \/ CallBreaks \/ ReadyTimesteps \/ ReadyCounters
           \/ ReadyClear \/ ClientStep \/ UNCHANGED vars
      BY <1>1, <1>5
         DEF CallLost, CallBreaks, ReadyTimesteps, ReadyCounters, ReadyClear,
             ClientStep, ClientSends, ClientPolls, vars, getting
<1>6. QED
      BY <1>1, <1>2, <1>3, <1>4, <1>5 DEF Next, ReadyStep

\* With any number of threads, clients and episodes, an inference that had its
\* snapshot when the next episode began leaves _predicted_timesteps as it is:
\* the comparison of _episode_generation with ep_gen_snapshot stops it.
THEOREM OvertakenIsStopped == Spec => OldInferenceAddsNothing
<1>1. ASSUME Init
      PROVE  OldSnapshot
      BY <1>1 DEF Init, OldSnapshot
<1>2. ASSUME TypeInv, OldSnapshot, [Next]_vars
      PROVE  /\ OldSnapshot'
             /\ [\A g \in overtaken : gPc[g] = "infer" /\ gPc'[g] = "finish"
                   => predicted' = predicted]_vars
      BY <1>2, OldSnapshotStep, OvertakenAddsNothing
<1>3. QED
      BY <1>1, <1>2, TypeInductive, PTL DEF Spec, OldInferenceAddsNothing

-----------------------------------------------------------------------------
(***************************************************************************)
(* Threads left blocked.  As long as the first client reissues no call, at *)
(* most one thread sends, the one it waits for, and its put finds room.    *)
(***************************************************************************)
AloneInv ==
  /\ faults = 0 /\ session = 1 =>
       \A s \in Senders : sPc[s] # "idle" =>
         upBy = s /\ (sPc[s] = "put" => ~queue.full)
  /\ faults = 0 /\ session <= 2 => \A s \in Senders : sPc[s] # "stuck"

LEMMA AloneSend ==
  ASSUME TypeInv, AloneInv, NEW s \in Senders, SendStep(s)
  PROVE  AloneInv'
<1> USE ServerAssumption DEF ServerAssumption
<1>0. /\ sPc \in [Senders -> SenderPc] /\ upBy \in Senders \cup {Nobody}
      /\ faults \in Nat /\ session \in Nat /\ session' = session
      /\ faults' = faults \/ faults' = faults + 1
      BY DEF TypeInv, SendOK, StoreOK, FaultsOK, SendStep, BeginSend,
         DropWhileReset, ClearPredicted, Accept, Reject, TestFull, Evict,
         EvictRaises, PutObs, Fault, connection
<1>1. SUFFICES ASSUME faults = 0, faults' = 0, session <= 2
               PROVE  AloneInv'
      BY <1>0 DEF AloneInv
<1>2. \A t \in Senders : sPc[t] # "stuck"
      BY <1>1 DEF AloneInv
<1>3. \A t \in Senders : sPc'[t] # "stuck"
      BY <1>0, <1>2
         DEF SendStep, BeginSend, DropWhileReset, ClearPredicted, Accept, Reject,
             TestFull, Evict, EvictRaises, PutObs, EndSend, SenderAt
<1>4. ASSUME session = 1
      PROVE  \A t \in Senders : sPc'[t] # "idle" =>
               upBy' = t /\ (sPc'[t] = "put" => ~queue'.full)
  <2> USE <1>0, <1>1, <1>4 DEF AloneInv, SenderAt, EndSend
  <2>1. CASE BeginSend(s)
    <3>1. upBy = Nobody /\ upBy' = s /\ sPc' = [sPc EXCEPT ![s] = "clear"]
          BY <2>1 DEF BeginSend, Fault
    <3>2. \A t \in Senders : sPc[t] = "idle"
          BY <3>1
    <3>3. QED
          BY <3>1, <3>2
  <2>2. CASE ~BeginSend(s)
    <3>1. sPc[s] # "idle"
          BY <2>2 DEF SendStep, DropWhileReset, ClearPredicted, Accept, Reject,
             TestFull, Evict, EvictRaises, PutObs
    <3>2. \A t \in Senders : sPc[t] # "idle" => t = s
          BY <3>1
    <3>3. CASE DropWhileReset(s) \/ Reject(s) \/ EvictRaises(s)
          BY <3>1, <3>2, <3>3 DEF DropWhileReset, Reject, EvictRaises
    <3>4. CASE ClearPredicted(s) \/ Accept(s)
          BY <3>1, <3>2, <3>4 DEF ClearPredicted, Accept
    <3>5. CASE TestFull(s)
          BY <3>1, <3>2, <3>5 DEF TestFull
    <3>6. CASE Evict(s)
          BY <3>1, <3>2, <3>6 DEF Evict, NoObs
    <3>7. CASE PutObs(s)
          BY <3>1, <3>2, <3>7 DEF PutObs, Fault
    <3>8. QED
          BY <2>2, <3>3, <3>4, <3>5, <3>6, <3>7 DEF SendStep
  <2>3. QED
        BY <2>1, <2>2
<1>5. QED
      BY <1>0, <1>3, <1>4 DEF AloneInv

LEMMA AloneReady ==
  ASSUME TypeInv, AloneInv, ReadyQueue
  PROVE  AloneInv'
<1>0. /\ sPc \in [Senders -> SenderPc] /\ session \in Nat \ {0}
      /\ session' = session + 1 /\ faults' = faults
      BY DEF TypeInv, SendOK, StoreOK, ReadyQueue
<1>1. SUFFICES ASSUME faults = 0, session = 1
               PROVE  \A t \in Senders : sPc'[t] # "stuck"
      BY <1>0 DEF AloneInv
<1>2. \A t \in Senders : ~(sPc[t] = "put" /\ queue.full) /\ sPc[t] # "stuck"
      BY <1>1 DEF AloneInv
<1>3. PICK blocked \in SUBSET {t \in Senders : sPc[t] = "put" /\ queue.full} :
        sPc' = [t \in Senders |-> IF t \in blocked THEN "stuck" ELSE sPc[t]]
      BY Zenon DEF ReadyQueue
<1>4. blocked = {}
      BY <1>2, <1>3
<1>5. QED
      BY <1>2, <1>3, <1>4

LEMMA AloneStep ==
  ASSUME TypeInv, AloneInv, [Next]_vars
  PROVE  AloneInv'
<1>1. CASE \E s \in Senders : SendStep(s)
      BY <1>1, AloneSend
<1>2. CASE ReadyQueue
      BY <1>2, AloneReady
<1>3. CASE CallLost \/ CallBreaks
  <2>1. faults' # 0
        BY <1>3 DEF CallLost, CallBreaks, Fault, TypeInv, FaultsOK
  <2>2. QED
        BY <2>1 DEF AloneInv
<1>4. ASSUME NEW g \in Getters, GetStep(g)
      PROVE  AloneInv'
  <2>1. /\ UNCHANGED <<upBy, sPc, session>>
        /\ queue' = queue \/ ~queue'.full
        /\ faults' = faults \/ faults' = faults + 1
        BY <1>4
           DEF GetStep, BeginGet, TakeObs, TimeOut, SnapGeneration, Prepare,
               InferFails, AddPredicted, Finish, Fault, NoObs, sending, connection
  <2>2. faults \in Nat
        BY DEF TypeInv, FaultsOK
  <2>3. QED
        BY <2>1, <2>2 DEF AloneInv
<1>5. CASE \/ ReadyTimesteps \/ ReadyCounters \/ ReadyClear \/ ClientStep
           \/ UNCHANGED vars
  <2>1. UNCHANGED <<upBy, sPc, session, queue, faults>>
        BY <1>5
           DEF ReadyTimesteps, ReadyCounters, ReadyClear, ClientStep, ClientSends,
               ClientPolls, vars, sending, connection
  <2>2. QED
        BY <2>1 DEF AloneInv
<1>6. QED
      BY <1>1, <1>2, <1>3, <1>4, <1>5 DEF Next, ReadyStep

\* Ready leaves a thread blocked on the old queue only after a call was reissued
\* or another client had come before: for any number of threads and clients.
THEOREM BlockedOnlyByReissue == Spec => []StuckNeedsReissue
<1>1. Init => AloneInv
      BY DEF Init, AloneInv
<1>2. TypeInv /\ AloneInv => StuckNeedsReissue
      BY DEF AloneInv, StuckNeedsReissue, TypeInv, FaultsOK, StoreOK
<1>3. QED
      BY <1>1, <1>2, AloneStep, TypeInductive, PTL DEF Spec

-----------------------------------------------------------------------------
(***************************************************************************)
(* The refinement.  One client, which has one SendObservations call at a   *)
(* time, is served by one sender thread and stays connected; the threads   *)
(* that run GetActions, the episodes and the faults are arbitrary.  A      *)
(* getter that the client has given up took a fault that is no failed      *)
(* inference: fewer failures than faults, as ForgottenEnds asks.           *)
(***************************************************************************)
OneClient(s) == Senders = {s} /\ MaxSessions = 1

\* The sender is at work on the call the client waits for, and on no other.
OneSend(s) ==
  /\ sPc[s] # "stuck"
  /\ sPc[s] # "idle" <=> upBy = s
  /\ sPc[s] # "idle" => sObs[s] = up

Connected ==
  serving = TRUE /\ rPc = "idle" /\ \A g \in Getters : gPc[g] # "orphan"

AtWork == {"snap", "prepare", "infer", "finish"}

CallShape ==
  /\ down.st = "call" => down = [Quiet EXCEPT !.st = "call"]
  /\ ~queue.full => queue = NoObs
  /\ \A g \in Getters : gPc[g] \in AtWork => gObs[g].full
  /\ \A g \in Getters : gPc[g] # "idle" /\ downBy # g => failures < faults

MapInv(s) == OneSend(s) /\ Connected /\ CallShape

LEMMA MapInit ==
  ASSUME NEW s, OneClient(s), Init
  PROVE  MapInv(s)
<1>1. OneSend(s)
      BY ServerAssumption
         DEF ServerAssumption, OneClient, Init, OneSend
<1>2. Connected /\ CallShape
      BY DEF Init, Connected, CallShape, Quiet, AtWork
<1>3. QED
      BY <1>1, <1>2 DEF MapInv

LEMMA MapSend ==
  ASSUME NEW s, OneClient(s), TypeInv, MapInv(s), SendStep(s)
  PROVE  MapInv(s)'
<1> USE ServerAssumption DEF ServerAssumption, OneClient, MapInv
<1>0. /\ s \in Senders /\ sPc \in [Senders -> SenderPc]
      /\ sObs \in [Senders -> Sent] /\ upBy \in {s, Nobody} /\ s # Nobody
      BY DEF TypeInv, SendOK
<1>1. OneSend(s)'
  <2> USE <1>0 DEF OneSend, EndSend, SenderAt
  <2>1. CASE BeginSend(s)
        BY <2>1 DEF BeginSend
  <2>2. CASE DropWhileReset(s)
        BY <2>2 DEF DropWhileReset, Connected
  <2>3. CASE ClearPredicted(s) \/ Accept(s) \/ TestFull(s) \/ Evict(s)
        BY <2>3 DEF ClearPredicted, Accept, TestFull, Evict
  <2>4. CASE Reject(s) \/ EvictRaises(s)
        BY <2>4 DEF Reject, EvictRaises
  <2>5. CASE PutObs(s)
        BY <2>5 DEF PutObs
  <2>6. QED
        BY <2>1, <2>2, <2>3, <2>4, <2>5 DEF SendStep
<1>2. UNCHANGED <<down, downBy, gPc, gObs, serving, rPc, failures>>
      BY DEF SendStep, BeginSend, DropWhileReset, ClearPredicted, Accept,
         Reject, TestFull, Evict, EvictRaises, PutObs, getting, policy, connection
<1>3. ~queue'.full => queue' = NoObs
  <2>1. UNCHANGED queue \/ queue' = NoObs \/ queue'.full
        BY DEF SendStep, BeginSend, DropWhileReset, ClearPredicted, Accept,
           Reject, TestFull, Evict, EvictRaises, PutObs
  <2>2. QED
        BY <2>1 DEF CallShape
<1>4. \A g \in Getters : gPc'[g] # "idle" /\ downBy' # g => failures' < faults'
  <2>1. faults' >= faults /\ faults' \in Nat /\ faults \in Nat /\ failures \in Nat
        BY FaultsType DEF Next, TypeInv, FaultsOK
  <2>2. QED
        BY <1>2, <2>1 DEF CallShape
<1>5. QED
      BY <1>1, <1>2, <1>3, <1>4 DEF Connected, CallShape

LEMMA MapGet ==
  ASSUME NEW s, OneClient(s), TypeInv, MapInv(s), NEW g \in Getters, GetStep(g)
  PROVE  MapInv(s)'
<1> USE ServerAssumption DEF ServerAssumption, OneClient, MapInv
<1>0. /\ gPc \in [Getters -> GetterPc] /\ gObs \in [Getters -> Kept]
      /\ queue \in Kept
      BY DEF TypeInv, GetOK, StoreOK
<1>1. UNCHANGED <<up, upBy, sPc, sObs, serving, rPc>>
      BY DEF GetStep, BeginGet, TakeObs, TimeOut, SnapGeneration, Prepare,
         InferFails, AddPredicted, Finish, sending, connection
<1>2. ~queue'.full => queue' = NoObs
  <2>1. UNCHANGED queue \/ queue' = NoObs
        BY DEF GetStep, BeginGet, TakeObs, TimeOut, SnapGeneration, Prepare,
           InferFails, AddPredicted, Finish
  <2>2. QED
        BY <2>1 DEF CallShape
<1>3. /\ \A h \in Getters : gPc'[h] # "orphan"
      /\ \A h \in Getters : gPc'[h] \in AtWork => gObs'[h].full
  <2> USE <1>0 DEF Connected, CallShape, AtWork, GetterAt, EndGet
  <2>1. CASE BeginGet(g)
        BY <2>1 DEF BeginGet
  <2>2. CASE TakeObs(g)
        BY <2>2 DEF TakeObs
  <2>3. CASE TimeOut(g) \/ InferFails(g) \/ Finish(g)
        BY <2>3 DEF TimeOut, InferFails, Finish
  <2>4. CASE SnapGeneration(g) \/ Prepare(g) \/ AddPredicted(g)
        BY <2>4 DEF SnapGeneration, Prepare, AddPredicted
  <2>5. QED
        BY <2>1, <2>2, <2>3, <2>4 DEF GetStep
<1>4. down'.st = "call" => down' = [Quiet EXCEPT !.st = "call"]
  <2>1. \/ UNCHANGED down
        \/ down'.st \in {"empty", "chunk"}
        BY DEF GetStep, BeginGet, TakeObs, TimeOut, SnapGeneration, Prepare,
           InferFails, AddPredicted, Finish, EndGet, EmptyReply, Quiet
  <2>2. QED
        BY <2>1 DEF CallShape
<1>5. \A h \in Getters : gPc'[h] # "idle" /\ downBy' # h => failures' < faults'
  <2>1. /\ faults \in Nat /\ failures \in 0 .. faults
        /\ downBy \in Getters \cup {Nobody}
        BY DEF TypeInv, FaultsOK, GetOK
  <2> USE <1>0, <2>1 DEF CallShape, GetterAt, EndGet, Fault
  <2>2. CASE BeginGet(g)
        BY <2>2 DEF BeginGet, policy
  <2>3. CASE TakeObs(g) \/ SnapGeneration(g) \/ Prepare(g) \/ AddPredicted(g)
    <3>1. /\ UNCHANGED <<downBy, failures, faults>>
          /\ \A h \in Getters : gPc'[h] # "idle" => gPc[h] # "idle"
          BY <2>3 DEF TakeObs, SnapGeneration, Prepare, AddPredicted, policy
    <3>2. QED
          BY <3>1
  <2>4. CASE TimeOut(g) \/ Finish(g)
    <3>1. /\ faults' = faults /\ failures' \in {0, failures}
          /\ \A h \in Getters : gPc'[h] # "idle" => h # g /\ gPc[h] # "idle"
          /\ \A h \in Getters : h # g /\ downBy' # h => downBy # h
          BY <2>4 DEF TimeOut, Finish, policy
    <3>2. QED
          BY <3>1
  <2>5. CASE InferFails(g)
    <3>1. /\ faults' = faults + 1 /\ failures' = failures + 1
          /\ \A h \in Getters : gPc'[h] # "idle" => h # g /\ gPc[h] # "idle"
          /\ \A h \in Getters : h # g /\ downBy' # h => downBy # h
          BY <2>5 DEF InferFails
    <3>2. QED
          BY <3>1
  <2>6. QED
        BY <2>2, <2>3, <2>4, <2>5 DEF GetStep
<1>6. QED
      BY <1>1, <1>2, <1>3, <1>4, <1>5 DEF OneSend, Connected, CallShape

LEMMA MapStep ==
  ASSUME NEW s, OneClient(s), TypeInv, MapInv(s), [Next]_vars
  PROVE  MapInv(s)'
<1> USE ServerAssumption DEF ServerAssumption, OneClient
<1>0. /\ faults' >= faults /\ faults' \in Nat /\ faults \in Nat
      /\ failures \in Nat
      BY FaultsType DEF TypeInv, FaultsOK
<1>1. CASE SendStep(s)
      BY <1>1, MapSend
<1>2. ASSUME NEW g \in Getters, GetStep(g)
      PROVE  MapInv(s)'
      BY <1>2, MapGet
<1>3. CASE CallLost
  <2>1. sPc[s] = "idle"
        BY <1>3 DEF CallLost, MapInv, OneSend
  <2>2. QED
        BY <1>0, <1>3, <2>1
           DEF CallLost, MapInv, OneSend, Connected, CallShape, getting, policy,
               connection
<1>4. CASE CallBreaks
  <2>1. failures < faults'
        BY <1>0, <1>4 DEF CallBreaks, Fault, TypeInv, FaultsOK
  <2>2. QED
        BY <1>4, <2>1
           DEF CallBreaks, MapInv, OneSend, Connected, CallShape, sending, policy,
               connection, Quiet
<1>5. ~ReadyStep
      BY DEF ReadyStep, ReadyQueue, ReadyTimesteps, ReadyCounters, ReadyClear,
         MapInv, Connected, TypeInv, StoreOK
<1>6. CASE ClientSends
  <2>1. sPc[s] = "idle"
        BY <1>6 DEF ClientSends, MapInv, OneSend, TypeInv, SendOK
  <2>2. QED
        BY <1>6, <2>1
           DEF ClientSends, MapInv, OneSend, Connected, CallShape, getting,
               policy, connection
<1>7. CASE ClientPolls
      BY <1>7
         DEF ClientPolls, MapInv, OneSend, Connected, CallShape, sending, policy,
             connection
<1>8. CASE UNCHANGED vars
      BY <1>8
         DEF vars, MapInv, OneSend, Connected, CallShape, sending, getting,
             policy, connection
<1>9. QED
      BY <1>1, <1>2, <1>3, <1>4, <1>5, <1>6, <1>7, <1>8
         DEF Next, ClientStep

(***************************************************************************)
(* Each step of a handler is a step of the service, or none.               *)
(***************************************************************************)
ServerMove ==
  \/ Promise!ServiceNext
  \/ Promise!ClientStep
  \/ UNCHANGED Promise!serviceVars

LEMMA FateIs ==
  ASSUME NEW s, OneClient(s)
  PROVE  /\ Fate = IF sPc[s] = "put" THEN "room"
                   ELSE IF sPc[s] = "evict" /\ ~queue.full THEN "doomed"
                   ELSE "open"
         /\ Fate' = IF sPc'[s] = "put" THEN "room"
                    ELSE IF sPc'[s] = "evict" /\ ~queue'.full THEN "doomed"
                    ELSE "open"
<1>1. Senders = {s}
      BY DEF OneClient
<1>2. /\ (\E t \in Senders : sPc[t] = "put") <=> sPc[s] = "put"
      /\ (\E t \in Senders : sPc[t] = "evict" /\ ~queue.full)
           <=> sPc[s] = "evict" /\ ~queue.full
      /\ (\E t \in Senders : sPc'[t] = "put") <=> sPc'[s] = "put"
      /\ (\E t \in Senders : sPc'[t] = "evict" /\ ~queue'.full)
           <=> sPc'[s] = "evict" /\ ~queue'.full
      BY <1>1
<1>3. QED
      BY <1>2 DEF Fate

\* A fault of the server, and a steal, are faults of the service.
LEMMA FaultIs ==
  ASSUME TypeInv, Fault, steals' = steals
  PROVE  Promise!Fault
<1>1. Cardinality(Strays) \in Nat
      BY FS_CardinalityType DEF TypeInv, StealsOK
<1>2. faults \in Nat /\ steals \in Nat /\ steals <= faults /\ MaxFaults \in Nat
      BY <1>1, ServerAssumption
         DEF ServerAssumption, TypeInv, StealsOK, FaultsOK
<1>3. QED
      BY <1>2 DEF Fault, Promise!Fault

LEMMA SendMaps ==
  ASSUME NEW s, OneClient(s), TypeInv, MapInv(s), SendStep(s)
  PROVE  ServerMove
<1> USE ServerAssumption DEF ServerAssumption
<1>0. /\ s \in Senders /\ sPc \in [Senders -> SenderPc]
      /\ upBy \in {s, Nobody} /\ s # Nobody /\ up \in Sent
      /\ sPc[s] # "idle" => upBy = s /\ sObs[s] = up /\ up.st = "req"
      BY DEF OneClient, TypeInv, SendOK, MapInv, OneSend
<1>1. /\ UNCHANGED getting /\ Busy' = Busy
      /\ UNCHANGED down /\ UNCHANGED steals /\ UNCHANGED Promise!counts
  <2>1. UNCHANGED <<getting, policy>>
        BY DEF SendStep, BeginSend, DropWhileReset, ClearPredicted, Accept,
           Reject, TestFull, Evict, EvictRaises, PutObs
  <2>2. QED
        BY <2>1 DEF getting, policy, Busy, Live, Promise!counts
<1>2. ASSUME UNCHANGED <<up, queue, faults>>, Fate' = Fate
      PROVE  ServerMove
      BY <1>1, <1>2 DEF ServerMove, Promise!serviceVars
<1>3. ASSUME sPc[s] # "idle", EndSend(s, "ok")
      PROVE  up' = [up EXCEPT !.st = "ok"] /\ sPc'[s] = "idle"
      BY <1>0, <1>3 DEF EndSend, SenderAt, MapInv, OneSend
<1>4. CASE BeginSend(s)
  <2>1. upBy = Nobody /\ sPc'[s] = "clear"
        BY <1>0, <1>4 DEF BeginSend, SenderAt, MapInv, OneSend
  <2>2. QED
        BY <1>2, <1>4, <2>1, FateIs DEF BeginSend
<1>5. ~DropWhileReset(s)
      BY DEF DropWhileReset, MapInv, Connected
<1>6. CASE ClearPredicted(s) \/ Accept(s)
  <2>1. sPc[s] \in {"clear", "decide"} /\ sPc'[s] \in {"decide", "room"}
        BY <1>0, <1>6 DEF ClearPredicted, Accept, SenderAt
  <2>2. QED
        BY <1>2, <1>6, <2>1, FateIs DEF ClearPredicted, Accept
<1>7. CASE Reject(s)
  <2>1. sPc[s] = "decide" /\ ~up.must /\ up.st = "req" /\ EndSend(s, "ok")
        BY <1>0, <1>7 DEF Reject
  <2>2. Fate = "open" /\ Fate' = "open"
        BY <1>3, <2>1, FateIs
  <2>3. Promise!FilterObs
        BY <1>1, <1>3, <1>7, <2>1, <2>2 DEF Reject, Promise!FilterObs
  <2>4. QED
        BY <2>3 DEF ServerMove, Promise!ServiceNext, Promise!TakeObs
<1>8. CASE TestFull(s)
  <2>1. sPc[s] = "room" /\ UNCHANGED <<up, queue, faults>>
        BY <1>8 DEF TestFull
  <2>2. CASE queue.full
    <3>1. sPc'[s] = "evict"
          BY <1>0, <1>8, <2>2 DEF TestFull, SenderAt
    <3>2. QED
          BY <1>2, <2>1, <2>2, <3>1, FateIs
  <2>3. CASE ~queue.full
    <3>1. sPc'[s] = "put"
          BY <1>0, <1>8, <2>3 DEF TestFull, SenderAt
    <3>2. Fate = "open" /\ Fate' = "room" /\ queue' = Promise!Empty
          BY <2>1, <2>3, <3>1, FateIs
             DEF MapInv, CallShape, NoObs, Promise!Empty
    <3>3. Promise!MakeRoom
          BY <1>0, <1>1, <2>1, <3>2 DEF Promise!MakeRoom
    <3>4. QED
          BY <3>3 DEF ServerMove, Promise!ServiceNext, Promise!TakeObs
  <2>4. QED
        BY <2>2, <2>3
<1>9. CASE Evict(s)
  <2>1. /\ sPc[s] = "evict" /\ queue.full /\ queue' = NoObs
        /\ sPc'[s] = "put" /\ UNCHANGED <<up, faults>>
        BY <1>0, <1>9 DEF Evict, SenderAt
  <2>2. Fate = "open" /\ Fate' = "room" /\ queue' = Promise!Empty
        BY <2>1, FateIs DEF NoObs, Promise!Empty
  <2>3. Promise!MakeRoom
        BY <1>0, <1>1, <2>1, <2>2 DEF Promise!MakeRoom
  <2>4. QED
        BY <2>3 DEF ServerMove, Promise!ServiceNext, Promise!TakeObs
<1>10. CASE EvictRaises(s)
  <2>1. /\ sPc[s] = "evict" /\ ~queue.full /\ EndSend(s, "lost")
        /\ UNCHANGED <<queue, faults>>
        BY <1>10 DEF EvictRaises
  <2>2. up' = [up EXCEPT !.st = "lost"] /\ sPc'[s] = "idle"
        BY <1>0, <2>1 DEF EndSend, SenderAt
  <2>3. Fate = "doomed" /\ Fate' = "open"
        BY <2>1, <2>2, FateIs
  <2>4. Promise!FailDoomed
        BY <1>0, <1>1, <2>1, <2>2, <2>3 DEF Promise!FailDoomed
  <2>5. QED
        BY <2>4 DEF ServerMove, Promise!ServiceNext, Promise!TakeObs
<1>11. CASE PutObs(s)
  <2>1. sPc[s] = "put" /\ up.st = "req" /\ Fate = "room"
        BY <1>0, <1>11, FateIs DEF PutObs
  <2>2. queue' = Promise!Full(up)
        BY <1>0, <1>11, <2>1 DEF PutObs, Promise!Full
  <2>3. CASE EndSend(s, "ok") /\ UNCHANGED faults
    <3>1. Fate' = "open"
          BY <1>3, <2>1, <2>3, FateIs
    <3>2. Promise!AcceptObs
          BY <1>1, <1>3, <2>1, <2>2, <2>3, <3>1 DEF Promise!AcceptObs
    <3>3. QED
          BY <3>2 DEF ServerMove, Promise!ServiceNext, Promise!TakeObs
  <2>4. CASE EndSend(s, "lost") /\ Fault
    <3>1. up' = [up EXCEPT !.st = "lost"] /\ sPc'[s] = "idle"
          BY <1>0, <2>1, <2>4 DEF EndSend, SenderAt
    <3>2. Fate' = "open" /\ Promise!Fault
          BY <1>1, <2>4, <3>1, FateIs, FaultIs
    <3>3. Promise!LoseObs
          BY <1>1, <2>1, <2>2, <3>1, <3>2 DEF Promise!LoseObs
    <3>4. QED
          BY <3>3 DEF ServerMove, Promise!ServiceNext
  <2>5. CASE Fault /\ SenderAt(s, "clear") /\ UNCHANGED up
    <3>1. Fate' = "open" /\ Promise!Fault
          BY <1>0, <1>1, <2>5, FateIs, FaultIs DEF SenderAt
    <3>2. Promise!RetryObs
          BY <1>1, <2>1, <2>2, <2>5, <3>1 DEF Promise!RetryObs
    <3>3. QED
          BY <3>2 DEF ServerMove, Promise!ServiceNext
  <2>6. QED
        BY <1>11, <2>3, <2>4, <2>5 DEF PutObs
<1>12. QED
       BY <1>4, <1>5, <1>6, <1>7, <1>8, <1>9, <1>10, <1>11 DEF SendStep

LEMMA GetMaps ==
  ASSUME NEW s, OneClient(s), TypeInv, MapInv(s), NEW g \in Getters, GetStep(g)
  PROVE  ServerMove
<1> USE ServerAssumption DEF ServerAssumption
<1>0. /\ gPc \in [Getters -> GetterPc] /\ gObs \in [Getters -> Kept]
      /\ queue \in Kept /\ g # Nobody /\ downBy \in Getters \cup {Nobody}
      /\ downBy # Nobody => down.st = "call" /\ gPc[downBy] # "idle"
      /\ faults \in Nat /\ steals \in Nat /\ failures \in 0 .. faults
      BY DEF TypeInv, GetOK, StoreOK, FaultsOK, StealsOK
<1>1. UNCHANGED <<up, sPc>>
      BY DEF GetStep, BeginGet, TakeObs, TimeOut, SnapGeneration, Prepare,
         InferFails, AddPredicted, Finish, sending
<1>2. UNCHANGED queue => Fate' = Fate
      BY <1>1, FateIs
<1>3. ASSUME UNCHANGED <<down, queue, faults, steals, failures, broken>>, Busy' = Busy
      PROVE  ServerMove
      BY <1>1, <1>2, <1>3 DEF ServerMove, Promise!serviceVars, Promise!counts
<1>4. down.st = "call" =>
        /\ [down EXCEPT !.st = "empty"] = EmptyReply
        /\ down.st = "call"
      BY DEF MapInv, CallShape, EmptyReply, Quiet
<1>5. \/ Busy = NoObs
      \/ Busy.full /\ downBy # Nobody /\ Busy = gObs[downBy]
      BY <1>0 DEF Busy, Live, MapInv, CallShape, AtWork
<1>6. ~NoObs.full /\ NoObs = Promise!Empty
      BY DEF NoObs, Promise!Empty
<1>7. CASE BeginGet(g) /\ ~broken
  <2>1. /\ Busy' = NoObs /\ UNCHANGED <<down, queue, steals>>
        /\ UNCHANGED <<failures, broken>> /\ UNCHANGED Promise!counts
        /\ down.st = "call"
        BY <1>0, <1>7 DEF BeginGet, GetterAt, Busy, Live, policy, Promise!counts
  <2>2. CASE downBy = Nobody
    <3>1. Busy = NoObs /\ UNCHANGED faults
          BY <1>7, <2>2 DEF BeginGet, Busy, Live
    <3>2. QED
          BY <1>3, <2>1, <3>1
  <2>3. CASE downBy # Nobody
    <3>1. Promise!Fault
          BY <1>7, <2>1, <2>3, FaultIs DEF BeginGet
    <3>2. CASE Busy = NoObs
      <4>1. Promise!HiddenFault
            BY <1>1, <1>2, <2>1, <3>1, <3>2 DEF Promise!HiddenFault
      <4>2. QED
            BY <4>1 DEF ServerMove, Promise!ServiceNext
    <3>3. CASE Busy.full
      <4>1. Promise!RetryCall
            BY <1>1, <1>2, <1>6, <2>1, <3>1, <3>3 DEF Promise!RetryCall
      <4>2. QED
            BY <4>1 DEF ServerMove, Promise!ServiceNext
    <3>4. QED
          BY <1>5, <3>2, <3>3
  <2>4. QED
        BY <2>2, <2>3
<1>8. CASE BeginGet(g) /\ broken
  <2>1. /\ Busy' = NoObs /\ UNCHANGED <<queue, steals>>
        /\ down.st = "call" /\ down' = [down EXCEPT !.st = "empty"]
        BY <1>0, <1>4, <1>8 DEF BeginGet, Busy, Live
  <2>2. broken /\ UNCHANGED Promise!counts
        BY <1>8 DEF BeginGet, policy, Promise!counts
  <2>3. \/ ~Busy.full /\ UNCHANGED <<Busy, faults>>
        \/ Promise!Fault /\ Busy' = Promise!Empty
    <3>1. CASE downBy = Nobody
          BY <1>6, <1>8, <2>1, <3>1 DEF BeginGet, Busy, Live
    <3>2. CASE downBy # Nobody
          BY <1>6, <1>8, <2>1, <3>2, FaultIs DEF BeginGet
    <3>3. QED
          BY <3>1, <3>2
  <2>4. Promise!ReplyBroken
        BY <1>1, <1>2, <2>1, <2>2, <2>3 DEF Promise!ReplyBroken
  <2>5. QED
        BY <2>4 DEF ServerMove, Promise!ServiceNext
<1>9. CASE TakeObs(g)
  <2>1. /\ gPc[g] = "get" /\ queue.full /\ queue' = NoObs
        /\ gPc' = [gPc EXCEPT ![g] = "snap"]
        /\ gObs' = [gObs EXCEPT ![g] = queue]
        /\ UNCHANGED <<down, downBy, faults>> /\ UNCHANGED Promise!counts
        BY <1>9 DEF TakeObs, GetterAt, policy, Promise!counts
  <2>2. Promise!Overtaken
    <3>1. \/ Fate' = Fate
          \/ sPc[s] = "evict" /\ Fate = "open" /\ Fate' = "doomed"
          BY <1>1, <2>1, FateIs
    <3>2. sPc[s] = "evict" => up.st = "req"
          BY DEF MapInv, OneSend, OneClient, TypeInv, SendOK
    <3>3. QED
          BY <3>1, <3>2 DEF Promise!Overtaken
  <2>3. CASE downBy = g
    <3>1. Busy = NoObs /\ Busy' = queue /\ steals' = steals
          BY <1>0, <1>9, <2>1, <2>3 DEF TakeObs, Busy, Live
    <3>2. Promise!Dequeue
          BY <1>0, <1>1, <1>6, <2>1, <2>2, <2>3, <3>1 DEF Promise!Dequeue
    <3>3. QED
          BY <3>2 DEF ServerMove, Promise!ServiceNext, Promise!AnswerCall
  <2>4. CASE downBy # g
    <3>1. Busy' = Busy
          BY <1>0, <2>1, <2>4 DEF Busy, Live
    <3>2. Promise!Fault
      <4>1. /\ g \in Strays /\ steals' = steals + 1
            /\ Strays' \subseteq Strays \ {g}
            BY <1>0, <1>9, <2>1, <2>4 DEF TakeObs, Strays
      <4>2. steals < faults
        <5>1. FaultsOK'
              BY FaultsType DEF Next
        <5>2. QED
              BY <2>1, <4>1, <5>1, StrayTakes
      <4>3. QED
            BY <1>0, <2>1, <4>1, <4>2 DEF TypeInv, FaultsOK, Promise!Fault
    <3>3. Promise!Forgotten
          BY <1>0, <2>1, <2>4 DEF MapInv, CallShape, Promise!Forgotten
    <3>4. Promise!StealObs
          BY <1>1, <1>6, <2>1, <2>2, <3>1, <3>2, <3>3 DEF Promise!StealObs
    <3>5. QED
          BY <3>4 DEF ServerMove, Promise!ServiceNext
  <2>5. QED
        BY <2>3, <2>4
<1>10. ASSUME NEW reply, EndGet(g, reply), downBy # g
       PROVE  UNCHANGED <<down, steals>> /\ Busy' = Busy
       BY <1>0, <1>10 DEF EndGet, GetterAt, Busy, Live
<1>11. ASSUME NEW reply, EndGet(g, reply), downBy = g
       PROVE  /\ down' = reply /\ steals' = steals /\ Busy' = NoObs
              /\ down.st = "call"
       BY <1>0, <1>11 DEF EndGet, Busy, Live
<1>12. CASE TimeOut(g)
  <2>1. gPc[g] = "get" /\ ~queue.full /\ EndGet(g, EmptyReply)
        BY <1>12 DEF TimeOut, MapInv, Connected
  <2>2. UNCHANGED <<queue, faults, failures, broken>> /\ UNCHANGED Promise!counts
        BY <1>12 DEF TimeOut, policy, Promise!counts
  <2>3. CASE downBy # g
        BY <1>3, <1>10, <2>1, <2>2, <2>3
  <2>4. CASE downBy = g
    <3>1. Busy = NoObs
          BY <2>1, <2>4 DEF Busy, Live
    <3>2. Promise!ReplyEmpty
          BY <1>1, <1>2, <1>4, <1>6, <1>11, <2>1, <2>2, <2>4, <3>1
             DEF Promise!ReplyEmpty
    <3>3. QED
          BY <3>2 DEF ServerMove, Promise!ServiceNext, Promise!AnswerCall
  <2>5. QED
        BY <2>3, <2>4
<1>13. CASE SnapGeneration(g) \/ Prepare(g) \/ AddPredicted(g)
  <2>1. /\ UNCHANGED <<down, downBy, gObs, queue, faults, steals, failures, broken>>
        /\ \E pc \in AtWork : gPc' = [gPc EXCEPT ![g] = pc]
        /\ gPc[g] \in AtWork
        BY <1>13 DEF SnapGeneration, Prepare, AddPredicted, GetterAt, AtWork, policy
  <2>2. Live' = Live
        BY <1>0, <2>1 DEF Live, AtWork
  <2>3. QED
        BY <1>3, <2>1, <2>2 DEF Busy
<1>14. CASE InferFails(g)
  <2>1. /\ gPc[g] \in {"prepare", "infer"} /\ EndGet(g, EmptyReply)
        /\ UNCHANGED queue
        BY <1>14 DEF InferFails
  <2>2. steals' = steals /\ Promise!Fault /\ Promise!CountFailure
        BY <1>14, <2>1, FaultIs DEF InferFails, EndGet, Promise!CountFailure
  <2>3. CASE downBy # g
    <3>1. Promise!Forgotten
          BY <1>0, <2>1, <2>3 DEF MapInv, CallShape, Promise!Forgotten
    <3>2. Promise!HiddenFault
          BY <1>1, <1>2, <1>10, <2>1, <2>2, <2>3, <3>1 DEF Promise!HiddenFault
    <3>3. QED
          BY <3>2 DEF ServerMove, Promise!ServiceNext
  <2>4. CASE downBy = g
    <3>1. Busy.full
          BY <1>0, <2>1, <2>4
             DEF Busy, Live, MapInv, CallShape, AtWork
    <3>2. Promise!InferenceFails
          BY <1>1, <1>2, <1>4, <1>6, <1>11, <2>1, <2>2, <2>4, <3>1
             DEF Promise!InferenceFails
    <3>3. QED
          BY <3>2 DEF ServerMove, Promise!ServiceNext
  <2>5. QED
        BY <2>3, <2>4
<1>15. CASE Finish(g)
  <2>1. /\ gPc[g] = "finish" /\ UNCHANGED <<queue, faults, broken>> /\ failures' = 0
        /\ EndGet(g, [st |-> "chunk", ts |-> gObs[g].ts, ep |-> gObs[g].ep])
        BY <1>15 DEF Finish
  <2>2. CASE downBy # g
    <3>1. failures < faults + steals
          BY <1>0, <2>1, <2>2 DEF MapInv, CallShape
    <3>2. UNCHANGED <<down, steals>> /\ Busy' = Busy /\ UNCHANGED (faults + steals)
          BY <1>10, <2>1, <2>2
    <3>3. Promise!ForgottenEnds
          BY <1>1, <1>2, <2>1, <3>1, <3>2
             DEF Promise!ForgottenEnds, Promise!Forgotten
    <3>4. QED
          BY <3>3 DEF ServerMove, Promise!ServiceNext
  <2>3. CASE downBy = g
    <3>1. Busy.full /\ Busy = gObs[g]
          BY <1>0, <2>1, <2>3
             DEF Busy, Live, MapInv, CallShape, AtWork
    <3>2. Promise!ReplyChunk
          BY <1>1, <1>2, <1>6, <1>11, <2>1, <2>3, <3>1 DEF Promise!ReplyChunk
    <3>3. QED
          BY <3>2 DEF ServerMove, Promise!ServiceNext, Promise!AnswerCall
  <2>4. QED
        BY <2>2, <2>3
<1>16. QED
       BY <1>7, <1>8, <1>9, <1>12, <1>13, <1>14, <1>15 DEF GetStep

LEMMA StepMaps ==
  ASSUME NEW s, OneClient(s), TypeInv, MapInv(s), [Next]_vars
  PROVE  ServerMove
<1> USE ServerAssumption DEF ServerAssumption
<1>1. CASE SendStep(s)
      BY <1>1, SendMaps
<1>2. ASSUME NEW g \in Getters, GetStep(g)
      PROVE  ServerMove
      BY <1>2, GetMaps
<1>3. CASE CallLost
  <2>1. /\ up.st = "req" /\ Fault /\ up' = [up EXCEPT !.st = "lost"]
        /\ UNCHANGED <<queue, sPc, getting>>
        BY <1>3 DEF CallLost
  <2>2. sPc[s] = "idle"
        BY <1>3 DEF CallLost, MapInv, OneSend, OneClient
  <2>3. Fate = "open" /\ Fate' = "open" /\ Busy' = Busy
        BY <2>1, <2>2, FateIs DEF Busy, Live, getting
  <2>4. Promise!Fault /\ UNCHANGED down /\ UNCHANGED Promise!counts
        BY <1>3, <2>1, FaultIs DEF CallLost, getting, policy, Promise!counts
  <2>5. Promise!LoseObs
        BY <2>1, <2>3, <2>4 DEF Promise!LoseObs
  <2>6. QED
        BY <2>5 DEF ServerMove, Promise!ServiceNext
<1>4. CASE CallBreaks
  <2>1. /\ down.st = "call" /\ Fault /\ down' = [Quiet EXCEPT !.st = "error"]
        /\ downBy' = Nobody /\ UNCHANGED <<queue, up, sPc, steals>>
        BY <1>4 DEF CallBreaks, sending
  <2>2. Fate' = Fate /\ Busy' = Promise!Empty
        BY <2>1, FateIs DEF Busy, Live, NoObs, Promise!Empty
  <2>3. /\ Promise!Fault /\ down' = [down EXCEPT !.st = "error"]
        /\ UNCHANGED Promise!counts
        BY <1>4, <2>1, FaultIs
           DEF CallBreaks, MapInv, CallShape, Quiet, policy, Promise!counts
  <2>4. Promise!CallFails
        BY <2>1, <2>2, <2>3 DEF Promise!CallFails
  <2>5. QED
        BY <2>4 DEF ServerMove, Promise!ServiceNext
<1>5. ~ReadyStep
      BY DEF ReadyStep, ReadyQueue, ReadyTimesteps, ReadyCounters, ReadyClear,
         MapInv, Connected, TypeInv, StoreOK, OneClient
<1>6. CASE ClientSends
  <2>1. /\ up.st # "req" /\ UNCHANGED <<queue, sPc, getting, faults>>
        BY <1>6 DEF ClientSends
  <2>2. /\ Fate' = Fate /\ Busy' = Busy /\ UNCHANGED <<down, steals>>
        /\ UNCHANGED Promise!counts
        BY <1>6, <2>1, FateIs
           DEF ClientSends, Busy, Live, getting, policy, Promise!counts
  <2>3. Promise!ClientStep
        BY <2>1, <2>2 DEF Promise!ClientStep
  <2>4. QED
        BY <2>3 DEF ServerMove
<1>7. CASE ClientPolls
  <2>1. /\ down.st # "call"
        /\ UNCHANGED <<queue, up, sPc, downBy, gPc, gObs, steals, faults>>
        BY <1>7 DEF ClientPolls, sending
  <2>2. Fate' = Fate /\ Busy' = Busy /\ UNCHANGED Promise!counts
        BY <1>7, <2>1, FateIs DEF ClientPolls, Busy, Live, policy, Promise!counts
  <2>3. Promise!ClientStep
        BY <2>1, <2>2 DEF Promise!ClientStep
  <2>4. QED
        BY <2>3 DEF ServerMove
<1>8. CASE UNCHANGED vars
  <2>1. UNCHANGED <<queue, up, sPc, down, downBy, gPc, gObs, steals, faults>>
        BY <1>8 DEF vars, sending, getting
  <2>2. Fate' = Fate /\ Busy' = Busy /\ UNCHANGED Promise!counts
        BY <1>8, <2>1, FateIs DEF vars, Busy, Live, policy, Promise!counts
  <2>3. QED
        BY <2>1, <2>2 DEF ServerMove, Promise!serviceVars
<1>9. QED
      BY <1>1, <1>2, <1>3, <1>4, <1>5, <1>6, <1>7, <1>8
         DEF Next, ClientStep, OneClient

\* What the handlers of SendObservations and GetActions show one client, with
\* any number of threads, episodes, failures and faults, is a behaviour of
\* PolicyService: at most one observation waits, a newer one takes its place,
\* none with must_go is filtered, and an answer is of the observation taken.
THEOREM ServerRefinesService ==
  ASSUME NEW s, OneClient(s)
  PROVE  Spec => RefinesService
<1>1. ASSUME Init
      PROVE  MapInv(s) /\ Promise!ServiceInit
  <2>1. /\ queue = NoObs /\ downBy = Nobody /\ faults = 0 /\ steals = 0
        /\ sPc[s] = "idle"
        BY <1>1 DEF Init, OneClient
  <2>2. Fate = "open" /\ Busy = NoObs /\ faults + steals = 0
        BY <2>1, FateIs DEF Busy, Live
  <2>3. failures = 0 /\ broken = FALSE
        BY <1>1, Zenon DEF Init
  <2>4. Promise!ServiceInit
        BY <2>1, <2>2, <2>3 DEF Promise!ServiceInit, NoObs, Promise!Empty
  <2>5. QED
        BY <1>1, <2>4, MapInit
<1>2. ASSUME TypeInv, MapInv(s), [Next]_vars
      PROVE  /\ MapInv(s)'
             /\ [Promise!ServiceNext \/ Promise!ClientStep]_(Promise!serviceVars)
      BY <1>2, MapStep, StepMaps DEF ServerMove
<1>3. QED
      BY <1>1, <1>2, TypeInductive, PTL
         DEF Spec, RefinesService, Promise!ServiceSpec
=============================================================================
