------------------------- MODULE SmartClientProofs -------------------------
(***************************************************************************)
(* Theorems about SmartClient, for every value of its constants.           *)
(***************************************************************************)
EXTENDS SmartClient, AsyncClientProofs, SequenceTheorems

-----------------------------------------------------------------------------
(***************************************************************************)
(* What is due.  The steps of a forced re-inference are taken one by one,  *)
(* so a fact about them must hold of what is left of each list of steps.   *)
(***************************************************************************)
HasStep(s, step) == \E k \in 1 .. Len(s) : s[k] = step

\* The generation is bumped once, and the queue is drained right after it; a
\* trajectory starts last.
Shape(s) ==
  /\ s \in Seq(Steps)
  /\ \A k \in 1 .. Len(s) :
       /\ s[k] = "bump" => k < Len(s) /\ s[k + 1] = "drain"
       /\ s[k] = "start" => k = Len(s)
  /\ \A j, k \in 1 .. Len(s) : s[j] = "bump" /\ s[k] = "bump" => j = k

LEMMA Concat ==
  ASSUME NEW S, NEW s \in Seq(S), NEW t \in Seq(S), NEW r \in Seq(S),
         Len(r) = Len(s) + Len(t),
         \A i \in 1 .. Len(s) : r[i] = s[i],
         \A i \in 1 .. Len(t) : r[Len(s) + i] = t[i]
  PROVE  s \o t = r
<1>1. /\ s \o t \in Seq(S) /\ Len(s \o t) = Len(s) + Len(t)
      /\ \A i \in 1 .. Len(s) + Len(t) :
           (s \o t)[i] = IF i <= Len(s) THEN s[i] ELSE t[i - Len(s)]
      BY ConcatProperties
<1>2. Len(s) \in Nat /\ Len(t) \in Nat
      BY LenProperties
<1>3. ASSUME NEW i \in 1 .. Len(s \o t)
      PROVE  (s \o t)[i] = r[i]
  <2>1. CASE i <= Len(s)
        BY <1>1, <1>2, <2>1
  <2>2. CASE ~(i <= Len(s))
    <3>1. i - Len(s) \in 1 .. Len(t) /\ Len(s) + (i - Len(s)) = i
          BY <1>1, <1>2, <2>2
    <3>2. QED
          BY <1>1, <1>2, <2>2, <3>1
  <2>3. QED
        BY <2>1, <2>2
<1>4. QED
      BY <1>1, <1>3, SeqEqual

LEMMA Concat3 ==
  ASSUME NEW a, NEW b, NEW c, NEW d
  PROVE  <<a, b, c>> \o <<d>> = <<a, b, c, d>>
<1> DEFINE S == {a, b, c, d}
           s == <<a, b, c>>
           t == <<d>>
           r == <<a, b, c, d>>
<1>1. s \in Seq(S) /\ t \in Seq(S) /\ r \in Seq(S)
      OBVIOUS
<1>2. Len(r) = Len(s) + Len(t)
      OBVIOUS
<1>3. \A i \in 1 .. Len(s) : r[i] = s[i]
      OBVIOUS
<1>4. \A i \in 1 .. Len(t) : r[Len(s) + i] = t[i]
      OBVIOUS
<1> HIDE DEF S, s, t, r
<1>5. s \o t = r
      BY <1>1, <1>2, <1>3, <1>4, Concat, Zenon
<1>6. QED
      BY <1>5, Zenon DEF s, t, r

LEMMA Concat4 ==
  ASSUME NEW a, NEW b, NEW c, NEW d, NEW e
  PROVE  /\ <<a, b, c, d>> \o <<e>> = <<a, b, c, d, e>>
         /\ <<a, b, c, d>> \o <<>> = <<a, b, c, d>>
<1> DEFINE S == {a, b, c, d, e}
           s == <<a, b, c, d>>
           t == <<e>>
           r == <<a, b, c, d, e>>
<1>1. s \in Seq(S) /\ t \in Seq(S) /\ r \in Seq(S)
      OBVIOUS
<1>2. Len(r) = Len(s) + Len(t)
      OBVIOUS
<1>3. \A i \in 1 .. Len(s) : r[i] = s[i]
      OBVIOUS
<1>4. \A i \in 1 .. Len(t) : r[Len(s) + i] = t[i]
      OBVIOUS
<1> HIDE DEF S, s, t, r
<1>5. s \o t = r
      BY <1>1, <1>2, <1>3, <1>4, Concat, Zenon
<1>6. s \o <<>> = s
      BY <1>1, ConcatEmptySeq
<1>7. QED
      BY <1>5, <1>6, Zenon DEF s, t, r

LEMMA ForceSteps ==
  /\ Empty \o <<"start">> = <<"bump", "drain", "forget", "start">>
  /\ ForceEmpty = <<"bump", "drain", "forget", "arm">>
  /\ ForceEmpty \o <<"look">> = <<"bump", "drain", "forget", "arm", "look">>
<1>1. Empty \o <<"start">> = <<"bump", "drain", "forget", "start">>
      BY Concat3, Zenon DEF Empty
<1>2. ForceEmpty = <<"bump", "drain", "forget", "arm">>
      BY Concat3, Zenon DEF Empty, ForceEmpty
<1>3. ForceEmpty \o <<"look">> = <<"bump", "drain", "forget", "arm", "look">>
      BY <1>2, Concat4, Zenon
<1>4. QED
      BY <1>1, <1>2, <1>3

LEMMA AfterTrajectorySteps ==
  ASSUME NEW k \in Kinds
  PROVE  AfterTrajectory(k) \in
           {<<"sentinel", "join", "bump", "drain">>,
            <<"sentinel", "join", "bump", "drain", "arm">>,
            <<"bump", "drain", "sentinel", "join">>,
            <<"bump", "drain", "sentinel", "join", "arm">>}
<1>1. CASE Warmup[k] = 0
      BY <1>1, Concat4 DEF AfterTrajectory
<1>2. CASE Warmup[k] # 0
      BY <1>2, Concat4 DEF AfterTrajectory
<1>3. QED
      BY <1>1, <1>2

LEMMA StepsAre ==
  Steps = {"start", "sentinel", "join", "look", "bump", "drain", "forget", "arm"}
<1>1. ToSet(<<"bump", "drain", "forget", "arm">>)
        = {"bump", "drain", "forget", "arm"}
      BY DEF ToSet
<1>2. QED
      BY <1>1, ForceSteps DEF Steps

LEMMA ShapeOfPlans ==
  /\ Shape(<<>>)
  /\ Shape(<<"bump", "drain", "forget", "start">>)
  /\ Shape(<<"bump", "drain", "forget", "arm">>)
  /\ Shape(<<"bump", "drain", "forget", "arm", "look">>)
  /\ Shape(<<"sentinel", "join", "bump", "drain">>)
  /\ Shape(<<"sentinel", "join", "bump", "drain", "arm">>)
  /\ Shape(<<"bump", "drain", "sentinel", "join">>)
  /\ Shape(<<"bump", "drain", "sentinel", "join", "arm">>)
  /\ Shape(<<"bump", "drain", "arm">>)
BY StepsAre DEF Shape

LEMMA TailSteps ==
  ASSUME NEW s, Shape(s), s # <<>>
  PROVE  /\ Head(s) = s[1] /\ 1 \in 1 .. Len(s)
         /\ Len(Tail(s)) = Len(s) - 1
         /\ \A k \in 1 .. (Len(s) - 1) : Tail(s)[k] = s[k + 1]
         /\ Tail(s) \in Seq(Steps)
BY DEF Shape

LEMMA ShapeOfTail ==
  ASSUME NEW s, Shape(s), s # <<>>
  PROVE  Shape(Tail(s))
BY TailSteps DEF Shape

LEMMA HasTail ==
  ASSUME NEW s, Shape(s), s # <<>>, NEW step
  PROVE  /\ HasStep(Tail(s), step) => HasStep(s, step)
         /\ HasStep(s, step) => Head(s) = step \/ HasStep(Tail(s), step)
         /\ Head(s) = step => HasStep(s, step)
         /\ Head(s) = "bump" => ~HasStep(Tail(s), "bump")
         /\ Head(s) = "bump" => Tail(s) # <<>> /\ Head(Tail(s)) = "drain"
         /\ Head(s) = "start" => Tail(s) = <<>>
<1> USE TailSteps, ShapeOfTail DEF Shape, HasStep
<1>1. HasStep(Tail(s), step) => HasStep(s, step)
      OBVIOUS
<1>2. ASSUME HasStep(s, step), Head(s) # step
      PROVE  HasStep(Tail(s), step)
  <2>1. PICK k \in 1 .. Len(s) : s[k] = step
        BY <1>2
  <2>2. k # 1
        BY <1>2, <2>1
  <2>3. Len(s) \in Nat
        BY LenProperties
  <2>4. k - 1 \in 1 .. Len(Tail(s)) /\ Tail(s)[k - 1] = step
        BY <2>1, <2>2, <2>3
  <2>5. QED
        BY <2>4
<1>3. Head(s) = "bump" => ~HasStep(Tail(s), "bump")
      OBVIOUS
<1>4. ASSUME Head(s) = "bump"
      PROVE  Tail(s) # <<>> /\ Head(Tail(s)) = "drain"
  <2>1. 1 < Len(s) /\ s[2] = "drain"
        BY <1>4
  <2>2. Len(Tail(s)) >= 1 /\ Tail(s)[1] = "drain"
        BY <2>1, LenProperties
  <2>3. Len(Tail(s)) # Len(<<>>)
        BY <2>2, EmptySeq
  <2>4. Tail(s) # <<>>
        BY <2>3, Zenon
  <2>5. QED
        BY <2>2, <2>4
<1>5. Head(s) = "start" => Tail(s) = <<>>
      OBVIOUS
<1>6. QED
      BY <1>1, <1>2, <1>3, <1>4, <1>5

-----------------------------------------------------------------------------
(***************************************************************************)
(* Types, and what the control loop knows of itself: what is due, where it *)
(* may be meanwhile, which sender is its own, and how many generations are *)
(* still to come.                                                          *)
(***************************************************************************)
Has(step) == HasStep(todo, step)

LoopInv ==
  /\ Shape(todo)
  /\ Has("start") => pcC = "loop" /\ mine = 0
  /\ mode = "trajectory" => todo = <<>> /\ pcC \in {"loop", "done"}
  /\ mode = "warmup" => left >= 1
  /\ mine # 0 => pcC \in {"loop", "done"} /\ (mode = "trajectory" \/ Has("join"))
  /\ pcC = "pop" => todo = <<>>

\* Retry leaves room for the three generations of a recovery.
RoomInv ==
  /\ Has("bump") => gen + 1 <= MaxEp
  /\ Has("start") => gen + 2 <= MaxEp
  /\ Has("start") /\ Has("bump") => gen + 3 <= MaxEp
  /\ mode = "trajectory" => gen + 2 <= MaxEp
  /\ mode = "warmup" => gen + 1 <= MaxEp
  /\ mode = "warmup" /\ Has("bump") => gen + 2 <= MaxEp

SmartTypeOK ==
  /\ mode \in {"policy", "trajectory", "warmup"} /\ kind \in Kinds
  /\ left \in Nat /\ frames \in 0 .. QueueMax /\ sentinel \in BOOLEAN
  /\ senders \in [1 .. MaxRetries -> Sender] /\ mine \in 0 .. MaxRetries
  /\ gaveUp \in BOOLEAN /\ late \in BOOLEAN

SmartInv ==
  /\ ClientTypeInv /\ Service!ServiceTypeOK /\ SmartTypeOK /\ LoopInv /\ RoomInv

LEMMA PlanHas ==
  /\ \A x : ~HasStep(<<>>, x)
  /\ ~HasStep(<<"bump", "drain", "forget", "arm">>, "start")
  /\ ~HasStep(<<"bump", "drain", "forget", "arm", "look">>, "start")
  /\ ~HasStep(<<"bump", "drain", "arm">>, "start")
  /\ \A k \in Kinds : ~HasStep(AfterTrajectory(k), "start")
                      /\ HasStep(AfterTrajectory(k), "join")
                      /\ Shape(AfterTrajectory(k))
<1>1. ASSUME NEW k \in Kinds
      PROVE  /\ ~HasStep(AfterTrajectory(k), "start")
             /\ HasStep(AfterTrajectory(k), "join")
             /\ Shape(AfterTrajectory(k))
  <2>1. ASSUME NEW s \in {<<"sentinel", "join", "bump", "drain">>,
                          <<"sentinel", "join", "bump", "drain", "arm">>,
                          <<"bump", "drain", "sentinel", "join">>,
                          <<"bump", "drain", "sentinel", "join", "arm">>}
        PROVE  ~HasStep(s, "start") /\ HasStep(s, "join") /\ Shape(s)
    <3>1. Shape(s)
          BY <2>1, ShapeOfPlans
    <3>2. ~HasStep(s, "start")
          BY <2>1 DEF HasStep
    <3>3. HasStep(s, "join")
      <4>1. 2 \in 1 .. Len(s) /\ 4 \in 1 .. Len(s)
        <5>1. Len(s) \in {4, 5}
          <6>1. Len(<<"sentinel", "join", "bump", "drain">>) = 4
                /\ Len(<<"bump", "drain", "sentinel", "join">>) = 4
                OBVIOUS
          <6>2. Len(<<"sentinel", "join", "bump", "drain", "arm">>) = 5
                /\ Len(<<"bump", "drain", "sentinel", "join", "arm">>) = 5
                OBVIOUS
          <6>3. QED
                BY <2>1, <6>1, <6>2, Zenon
        <5>2. 2 \in 1 .. 4 /\ 4 \in 1 .. 4 /\ 2 \in 1 .. 5 /\ 4 \in 1 .. 5
              OBVIOUS
        <5>3. QED
              BY <5>1, <5>2, Zenon
      <4>2. s[2] = "join" \/ s[4] = "join"
            BY <2>1
      <4>3. QED
            BY <4>1, <4>2 DEF HasStep
    <3>4. QED
          BY <3>1, <3>2, <3>3
  <2>2. QED
        BY <2>1, AfterTrajectorySteps
<1>2. QED
      BY <1>1 DEF HasStep

LEMMA DoStep ==
  ASSUME SmartInv, NEW step, Do(step)
  PROVE  /\ pcC \in {"loop", "ready"} /\ mode # "trajectory"
         /\ Shape(todo') /\ todo' = Tail(todo)
         /\ Has(step)
         /\ \A x : HasStep(todo', x) => Has(x)
         /\ \A x : Has(x) => x = step \/ HasStep(todo', x)
         /\ step = "bump" => ~HasStep(todo', "bump")
         /\ step = "start" => todo' = <<>>
<1>1. todo # <<>> /\ Head(todo) = step /\ todo' = Tail(todo)
      /\ pcC \in {"loop", "ready"}
      BY DEF Do
<1>2. Shape(todo)
      BY DEF SmartInv, LoopInv
<1>3. mode # "trajectory"
      BY <1>1 DEF SmartInv, LoopInv
<1>4. QED
      BY <1>1, <1>2, <1>3, ShapeOfTail, HasTail DEF Has

LEMMA SmartInit == Init => SmartInv
<1> SUFFICES ASSUME Init
             PROVE  SmartInv
    OBVIOUS
<1>1. ClientTypeInv
      BY ClientTypeInit DEF Init
<1>2. Service!ServiceTypeOK
  <2>1. held \in Service!Slot /\ busy \in Service!Slot
        BY ClientAssumption
           DEF Init, Service!ServiceInit, Service!Slot, Service!Empty, Generation,
               ClientAssumption
  <2>2. failures \in 0 .. faults /\ faults \in 0 .. MaxFaults
        BY SmartAssumption DEF Init, Service!ServiceInit, SmartAssumption
  <2>3. broken \in BOOLEAN /\ fate \in {"open", "room", "doomed"}
        BY Zenon DEF Init, Service!ServiceInit
  <2>4. QED
        BY <2>1, <2>2, <2>3 DEF Service!ServiceTypeOK
<1>3. SmartTypeOK
  <2>1. senders \in [1 .. MaxRetries -> Sender]
        BY Zenon DEF Init, Sender
  <2>2. /\ mode = "policy" /\ kind = "recovery" /\ left = 0 /\ mine = 0
        /\ frames = 0 /\ sentinel = FALSE /\ gaveUp = FALSE /\ late = FALSE
        BY Zenon DEF Init
  <2>3. 0 \in Nat /\ 0 \in 0 .. MaxRetries /\ 0 \in 0 .. QueueMax
        BY SmartAssumption DEF SmartAssumption
  <2>4. QED
        BY <2>1, <2>2, <2>3, Zenon DEF SmartTypeOK, Kinds
<1>4. LoopInv
      BY ShapeOfPlans, PlanHas DEF Init, LoopInv, Has
<1>5. RoomInv
      BY PlanHas DEF Init, RoomInv, Has
<1>6. QED
      BY <1>1, <1>2, <1>3, <1>4, <1>5 DEF SmartInv

\* What the parent's steps leave alone.
LEMMA PolicyFrame ==
  ASSUME SmartInv, PolicyStep, UNCHANGED <<serverVars, smartVars>>
  PROVE  SmartInv'
<1>1. ClientTypeInv'
  <2>1. CASE LookForActions
        BY <2>1 DEF LookForActions, SmartInv, ClientTypeInv, ClientTypeOK, FlagsOK,
           ControlPc, shared, receiver
  <2>2. CASE ~LookForActions
    <3>1. ControlStep
          BY <2>2 DEF PolicyStep, ControlStep
    <3>2. QED
          BY <3>1, ClientTypeControl DEF SmartInv
  <2>3. QED
        BY <2>1, <2>2
<1>2. Service!ServiceTypeOK' /\ SmartTypeOK'
      BY DEF SmartInv, SmartTypeOK, Service!ServiceTypeOK, serverVars, smartVars
<1>3. gen' = gen
      BY DEF PolicyStep, LookForActions, PopAction, PopFromEmpty, CommitLatest,
         ReadyToSend, CollectLeftover, SampleQueue, SendObservation, ClearMustGo, shared
<1>4. RoomInv'
      BY <1>3 DEF SmartInv, RoomInv, Has, smartVars
<1>5. LoopInv'
  <2>1. /\ mode # "trajectory" /\ ~Has("start") /\ mine = 0
        /\ pcC' = "pop" => todo = <<>>
    <3>1. CASE LookForActions
      <4>1. todo = <<>> /\ mode = "policy"
            BY <3>1, Zenon DEF LookForActions, AtHead
      <4>2. ~Has("start") /\ ~Has("join")
            BY <4>1, PlanHas DEF Has
      <4>3. mine = 0
            BY <4>1, <4>2, Zenon DEF SmartInv, LoopInv
      <4>4. QED
            BY <4>1, <4>2, <4>3, Zenon
    <3>2. CASE ~LookForActions
      <4>1. pcC \notin {"loop", "done"} /\ pcC' # "pop"
            BY <3>2 DEF PolicyStep, PopAction, PopFromEmpty, CommitLatest,
               ReadyToSend, CollectLeftover, SampleQueue, SendObservation, ClearMustGo
      <4>2. QED
            BY <4>1 DEF SmartInv, LoopInv
    <3>3. QED
          BY <3>1, <3>2
  <2>2. QED
        BY <2>1 DEF SmartInv, LoopInv, Has, smartVars
<1>6. QED
      BY <1>1, <1>2, <1>4, <1>5 DEF SmartInv

LEMMA ClientFrame ==
  ASSUME SmartInv, UNCHANGED <<nextStart, pending, leftover, sawEmpty, high,
                               receiver, chunkSize, up, down>>,
         pcC' \in {pcC, "loop", "collect", "done"}, pcC' # "resetGen",
         running' \in BOOLEAN, mustGo' \in BOOLEAN, gen' \in Generation,
         queue' \in {queue, {}}, orig' \in {orig, {}}, latest' \in Nat \cup {-1},
         emptySteps' \in {emptySteps, 0}
  PROVE  ClientTypeInv'
<1>1. FlagsOK'
      BY Zenon DEF SmartInv, ClientTypeInv, ClientTypeOK, FlagsOK
<1>2. emptySteps' \in 0 .. (ForceAfter - 1)
      BY ClientAssumption DEF ClientAssumption, SmartInv, ClientTypeInv, ClientTypeOK
<1>3. pcC' \in ControlPc
      BY DEF SmartInv, ClientTypeInv, ClientTypeOK, ControlPc, Stopped
<1>4. QED
      BY <1>1, <1>2, <1>3
         DEF SmartInv, ClientTypeInv, ClientTypeOK, receiver

LEMMA Untouched ==
  ASSUME SmartInv, UNCHANGED serverVars
  PROVE  Service!ServiceTypeOK'
BY DEF SmartInv, Service!ServiceTypeOK, serverVars

LEMMA TypesHere ==
  SmartInv => /\ running \in BOOLEAN /\ mustGo \in BOOLEAN /\ gen \in Generation
              /\ latest \in Nat \cup {-1} /\ pcC \in ControlPc
              /\ gen \in Nat
BY ClientAssumption
   DEF SmartInv, ClientTypeInv, ClientTypeOK, FlagsOK, Generation, ClientAssumption

LEMMA DoFrame ==
  ASSUME SmartInv, NEW step, Do(step),
         UNCHANGED <<pcC, mode, kind, left>>, step # "start",
         mine' = IF step = "join" THEN 0 ELSE mine
  PROVE  LoopInv'
<1>1. Shape(todo') /\ (\A x : HasStep(todo', x) => Has(x))
      /\ (mine # 0 /\ step # "join" => HasStep(todo', "join"))
      BY DoStep DEF SmartInv, LoopInv
<1>2. pcC \in {"loop", "ready"} /\ mode # "trajectory"
      BY DoStep
<1>3. QED
      BY <1>1, <1>2 DEF SmartInv, LoopInv, Has

LEMMA DoRoom ==
  ASSUME SmartInv, NEW step, Do(step), UNCHANGED <<gen, mode>>
  PROVE  RoomInv'
<1>1. \A x : HasStep(todo', x) => Has(x)
      BY DoStep
<1>2. QED
      BY <1>1 DEF SmartInv, RoomInv, Has

LEMMA BumpStep == SmartInv /\ BumpGeneration => SmartInv'
<1> SUFFICES ASSUME SmartInv, BumpGeneration
             PROVE  SmartInv'
    OBVIOUS
<1>1. Do("bump") /\ gen' = gen + 1
      /\ UNCHANGED <<control, receiver, running, queue, chunkSize, latest, orig,
                     mustGo, up, down, serverVars, mode, kind, left, frames,
                     sentinel, senders, mine, gaveUp>>
      BY Zenon DEF BumpGeneration
<1>2. gen + 1 <= MaxEp /\ gen \in Nat
      BY <1>1, DoStep, TypesHere DEF SmartInv, RoomInv
<1>3. gen' \in Generation
      BY <1>1, <1>2, ClientAssumption DEF Generation, ClientAssumption
<1>4. ClientTypeInv'
  <2>1. pcC \in {"loop", "ready"}
        BY <1>1, DoStep
  <2>2. QED
        BY <1>1, <1>3, <2>1, TypesHere, ClientFrame DEF control
<1>5. SmartTypeOK'
  <2>1. late' \in BOOLEAN
        BY Zenon DEF BumpGeneration, SmartInv, SmartTypeOK
  <2>2. QED
        BY <1>1, <2>1, Zenon DEF SmartInv, SmartTypeOK
<1>6. LoopInv'
      BY <1>1, DoFrame DEF control
<1>7. RoomInv'
      BY <1>1, <1>2, DoStep DEF SmartInv, RoomInv, Has
<1>8. QED
      BY <1>1, <1>4, <1>5, <1>6, <1>7, Untouched DEF SmartInv

LEMMA DrainStep == SmartInv /\ DrainQueue => SmartInv'
<1> SUFFICES ASSUME SmartInv, DrainQueue
             PROVE  SmartInv'
    OBVIOUS
<1>1. /\ Do("drain") /\ queue' = {} /\ emptySteps' = 0
      /\ UNCHANGED <<nextStart, pcC, pending, leftover, sawEmpty, high, receiver,
                     running, gen, chunkSize, latest, orig, mustGo, up, down,
                     serverVars, mode, kind, left, frames, sentinel, senders,
                     mine, gaveUp, late>>
      BY Zenon DEF DrainQueue
<1>2. pcC \in {"loop", "ready"}
      BY <1>1, DoStep
<1>3. ClientTypeInv'
      BY <1>1, <1>2, TypesHere, ClientFrame
<1>4. SmartTypeOK'
      BY <1>1, Zenon DEF SmartInv, SmartTypeOK
<1>5. LoopInv' /\ RoomInv'
      BY <1>1, DoFrame, DoRoom
<1>6. QED
      BY <1>1, <1>3, <1>4, <1>5, Untouched DEF SmartInv

LEMMA ForgetStep == SmartInv /\ ForgetOriginals => SmartInv'
<1> SUFFICES ASSUME SmartInv, ForgetOriginals
             PROVE  SmartInv'
    OBVIOUS
<1>1. /\ Do("forget") /\ orig' = {}
      /\ UNCHANGED <<control, receiver, running, gen, queue, chunkSize, latest,
                     mustGo, up, down, serverVars, mode, kind, left, frames,
                     sentinel, senders, mine, gaveUp, late>>
      BY Zenon DEF ForgetOriginals
<1>2. pcC \in {"loop", "ready"}
      BY <1>1, DoStep
<1>3. ClientTypeInv'
      BY <1>1, <1>2, TypesHere, ClientFrame DEF control
<1>4. SmartTypeOK'
      BY <1>1, Zenon DEF SmartInv, SmartTypeOK
<1>5. LoopInv' /\ RoomInv'
      BY <1>1, DoFrame, DoRoom DEF control
<1>6. QED
      BY <1>1, <1>3, <1>4, <1>5, Untouched DEF SmartInv

LEMMA ArmStep == SmartInv /\ Arm => SmartInv'
<1> SUFFICES ASSUME SmartInv, Arm
             PROVE  SmartInv'
    OBVIOUS
<1>1. /\ Do("arm") /\ mustGo' = TRUE
      /\ UNCHANGED <<control, receiver, running, gen, queue, chunkSize, latest,
                     orig, up, down, serverVars, mode, kind, left, frames,
                     sentinel, senders, mine, gaveUp, late>>
      BY Zenon DEF Arm
<1>2. pcC \in {"loop", "ready"}
      BY <1>1, DoStep
<1>3. ClientTypeInv'
      BY <1>1, <1>2, TypesHere, ClientFrame DEF control
<1>4. SmartTypeOK'
      BY <1>1, Zenon DEF SmartInv, SmartTypeOK
<1>5. LoopInv' /\ RoomInv'
      BY <1>1, DoFrame, DoRoom DEF control
<1>6. QED
      BY <1>1, <1>3, <1>4, <1>5, Untouched DEF SmartInv

LEMMA SentinelStep == SmartInv /\ PutSentinel => SmartInv'
<1> SUFFICES ASSUME SmartInv, PutSentinel
             PROVE  SmartInv'
    OBVIOUS
<1>1. /\ Do("sentinel")
      /\ UNCHANGED <<clientVars, serverVars, mode, kind, left, frames, senders,
                     mine, gaveUp, late>>
      BY Zenon DEF PutSentinel
<1>2. sentinel' \in BOOLEAN
      BY Zenon DEF PutSentinel, SmartInv, SmartTypeOK
<1>3. pcC \in {"loop", "ready"}
      BY <1>1, DoStep
<1>4. ClientTypeInv'
      BY <1>1, <1>3, TypesHere, ClientFrame DEF clientVars, control, shared
<1>5. SmartTypeOK'
      BY <1>1, <1>2, Zenon DEF SmartInv, SmartTypeOK
<1>6. LoopInv' /\ RoomInv'
      BY <1>1, DoFrame, DoRoom DEF clientVars, control, shared
<1>7. QED
      BY <1>1, <1>4, <1>5, <1>6, Untouched DEF SmartInv

LEMMA JoinStep == SmartInv /\ Join => SmartInv'
<1> SUFFICES ASSUME SmartInv, Join
             PROVE  SmartInv'
    OBVIOUS
<1>1. /\ Do("join") /\ mine' = 0
      /\ UNCHANGED <<clientVars, serverVars, mode, kind, left, frames, sentinel,
                     senders, late>>
      BY Zenon DEF Join
<1>2. gaveUp' \in BOOLEAN
      BY Zenon DEF Join, SmartInv, SmartTypeOK
<1>3. pcC \in {"loop", "ready"}
      BY <1>1, DoStep
<1>4. ClientTypeInv'
      BY <1>1, <1>3, TypesHere, ClientFrame DEF clientVars, control, shared
<1>5. SmartTypeOK'
      BY <1>1, <1>2, SmartAssumption DEF SmartInv, SmartTypeOK, SmartAssumption
<1>6. LoopInv' /\ RoomInv'
      BY <1>1, DoFrame, DoRoom DEF clientVars, control, shared
<1>7. QED
      BY <1>1, <1>4, <1>5, <1>6, Untouched DEF SmartInv

LEMMA LookStep == SmartInv /\ GoOn => SmartInv'
<1> SUFFICES ASSUME SmartInv, GoOn
             PROVE  SmartInv'
    OBVIOUS
<1>1. /\ Do("look") /\ pcC = "ready" /\ pcC' \in {"loop", "collect"}
      /\ UNCHANGED <<emptySteps, nextStart, pending, leftover, sawEmpty, high,
                     receiver, shared, up, down, serverVars, mode, kind, left,
                     frames, sentinel, senders, mine, gaveUp, late>>
      BY DEF GoOn, ReadyToSend
<1>2. ClientTypeInv'
      BY <1>1, TypesHere, ClientFrame DEF shared
<1>3. SmartTypeOK'
      BY <1>1, Zenon DEF SmartInv, SmartTypeOK
<1>4. LoopInv'
  <2>1. mine = 0 /\ ~Has("start")
        BY <1>1 DEF SmartInv, LoopInv
  <2>2. Shape(todo') /\ (\A x : HasStep(todo', x) => Has(x)) /\ mode # "trajectory"
        BY <1>1, DoStep
  <2>3. QED
        BY <1>1, <2>1, <2>2 DEF SmartInv, LoopInv, Has
<1>5. RoomInv'
      BY <1>1, DoRoom DEF shared
<1>6. QED
      BY <1>1, <1>2, <1>3, <1>4, <1>5, Untouched DEF SmartInv

LEMMA StartStep == SmartInv /\ StartTrajectory => SmartInv'
<1> SUFFICES ASSUME SmartInv, StartTrajectory
             PROVE  SmartInv'
    OBVIOUS
<1>1. /\ Do("start") /\ mustGo' = FALSE
      /\ mode' = "trajectory" /\ left' = TrajLen
      /\ frames' = 0 /\ sentinel' = FALSE
      /\ UNCHANGED <<control, receiver, running, gen, queue, chunkSize, latest,
                     orig, up, down, serverVars, kind, gaveUp, late>>
      BY Zenon DEF StartTrajectory
<1>2. PICK i \in 1 .. MaxRetries :
        mine' = i /\ senders' = [senders EXCEPT ![i] = "waits"]
      BY Zenon DEF StartTrajectory
<1>3. Has("start") /\ todo' = <<>>
      BY <1>1, DoStep
<1>4. pcC = "loop"
      BY <1>3 DEF SmartInv, LoopInv
<1>5. ClientTypeInv'
      BY <1>1, <1>4, TypesHere, ClientFrame DEF control
<1>6. SmartTypeOK'
  <2>1. senders' \in [1 .. MaxRetries -> Sender]
        BY <1>2 DEF SmartInv, SmartTypeOK, Sender
  <2>2. /\ mine' \in 0 .. MaxRetries /\ left' \in Nat
        /\ frames' \in 0 .. QueueMax /\ sentinel' \in BOOLEAN
    <3>1. mine' \in 0 .. MaxRetries /\ left' \in Nat
          BY <1>1, <1>2, SmartAssumption DEF SmartAssumption
    <3>2. 0 \in 0 .. QueueMax
          BY SmartAssumption DEF SmartAssumption
    <3>3. frames' \in 0 .. QueueMax /\ sentinel' \in BOOLEAN
          BY <1>1, <3>2, Zenon
    <3>4. QED
          BY <3>1, <3>3
  <2>3. QED
        BY <1>1, <2>1, <2>2, Zenon DEF SmartInv, SmartTypeOK
<1>7. LoopInv'
      BY <1>1, <1>3, <1>4, ShapeOfPlans, PlanHas DEF LoopInv, Has, control
<1>8. RoomInv'
      BY <1>1, <1>3, PlanHas DEF SmartInv, RoomInv, Has
<1>9. QED
      BY <1>1, <1>5, <1>6, <1>7, <1>8, Untouched DEF SmartInv

LEMMA EndStep == SmartInv /\ (LoopEnds \/ StopRetrying) => SmartInv'
<1> SUFFICES ASSUME SmartInv, LoopEnds \/ StopRetrying
             PROVE  SmartInv'
    OBVIOUS
<1>1. /\ todo = <<>> /\ pcC \in {"loop", "ready"}
      /\ pcC' = "done" /\ running' = FALSE
      /\ UNCHANGED <<emptySteps, nextStart, pending, leftover, sawEmpty, high,
                     receiver, gen, queue, chunkSize, latest, orig, mustGo, up,
                     down, serverVars, smartVars>>
      BY Zenon DEF LoopEnds, StopRetrying, AtHead
<1>2. ClientTypeInv'
      BY <1>1, TypesHere, ClientFrame
<1>3. SmartTypeOK'
      BY <1>1, Zenon DEF SmartInv, SmartTypeOK, smartVars
<1>4. ~Has("start")
      BY <1>1, PlanHas DEF Has
<1>5. LoopInv' /\ RoomInv'
      BY <1>1, <1>4 DEF SmartInv, LoopInv, RoomInv, Has, smartVars
<1>6. QED
      BY <1>1, <1>2, <1>3, <1>5, Untouched DEF SmartInv

\* At "ready" no trajectory runs and no sender is the client's.
LEMMA AtReady ==
  SmartInv /\ pcC = "ready" => mode # "trajectory" /\ mine = 0 /\ ~Has("start")
BY DEF SmartInv, LoopInv

LEMMA RetryStep == SmartInv /\ (Retry \/ RetryUnbuilt) => SmartInv'
<1> SUFFICES ASSUME SmartInv, Retry \/ RetryUnbuilt
             PROVE  SmartInv'
    OBVIOUS
<1>1. /\ pcC = "ready" /\ gen + 3 <= MaxEp /\ pcC' = "loop"
      /\ kind' \in Kinds
      /\ UNCHANGED <<emptySteps, nextStart, pending, leftover, sawEmpty, high,
                     receiver, shared, up, down, serverVars, mode, left, frames,
                     sentinel, senders, mine, gaveUp, late>>
  <2>1. CASE Retry
        BY <2>1, Zenon DEF Retry
  <2>2. CASE RetryUnbuilt
        BY <2>2, Zenon DEF RetryUnbuilt, SmartInv, SmartTypeOK
  <2>3. QED
        BY <2>1, <2>2
<1>2. todo' \in {<<"bump", "drain", "forget", "start">>,
                 <<"bump", "drain", "forget", "arm">>}
      BY ForceSteps, Zenon DEF Retry, RetryUnbuilt
<1>3. Shape(todo')
      BY <1>2, ShapeOfPlans, Zenon
<1>4. ClientTypeInv'
      BY <1>1, TypesHere, ClientFrame DEF shared
<1>5. SmartTypeOK'
      BY <1>1, Zenon DEF SmartInv, SmartTypeOK
<1>6. LoopInv'
      BY <1>1, <1>3, AtReady DEF SmartInv, LoopInv
<1>7. RoomInv'
      BY <1>1, AtReady, TypesHere, ClientAssumption
         DEF RoomInv, shared, ClientAssumption
<1>8. QED
      BY <1>1, <1>4, <1>5, <1>6, <1>7, Untouched DEF SmartInv

LEMMA ReinferStep == SmartInv /\ Reinfer => SmartInv'
<1> SUFFICES ASSUME SmartInv, Reinfer
             PROVE  SmartInv'
    OBVIOUS
<1>1. /\ pcC = "ready" /\ gen + 3 <= MaxEp
      /\ UNCHANGED <<clientVars, serverVars, mode, kind, left, frames, sentinel,
                     senders, mine, gaveUp, late>>
      BY Zenon DEF Reinfer
<1>2. todo' = <<"bump", "drain", "forget", "arm", "look">>
      BY ForceSteps, Zenon DEF Reinfer
<1>3. Shape(todo') /\ ~HasStep(todo', "start")
      BY <1>2, ShapeOfPlans, PlanHas, Zenon
<1>4. ClientTypeInv'
      BY <1>1, TypesHere, ClientFrame DEF clientVars, control, shared
<1>5. SmartTypeOK'
      BY <1>1, Zenon DEF SmartInv, SmartTypeOK
<1>6. LoopInv'
      BY <1>1, <1>3, AtReady DEF SmartInv, LoopInv, Has, clientVars, control
<1>7. RoomInv'
      BY <1>1, AtReady, TypesHere, ClientAssumption
         DEF RoomInv, clientVars, shared, ClientAssumption
<1>8. QED
      BY <1>1, <1>4, <1>5, <1>6, <1>7, Untouched DEF SmartInv

LEMMA NextTimestepType ==
  SmartInv /\ NextTimestep => latest' \in Nat \cup {-1}
BY TypesHere DEF NextTimestep

LEMMA TrajectoryStepKeeps == SmartInv /\ TrajectoryStep => SmartInv'
<1> SUFFICES ASSUME SmartInv, TrajectoryStep
             PROVE  SmartInv'
    OBVIOUS
<1>1. /\ pcC = "loop" /\ todo = <<>> /\ mode = "trajectory"
      /\ NextTimestep
      /\ UNCHANGED <<control, receiver, running, gen, queue, chunkSize, orig,
                     mustGo, up, down, serverVars, kind, sentinel, senders, mine,
                     gaveUp, late>>
      BY Zenon DEF TrajectoryStep, AtHead
<1>2. \/ left > 1 /\ left' = left - 1 /\ mode' = mode /\ todo' = todo
      \/ /\ todo' = AfterTrajectory(kind) /\ left' = Warmup[kind]
         /\ mode' = IF Warmup[kind] = 0 THEN "policy" ELSE "warmup"
      BY Zenon DEF TrajectoryStep
<1>3. kind \in Kinds /\ Warmup[kind] \in Nat /\ left \in Nat
      BY SmartAssumption DEF SmartInv, SmartTypeOK, SmartAssumption
<1>4. ClientTypeInv'
      BY <1>1, NextTimestepType, TypesHere, ClientFrame DEF control
<1>5. frames' \in 0 .. QueueMax
  <2>1. frames' = IF frames < QueueMax THEN frames + 1 ELSE frames
        BY Zenon DEF TrajectoryStep
  <2>2. QED
        BY <2>1, SmartAssumption DEF SmartInv, SmartTypeOK, SmartAssumption
<1>6. SmartTypeOK'
  <2>1. left' \in Nat /\ mode' \in {"policy", "trajectory", "warmup"}
        BY <1>1, <1>2, <1>3
  <2>2. QED
        BY <1>1, <1>5, <2>1, Zenon DEF SmartInv, SmartTypeOK
<1>7. /\ Shape(todo') /\ ~HasStep(todo', "start")
      /\ mode' = "trajectory" => todo' = <<>>
      /\ mode' = "warmup" => left' >= 1
      /\ mode' = "trajectory" \/ HasStep(todo', "join")
  <2>1. CASE mode' = mode /\ todo' = todo
        BY <1>1, <2>1, ShapeOfPlans, PlanHas
  <2>2. CASE /\ todo' = AfterTrajectory(kind) /\ left' = Warmup[kind]
             /\ mode' = IF Warmup[kind] = 0 THEN "policy" ELSE "warmup"
        BY <1>3, <2>2, PlanHas
  <2>3. QED
        BY <1>2, <2>1, <2>2
<1>8. LoopInv'
      BY <1>1, <1>7 DEF LoopInv, Has, control
<1>9. RoomInv'
  <2>1. gen + 2 <= MaxEp
        BY <1>1 DEF SmartInv, RoomInv
  <2>2. QED
        BY <1>1, <1>7, <2>1, TypesHere, ClientAssumption
           DEF RoomInv, Has, ClientAssumption
<1>10. QED
      BY <1>1, <1>4, <1>6, <1>8, <1>9, Untouched DEF SmartInv

LEMMA WarmupStepKeeps == SmartInv /\ WarmupStep => SmartInv'
<1> SUFFICES ASSUME SmartInv, WarmupStep
             PROVE  SmartInv'
    OBVIOUS
<1>1. /\ pcC = "loop" /\ todo = <<>> /\ mode = "warmup"
      /\ NextTimestep
      /\ emptySteps' = 0 /\ pcC' = "collect" /\ left' = left - 1
      /\ mode' = IF left = 1 THEN "policy" ELSE mode
      /\ todo' = IF left = 1 THEN <<"bump", "drain", "arm">> ELSE <<>>
      /\ UNCHANGED <<nextStart, pending, leftover, sawEmpty, high, receiver,
                     running, gen, queue, chunkSize, orig, mustGo, up, down,
                     serverVars, kind, frames, sentinel, senders, mine, gaveUp,
                     late>>
      BY Zenon DEF WarmupStep, AtHead
<1>2. left \in Nat /\ left >= 1 /\ mine = 0
  <2>1. ~Has("join")
        BY <1>1, PlanHas DEF Has
  <2>2. QED
        BY <1>1, <2>1 DEF SmartInv, LoopInv, SmartTypeOK
<1>3. ClientTypeInv'
      BY <1>1, NextTimestepType, TypesHere, ClientFrame
<1>4. SmartTypeOK'
  <2>1. left' \in Nat /\ mode' \in {"policy", "trajectory", "warmup"}
        BY <1>1, <1>2
  <2>2. QED
        BY <1>1, <2>1, Zenon DEF SmartInv, SmartTypeOK
<1>5. Shape(todo') /\ ~HasStep(todo', "start") /\ (left # 1 => ~HasStep(todo', "bump"))
      BY <1>1, ShapeOfPlans, PlanHas
<1>6. LoopInv'
      BY <1>1, <1>2, <1>5 DEF LoopInv, Has
<1>7. RoomInv'
  <2>1. gen + 1 <= MaxEp
        BY <1>1 DEF SmartInv, RoomInv
  <2>2. QED
        BY <1>1, <1>5, <2>1 DEF RoomInv, Has
<1>8. QED
      BY <1>1, <1>3, <1>4, <1>6, <1>7, Untouched DEF SmartInv

LEMMA SmartStepKeeps ==
  SmartInv /\ SmartStep => SmartInv'
<1> SUFFICES ASSUME SmartInv, SmartStep
             PROVE  SmartInv'
    OBVIOUS
<1>1. CASE PolicyStep /\ UNCHANGED <<serverVars, smartVars>>
      BY <1>1, PolicyFrame
<1>2. CASE ~(PolicyStep /\ UNCHANGED <<serverVars, smartVars>>)
      BY <1>2, EndStep, RetryStep, ReinferStep, TrajectoryStepKeeps,
         WarmupStepKeeps, BumpStep, DrainStep, ForgetStep, ArmStep, StartStep,
         SentinelStep, JoinStep, LookStep
         DEF SmartStep
<1>3. QED
      BY <1>1, <1>2

LEMMA SenderKeeps == SmartInv /\ SenderStep => SmartInv'
<1> SUFFICES ASSUME SmartInv, SenderStep
             PROVE  SmartInv'
    OBVIOUS
<1>1. PICK i \in 1 .. MaxRetries : TakeFrame(i) \/ FrameSent(i) \/ TakeSentinel(i)
      BY Zenon DEF SenderStep
<1>2. UNCHANGED <<clientVars, serverVars, mode, kind, left, todo, mine, gaveUp, late>>
      BY Zenon DEF SenderStep
<1>3. /\ senders' \in [1 .. MaxRetries -> Sender]
      /\ frames' \in 0 .. QueueMax /\ sentinel' \in BOOLEAN
  <2>1. \E v \in Sender : senders' = [senders EXCEPT ![i] = v]
        BY <1>1 DEF TakeFrame, FrameSent, TakeSentinel, Sender
  <2>2. senders' \in [1 .. MaxRetries -> Sender]
        BY <2>1 DEF SmartInv, SmartTypeOK
  <2>3. frames' = frames \/ (frames > 0 /\ frames' = frames - 1)
        BY <1>1, Zenon DEF TakeFrame, FrameSent, TakeSentinel
  <2>4. frames' \in 0 .. QueueMax
        BY <2>3, SmartAssumption DEF SmartInv, SmartTypeOK, SmartAssumption
  <2>5. sentinel' \in BOOLEAN
        BY <1>1, Zenon DEF TakeFrame, FrameSent, TakeSentinel, SmartInv, SmartTypeOK
  <2>6. QED
        BY <2>2, <2>4, <2>5
<1>4. SmartTypeOK'
      BY <1>2, <1>3, Zenon DEF SmartInv, SmartTypeOK
<1>5. UNCHANGED <<control, receiver, shared, up, down>>
      BY <1>2, Zenon DEF clientVars
<1>6. ClientTypeInv'
      BY <1>5 DEF SmartInv, ClientTypeInv, ClientTypeOK, FlagsOK, control, receiver,
         shared
<1>7. LoopInv' /\ RoomInv'
      BY <1>2, <1>5 DEF SmartInv, LoopInv, RoomInv, Has, control, shared
<1>8. QED
      BY <1>2, <1>4, <1>6, <1>7, Untouched DEF SmartInv

LEMMA ReceiveKeeps == SmartInv /\ Receive => SmartInv'
<1> SUFFICES ASSUME SmartInv, Receive
             PROVE  SmartInv'
    OBVIOUS
<1>1. ReceiverStep /\ UNCHANGED <<serverVars, smartVars>>
      BY Zenon DEF Receive
<1>2. ClientTypeInv'
      BY <1>1, ClientTypeReceiver DEF SmartInv
<1>3. SmartTypeOK'
      BY <1>1, Zenon DEF SmartInv, SmartTypeOK, smartVars
<1>4. UNCHANGED <<pcC, gen>>
      BY <1>1 DEF ReceiverStep, PollActions, ReceiveEmpty, ReceiveError, DiscardStale,
         KeepChunk, SetChunkSize, FillOrigBuf, ReadLatest, SwapQueue, RearmMustGo, control, shared
<1>5. LoopInv' /\ RoomInv'
      BY <1>1, <1>4 DEF SmartInv, LoopInv, RoomInv, Has, smartVars
<1>6. QED
      BY <1>1, <1>2, <1>3, <1>5, Untouched DEF SmartInv

LEMMA ServiceKeeps == SmartInv /\ ServiceMove => SmartInv'
<1> SUFFICES ASSUME SmartInv, ServiceMove
             PROVE  SmartInv'
    OBVIOUS
<1>0. Service!ServiceNext /\ UNCHANGED <<control, receiver, shared, smartVars>>
      BY Zenon DEF ServiceMove
<1>1. /\ Service!ServiceTypeOK'
      /\ up' \in Sends /\ down' \in Polls
  <2> USE SmartAssumption, ClientAssumption
      DEF SmartAssumption, ClientAssumption, SmartInv, ClientTypeInv, ClientTypeOK,
          Service!ServiceTypeOK, Service!Slot, Service!Full, Service!Empty, Service!Fault,
          Service!Overtaken, Service!CountFailure, Service!counts, Sends, Polls,
          Generation
  <2>1. CASE Service!AcceptObs
        BY <2>1 DEF Service!AcceptObs
  <2>2. CASE Service!FilterObs
        BY <2>2 DEF Service!FilterObs
  <2>3. CASE Service!MakeRoom
        BY <2>3 DEF Service!MakeRoom
  <2>4. CASE Service!FailDoomed
        BY <2>4 DEF Service!FailDoomed
  <2>5. CASE Service!LoseObs
    <3>1. held' = held \/ held' = Service!Full(up)
          BY <2>5 DEF Service!LoseObs
    <3>2. /\ UNCHANGED <<down, busy, failures, broken>>
          /\ Service!Fault /\ fate' = "open"
          /\ up' = [up EXCEPT !.st = "lost"]
          BY <2>5 DEF Service!LoseObs
    <3>3. CASE held' = held
          BY <3>2, <3>3
    <3>4. CASE held' = Service!Full(up)
          BY <3>2, <3>4
    <3>5. QED
          BY <3>1, <3>3, <3>4
  <2>6. CASE Service!RetryObs
        BY <2>6 DEF Service!RetryObs
  <2>7. CASE Service!Dequeue
        BY <2>7 DEF Service!Dequeue
  <2>8. CASE Service!ReplyChunk
        BY <2>8 DEF Service!ReplyChunk
  <2>9. CASE Service!ReplyEmpty
        BY <2>9 DEF Service!ReplyEmpty
  <2>10. CASE Service!InferenceFails
        BY <2>10 DEF Service!InferenceFails
  <2>11. CASE Service!CallFails
        BY <2>11 DEF Service!CallFails
  <2>12. CASE Service!RetryCall
        BY <2>12 DEF Service!RetryCall
  <2>13. CASE Service!StealObs
        BY <2>13 DEF Service!StealObs
  <2>14. CASE Service!HiddenFault
    <3>1. Service!Fault /\ UNCHANGED <<up, down, held, busy, fate>>
          BY <2>14 DEF Service!HiddenFault
    <3>2. CASE Service!CountFailure
          BY <3>1, <3>2
    <3>3. CASE UNCHANGED <<failures, broken>>
          BY <3>1, <3>3
    <3>4. QED
          BY <2>14, <3>2, <3>3 DEF Service!HiddenFault
  <2>15. CASE Service!ForgottenEnds
        BY <2>15 DEF Service!ForgottenEnds
  <2>16. CASE Service!ReplyBroken
    <3>1. /\ down' = [down EXCEPT !.st = "empty"]
          /\ UNCHANGED <<up, held, fate, failures, broken>>
          BY <2>16 DEF Service!ReplyBroken, Service!counts
    <3>2. \/ UNCHANGED <<busy, faults>>
          \/ Service!Fault /\ busy' = Service!Empty
          BY <2>16 DEF Service!ReplyBroken
    <3>3. CASE UNCHANGED <<busy, faults>>
          BY <3>1, <3>3
    <3>4. CASE Service!Fault /\ busy' = Service!Empty
          BY <3>1, <3>4
    <3>5. QED
          BY <3>2, <3>3, <3>4
  <2>17. QED
        BY <1>0, <2>1, <2>2, <2>3, <2>4, <2>5, <2>6, <2>7, <2>8, <2>9, <2>10, <2>11,
           <2>12, <2>13, <2>14, <2>15, <2>16
           DEF Service!ServiceNext, Service!TakeObs, Service!AnswerCall
<1>2. ClientTypeInv'
      BY <1>0, <1>1 DEF SmartInv, ClientTypeInv, ClientTypeOK, FlagsOK, control,
         receiver, shared
<1>3. SmartTypeOK'
      BY <1>0, Zenon DEF SmartInv, SmartTypeOK, smartVars
<1>4. LoopInv' /\ RoomInv'
      BY <1>0 DEF SmartInv, LoopInv, RoomInv, Has, smartVars, control, shared
<1>5. QED
      BY <1>1, <1>2, <1>3, <1>4 DEF SmartInv

LEMMA SmartNext == SmartInv /\ [Next]_vars => SmartInv'
<1> SUFFICES ASSUME SmartInv, [Next]_vars
             PROVE  SmartInv'
    OBVIOUS
<1>1. CASE UNCHANGED vars
      BY <1>1 DEF vars, clientVars, control, receiver, shared, serverVars, smartVars,
         SmartInv, ClientTypeInv, ClientTypeOK, FlagsOK, Service!ServiceTypeOK,
         SmartTypeOK, LoopInv, RoomInv, Has
<1>2. QED
      BY <1>1, SmartStepKeeps, SenderKeeps, ReceiveKeeps, ServiceKeeps
         DEF Next, Terminated

\* Every variable keeps its type; in particular the generations that a retry
\* uses up stay within their bound, and what is due is always a rest of one of
\* the lists of steps.
THEOREM TypeCorrect == Spec => []TypeOK
<1>1. SmartInv => TypeOK
      BY DEF SmartInv, ClientTypeInv, SmartTypeOK, LoopInv, Shape, TypeOK
<1>2. QED
      BY <1>1, SmartInit, SmartNext, PTL DEF Spec

-----------------------------------------------------------------------------
(***************************************************************************)
(* Two senders.  While a sender is the client's own the control loop sends *)
(* nothing.  As long as no drain has given up there is no other sender,    *)
(* and the client's own ends at its sentinel, with nothing behind it: no   *)
(* observation is put into the queue after the sentinel.                   *)
(***************************************************************************)
AloneInv ==
  /\ up.st = "req" => pcC = "sending"
  /\ sentinel => mode # "trajectory"
  /\ mode = "trajectory" => mine # 0
  /\ ~gaveUp => /\ \A i \in 1 .. MaxRetries : i # mine => senders[i] = "none"
                /\ mine = 0 => frames = 0
                /\ mine # 0 /\ senders[mine] = "none"
                     => frames = 0 /\ mode # "trajectory"

LEMMA AloneInit == Init => AloneInv
<1> SUFFICES ASSUME Init
             PROVE  AloneInv
    OBVIOUS
<1>1. up.st = "none"
      BY DEF Init, ClientInit, NoSend
<1>2. (\A i \in 1 .. MaxRetries : senders[i] = "none") /\ frames = 0 /\ mine = 0
      /\ ~sentinel /\ mode = "policy"
      BY DEF Init
<1>3. QED
      BY <1>1, <1>2 DEF AloneInv

LEMMA AloneUp ==
  ASSUME SmartInv, AloneInv, [Next]_vars
  PROVE  up'.st = "req" => pcC' = "sending"
<1>1. CASE SmartStep
  <2>1. CASE SendObservation
        BY <2>1 DEF SendObservation, SmartInv, ClientTypeInv, ClientTypeOK, AloneInv
  <2>2. CASE ClearMustGo
        BY <2>2 DEF ClearMustGo, NoSend
  <2>3. CASE ~SendObservation /\ ~ClearMustGo
        BY <1>1, <2>3
           DEF SmartStep, PolicyStep, LookForActions, PopAction, PopFromEmpty,
               CommitLatest, ReadyToSend, CollectLeftover, SampleQueue, LoopEnds,
               Retry, RetryUnbuilt, Reinfer, StopRetrying, TrajectoryStep, WarmupStep,
               AtHead, BumpGeneration, DrainQueue, ForgetOriginals, Arm,
               StartTrajectory, PutSentinel, Join, GoOn, Do, AloneInv, control,
               clientVars
  <2>4. QED
        BY <2>1, <2>2, <2>3
<1>2. CASE Receive
      BY <1>2 DEF Receive, ReceiverStep, PollActions, ReceiveEmpty, ReceiveError,
         DiscardStale, KeepChunk, SetChunkSize, FillOrigBuf, ReadLatest, SwapQueue, RearmMustGo,
         control, AloneInv
<1>3. CASE ServiceMove
  <2>1. pcC' = pcC /\ (up'.st = "req" => up.st = "req")
        BY <1>3 DEF ServiceMove, control, Service!ServiceNext, Service!TakeObs,
           Service!AnswerCall, Service!AcceptObs, Service!FilterObs,
           Service!MakeRoom, Service!FailDoomed, Service!LoseObs, Service!RetryObs,
           Service!Dequeue, Service!ReplyChunk, Service!ReplyEmpty,
           Service!InferenceFails, Service!CallFails, Service!RetryCall,
           Service!StealObs, Service!HiddenFault, Service!ForgottenEnds,
           Service!ReplyBroken, Service!counts
  <2>2. QED
        BY <2>1 DEF AloneInv
<1>4. CASE SenderStep \/ UNCHANGED vars
      BY <1>4 DEF SenderStep, vars, clientVars, control, AloneInv
<1>5. QED
      BY <1>1, <1>2, <1>3, <1>4 DEF Next, Terminated

\* What of AloneInv is about the senders.
OwnSender ==
  /\ sentinel => mode # "trajectory"
  /\ mode = "trajectory" => mine # 0
  /\ ~gaveUp => /\ \A i \in 1 .. MaxRetries : i # mine => senders[i] = "none"
                /\ mine = 0 => frames = 0
                /\ mine # 0 /\ senders[mine] = "none"
                     => frames = 0 /\ mode # "trajectory"

LEMMA AloneSenders ==
  ASSUME SmartInv, OwnSender, [Next]_vars
  PROVE  OwnSender'
<1> USE DEF OwnSender
<1>1. CASE UNCHANGED <<frames, sentinel, senders, mine, mode, gaveUp>>
      BY <1>1
<1>2. CASE TrajectoryStep
  <2>1. /\ mode = "trajectory" /\ ~sentinel
        /\ UNCHANGED <<sentinel, senders, mine, gaveUp>>
        BY <1>2, Zenon DEF TrajectoryStep
  <2>2. mine # 0 /\ (~gaveUp => senders[mine] # "none")
        BY <2>1
  <2>3. QED
        BY <2>1, <2>2
<1>3. CASE StartTrajectory
  <2>1. mine = 0
    <3>1. Has("start")
          BY <1>3, DoStep DEF StartTrajectory
    <3>2. QED
          BY <3>1 DEF SmartInv, LoopInv
  <2>2. PICK i \in 1 .. MaxRetries :
          mine' = i /\ senders' = [senders EXCEPT ![i] = "waits"]
        BY <1>3, Zenon DEF StartTrajectory
  <2>3. gaveUp' = gaveUp /\ ~sentinel' /\ frames' = 0
        BY <1>3, Zenon DEF StartTrajectory
  <2>4. senders'[mine'] = "waits"
        BY <2>2 DEF SmartInv, SmartTypeOK
  <2>5. ASSUME ~gaveUp, NEW k \in 1 .. MaxRetries, k # mine'
        PROVE  senders'[k] = "none"
    <3>1. k # mine
          BY <2>1
    <3>2. QED
          BY <2>2, <2>5, <3>1 DEF SmartInv, SmartTypeOK
  <2>6. mine' # 0
        BY <2>2
  <2>7. QED
        BY <2>3, <2>4, <2>5, <2>6
<1>4. CASE PutSentinel
  <2>1. mode # "trajectory" /\ UNCHANGED <<frames, senders, mine, mode, gaveUp>>
        BY <1>4, DoStep DEF PutSentinel
  <2>2. QED
        BY <2>1
<1>5. CASE Join
  <2>1. /\ mine' = 0 /\ (gaveUp' <=> (gaveUp \/ senders[mine] # "none"))
        /\ UNCHANGED <<frames, sentinel, senders, mode>>
        BY <1>5, Zenon DEF Join
  <2>2. mode # "trajectory"
        BY <1>5, DoStep DEF Join
  <2>3. QED
        BY <2>1, <2>2
<1>6. CASE SenderStep
  <2>1. PICK j \in 1 .. MaxRetries : TakeFrame(j) \/ FrameSent(j) \/ TakeSentinel(j)
        BY <1>6, Zenon DEF SenderStep
  <2>2. UNCHANGED <<mine, mode, gaveUp>>
        BY <1>6, Zenon DEF SenderStep
  <2>3. CASE gaveUp
        BY <2>1, <2>2, <2>3 DEF TakeFrame, FrameSent, TakeSentinel
  <2>4. CASE ~gaveUp
    <3>1. j = mine /\ j # 0 /\ senders[mine] # "none"
          BY <2>1, <2>4 DEF TakeFrame, FrameSent, TakeSentinel
    <3>2. \A k \in 1 .. MaxRetries : k # mine => senders'[k] = senders[k]
          BY <2>1, <3>1 DEF TakeFrame, FrameSent, TakeSentinel, SmartInv, SmartTypeOK
    <3>3. sentinel' => sentinel
          BY <2>1 DEF TakeFrame, FrameSent, TakeSentinel
    <3>4. senders'[mine] = "none" => frames' = 0 /\ sentinel
          BY <2>1, <3>1 DEF TakeFrame, FrameSent, TakeSentinel, SmartInv, SmartTypeOK
    <3>5. QED
          BY <2>2, <2>4, <3>1, <3>2, <3>3, <3>4
  <2>5. QED
        BY <2>3, <2>4
<1>7. CASE WarmupStep
  <2>1. mode # "trajectory" /\ mode' # "trajectory"
        /\ UNCHANGED <<frames, sentinel, senders, mine, gaveUp>>
        BY <1>7 DEF WarmupStep
  <2>2. QED
        BY <2>1
<1>8. CASE ~(\/ TrajectoryStep \/ StartTrajectory \/ PutSentinel \/ Join \/ SenderStep
             \/ WarmupStep)
      BY <1>1, <1>8
         DEF Next, SmartStep, LoopEnds, Retry, RetryUnbuilt, Reinfer, StopRetrying,
             BumpGeneration, DrainQueue, ForgetOriginals, Arm, GoOn,
             Receive, ServiceMove, Terminated, smartVars, vars
<1>9. QED
      BY <1>2, <1>3, <1>4, <1>5, <1>6, <1>7, <1>8

LEMMA AloneNext == SmartInv /\ AloneInv /\ [Next]_vars => AloneInv'
BY AloneUp, AloneSenders DEF AloneInv, OwnSender

\* While the control loop has an observation under way no background sender has
\* one, unless a drain timed out: for any number of retries, of steps of a
\* trajectory and of places in the queue.
THEOREM LoopSendsAlone == Spec => []SendsAlone
<1>1. SmartInv /\ AloneInv => SendsAlone
      BY DEF SmartInv, LoopInv, AloneInv, SendsAlone
<1>2. QED
      BY <1>1, SmartInit, SmartNext, AloneInit, AloneNext, PTL DEF Spec

-----------------------------------------------------------------------------
(***************************************************************************)
(* Freshness.  Whatever travels between the client and the robot belongs   *)
(* to the current generation, or the generation guard stops it, unless a   *)
(* bump found something that no guard will stop.                           *)
(***************************************************************************)
CallInv ==
  /\ pcR # "wait" => down.st = "none"
  /\ down.st # "call" => ~busy.full
  /\ rGen <= gen

Holding == {"size", "fill", "read", "swap"}
Draining == todo # <<>> /\ Head(todo) = "drain"

Fresh ==
  /\ up.st = "req" => up.ep = gen
  /\ held.full => held.ep = gen
  /\ rGen = gen /\ busy.full => busy.ep = gen
  /\ rGen = gen /\ down.st = "chunk" => down.ep = gen
  /\ pcR \in Holding => rChunk.ep = gen
  /\ ~Draining => \A a \in queue : a.ep = gen

FreshInv == CallInv /\ (~late => Fresh)

LEMMA FreshInit == Init => FreshInv
<1> SUFFICES ASSUME Init
             PROVE  FreshInv
    OBVIOUS
<1>1. up.st = "none" /\ down.st = "none"
      BY DEF Init, ClientInit, NoSend, Quiet
<1>2. ~held.full /\ ~busy.full
      BY DEF Init, Service!ServiceInit, Service!Empty
<1>3. pcR = "poll" /\ queue = {} /\ rGen = 1 /\ gen = 1
      BY Zenon DEF Init, ClientInit
<1>4. QED
      BY <1>1, <1>2, <1>3 DEF FreshInv, CallInv, Fresh, Holding

LEMMA FreshService ==
  SmartInv /\ FreshInv /\ ServiceMove => FreshInv'
<1> SUFFICES ASSUME SmartInv, FreshInv, ServiceMove
             PROVE  FreshInv'
    OBVIOUS
<1>1. UNCHANGED <<pcR, rGen, gen, rChunk, queue, todo, late>>
      BY Zenon DEF ServiceMove, receiver, shared, smartVars
<1>2. /\ up \in Sends /\ down \in Polls
      /\ held \in Service!Slot /\ busy \in Service!Slot
      BY DEF SmartInv, ClientTypeInv, ClientTypeOK, Service!ServiceTypeOK
<1>3. CASE UNCHANGED <<up, down, held, busy>>
      BY <1>1, <1>3 DEF FreshInv, CallInv, Fresh, Holding, Draining
<1>4. \/ UNCHANGED <<up, down, held, busy>>
      \/ /\ up.st = "req" /\ UNCHANGED <<down, busy>>
         /\ \/ up'.st # "req"
            \/ up' = up
         /\ held' \in {held, Service!Full(up), Service!Empty}
      \/ down.st = "call" /\ busy' = held /\ held' = Service!Empty /\ UNCHANGED <<up, down>>
      \/ /\ busy' = Service!Empty /\ UNCHANGED <<up, held>> /\ down.st = "call"
         /\ \/ down' = [st |-> "chunk", ts |-> busy.ts, ep |-> busy.ep] /\ busy.full
            \/ down'.st \in {"empty", "error"}
            \/ down' = down
      \/ UNCHANGED <<up, held, busy>> /\ ~busy.full /\ down.st = "call" /\ down'.st = "empty"
      \/ held' = Service!Empty /\ UNCHANGED <<up, down, busy>>
  <2> USE <1>2 DEF Sends, Polls
  <2>1. CASE Service!AcceptObs
        BY <2>1 DEF Service!AcceptObs
  <2>2. CASE Service!FilterObs
        BY <2>2 DEF Service!FilterObs
  <2>3. CASE Service!MakeRoom
        BY <2>3 DEF Service!MakeRoom
  <2>4. CASE Service!FailDoomed
        BY <2>4 DEF Service!FailDoomed
  <2>5. CASE Service!LoseObs
    <3>1. held' \in {held, Service!Full(up)}
          BY <2>5, Zenon DEF Service!LoseObs
    <3>2. up.st = "req" /\ up' = [up EXCEPT !.st = "lost"] /\ UNCHANGED <<down, busy>>
          BY <2>5, Zenon DEF Service!LoseObs
    <3>3. up'.st = "lost"
          BY <3>2
    <3>4. QED
          BY <3>1, <3>2, <3>3
  <2>6. CASE Service!RetryObs
        BY <2>6 DEF Service!RetryObs
  <2>7. CASE Service!Dequeue
        BY <2>7 DEF Service!Dequeue
  <2>8. CASE Service!ReplyChunk
        BY <2>8 DEF Service!ReplyChunk
  <2>9. CASE Service!ReplyEmpty
        BY <2>9 DEF Service!ReplyEmpty
  <2>10. CASE Service!InferenceFails
        BY <2>10 DEF Service!InferenceFails
  <2>11. CASE Service!CallFails
        BY <2>11 DEF Service!CallFails
  <2>12. CASE Service!RetryCall
        BY <2>12 DEF Service!RetryCall
  <2>13. CASE Service!StealObs
        BY <2>13 DEF Service!StealObs
  <2>14. CASE Service!HiddenFault
        BY <2>14 DEF Service!HiddenFault
  <2>15. CASE Service!ForgottenEnds
        BY <2>15 DEF Service!ForgottenEnds
  <2>16. CASE Service!ReplyBroken
        BY <2>16 DEF Service!ReplyBroken
  <2>17. QED
        BY <2>1, <2>2, <2>3, <2>4, <2>5, <2>6, <2>7, <2>8, <2>9, <2>10, <2>11,
           <2>12, <2>13, <2>14, <2>15, <2>16
           DEF ServiceMove, Service!ServiceNext, Service!TakeObs, Service!AnswerCall
<1>5. ~Service!Empty.full
      BY DEF Service!Empty
<1>6. Service!Full(up).ep = up.ep
      BY DEF Service!Full
<1>7. CallInv'
      BY <1>1, <1>4, <1>5 DEF FreshInv, CallInv
<1>8. ASSUME ~late'
      PROVE  Fresh'
  <2>1. Fresh
        BY <1>1, <1>8 DEF FreshInv
  <2>2. up'.st = "req" => up'.ep = gen
        BY <1>4, <2>1 DEF Fresh
  <2>3. held'.full => held'.ep = gen
        BY <1>4, <1>5, <1>6, <2>1 DEF Fresh
  <2>4. rGen = gen /\ busy'.full => busy'.ep = gen
        BY <1>4, <1>5, <2>1 DEF Fresh
  <2>5. rGen = gen /\ down'.st = "chunk" => down'.ep = gen
        BY <1>4, <2>1 DEF Fresh
  <2>6. QED
        BY <1>1, <2>1, <2>2, <2>3, <2>4, <2>5 DEF Fresh, Draining
<1>9. QED
      BY <1>7, <1>8 DEF FreshInv

LEMMA FreshReceive ==
  SmartInv /\ FreshInv /\ Receive => FreshInv'
<1> SUFFICES ASSUME SmartInv, FreshInv, Receive
             PROVE  FreshInv'
    OBVIOUS
<1>1. ReceiverStep /\ UNCHANGED <<held, busy, todo, late>>
      BY Zenon DEF Receive, serverVars, smartVars
<1> USE DEF FreshInv, CallInv, Fresh, Holding, Draining
<1>2. CASE PollActions
  <2>1. down.st = "none" /\ ~busy.full
        BY <1>2 DEF PollActions
  <2>2. CASE running
    <3>1. down' = [Quiet EXCEPT !.st = "call"] /\ pcR' = "wait" /\ rGen' = gen
          BY <1>2, <2>2, Zenon DEF PollActions
    <3>2. down'.st = "call"
          BY <3>1 DEF Quiet
    <3>3. QED
          BY <1>1, <1>2, <2>1, <3>1, <3>2, TypesHere DEF PollActions, shared
  <2>3. CASE ~running
        BY <1>1, <1>2, <2>1, <2>3 DEF PollActions, shared
  <2>4. QED
        BY <2>2, <2>3
<1>3. CASE ReceiveEmpty \/ ReceiveError \/ DiscardStale
  <2>1. /\ down'.st = "none" /\ ~busy.full /\ pcR' \notin Holding
        /\ UNCHANGED <<rGen, gen, queue, up>>
        BY <1>3 DEF ReceiveEmpty, ReceiveError, DiscardStale, Quiet, shared
  <2>2. QED
        BY <1>1, <2>1
<1>4. CASE KeepChunk
  <2>1. /\ down'.st = "none" /\ ~busy.full /\ gen = rGen /\ rChunk'.ep = down.ep
        /\ down.st = "chunk"
        /\ UNCHANGED <<rGen, gen, queue, up>>
        BY <1>4 DEF KeepChunk, Quiet, shared
  <2>2. QED
        BY <1>1, <2>1
<1>5. CASE SetChunkSize \/ FillOrigBuf \/ ReadLatest
      BY <1>1, <1>5 DEF SetChunkSize, FillOrigBuf, ReadLatest, shared
<1>6. CASE SwapQueue
  <2>1. \A a \in queue' : a.ep = rChunk.ep
        BY <1>6 DEF SwapQueue, Merged, Actions
  <2>2. QED
        BY <1>1, <1>6, <2>1 DEF SwapQueue
<1>7. CASE RearmMustGo
      BY <1>1, <1>7 DEF RearmMustGo
<1>8. QED
      BY <1>1, <1>2, <1>3, <1>4, <1>5, <1>6, <1>7 DEF ReceiverStep

LEMMA FreshBump ==
  SmartInv /\ AloneInv /\ FreshInv /\ BumpGeneration => FreshInv'
<1> SUFFICES ASSUME SmartInv, AloneInv, FreshInv, BumpGeneration
             PROVE  FreshInv'
    OBVIOUS
<1>1. /\ Do("bump") /\ gen' = gen + 1
      /\ ~late' => ~late /\ ~held.full /\ pcR \notin Holding
      /\ UNCHANGED <<pcR, rGen, rChunk, queue, up, down, held, busy>>
      BY DEF BumpGeneration, StaleInFlight, Holding, control, receiver, serverVars
<1>2. Draining'
      BY <1>1, HasTail, DoStep DEF Do, Draining, SmartInv, LoopInv
<1>3. up.st # "req"
      BY <1>1, DoStep DEF AloneInv
<1>4. gen \in Nat /\ rGen \in Nat
      BY TypesHere, ClientAssumption
         DEF SmartInv, ClientTypeInv, ClientTypeOK, Generation, ClientAssumption
<1>5. QED
      BY <1>1, <1>2, <1>3, <1>4 DEF FreshInv, CallInv, Fresh

\* The other steps of the control loop, but for an observation sent.
LEMMA FreshSmart ==
  ASSUME SmartInv, FreshInv, SmartStep, ~BumpGeneration
  PROVE  FreshInv'
<1>1. UNCHANGED <<pcR, rGen, rChunk, gen, down, held, busy>>
      BY DEF SmartStep, PolicyStep, LookForActions, PopAction, PopFromEmpty,
             CommitLatest, ReadyToSend, CollectLeftover, SampleQueue, SendObservation,
             ClearMustGo, LoopEnds,
             Retry, RetryUnbuilt, Reinfer, StopRetrying, TrajectoryStep, WarmupStep,
             DrainQueue, ForgetOriginals, Arm, StartTrajectory, PutSentinel, Join,
             GoOn, receiver, shared, clientVars, serverVars
<1>2. late' = late
      BY DEF SmartStep, PolicyStep, LoopEnds,
             Retry, RetryUnbuilt, Reinfer, StopRetrying, TrajectoryStep, WarmupStep,
             DrainQueue, ForgetOriginals, Arm, StartTrajectory, PutSentinel, Join,
             GoOn, smartVars
<1>3. up'.st = "req" => up'.ep = gen \/ up' = up
  <2>1. CASE SendObservation
        BY <2>1 DEF SendObservation
  <2>2. CASE ClearMustGo
        BY <2>2 DEF ClearMustGo, NoSend
  <2>3. CASE ~SendObservation /\ ~ClearMustGo
        BY <2>3 DEF SmartStep, PolicyStep, LookForActions, PopAction, PopFromEmpty,
             CommitLatest, ReadyToSend, CollectLeftover, SampleQueue, LoopEnds,
             Retry, RetryUnbuilt, Reinfer, StopRetrying, TrajectoryStep, WarmupStep,
             BumpGeneration, DrainQueue, ForgetOriginals, Arm, StartTrajectory,
             PutSentinel, Join, GoOn, clientVars
  <2>4. QED
        BY <2>1, <2>2, <2>3
<1>4. Draining => Draining' \/ queue' = {}
  <2>1. CASE DrainQueue
        BY <2>1, Zenon DEF DrainQueue
  <2>2. CASE ~DrainQueue
        BY <2>2 DEF SmartStep, PolicyStep, LoopEnds, AtHead, Do, Draining,
             Retry, RetryUnbuilt, Reinfer, StopRetrying, TrajectoryStep, WarmupStep,
             ForgetOriginals, Arm, StartTrajectory, PutSentinel, Join,
             GoOn, smartVars
  <2>3. QED
        BY <2>1, <2>2
<1>5. queue' \subseteq queue
  <2>1. CASE PopAction
        BY <2>1 DEF PopAction
  <2>2. CASE DrainQueue
        BY <2>2 DEF DrainQueue
  <2>3. CASE ~PopAction /\ ~DrainQueue
        BY <2>3 DEF SmartStep, PolicyStep, LookForActions, PopFromEmpty,
             CommitLatest, ReadyToSend, CollectLeftover, SampleQueue, SendObservation,
             ClearMustGo, LoopEnds,
             Retry, RetryUnbuilt, Reinfer, StopRetrying, TrajectoryStep, WarmupStep,
             ForgetOriginals, Arm, StartTrajectory, PutSentinel, Join,
             GoOn, shared, clientVars
  <2>4. QED
        BY <2>1, <2>2, <2>3
<1>6. QED
      BY <1>1, <1>2, <1>3, <1>4, <1>5 DEF FreshInv, CallInv, Fresh

LEMMA FreshNext ==
  SmartInv /\ AloneInv /\ FreshInv /\ [Next]_vars => FreshInv'
<1> SUFFICES ASSUME SmartInv, AloneInv, FreshInv, [Next]_vars
             PROVE  FreshInv'
    OBVIOUS
<1>1. CASE SenderStep \/ UNCHANGED vars
  <2>1. UNCHANGED <<up, down, held, busy, pcR, rGen, rChunk, gen, queue, todo, late>>
        BY <1>1 DEF SenderStep, vars, clientVars, receiver, shared, serverVars, smartVars
  <2>2. QED
        BY <2>1 DEF FreshInv, CallInv, Fresh, Holding, Draining
<1>2. QED
      BY <1>1, FreshService, FreshReceive, FreshBump, FreshSmart DEF Next, Terminated

\* Nothing inferred before a forced re-inference is executed after it, unless
\* the bump of the generation found an observation waiting at the service or a
\* chunk past the receiver's check: for any retries, trajectories and warmups.
THEOREM NothingStale == Spec => FreshAfterRetry
<1>1. SmartInv /\ FreshInv /\ [Next]_vars
        => [Popping /\ ~late => \A a \in queue \ queue' : a.ep = gen]_vars
      BY DEF SmartInv, LoopInv, FreshInv, Fresh, Draining, Popping
<1>2. QED
      BY <1>1, SmartInit, SmartNext, AloneInit, AloneNext, FreshInit, FreshNext, PTL
         DEF Spec, FreshAfterRetry
=============================================================================
