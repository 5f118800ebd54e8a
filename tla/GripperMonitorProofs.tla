------------------------ MODULE GripperMonitorProofs ------------------------
(*****************************************************************************)
(* Theorems about GripperMonitor, for every set of positions and loads,      *)
(* every threshold and every length of the debounces and of the ladder.      *)
(*****************************************************************************)
EXTENDS GripperMonitor, TLAPS

-----------------------------------------------------------------------------
(*****************************************************************************)
(* Types.                                                                    *)
(*****************************************************************************)

\* One more, below a cap, is within the cap.
LEMMA CappedType ==
  ASSUME NEW top \in Nat, NEW n \in 0 .. top
  PROVE  Capped(n, top) \in 0 .. top /\ Capped(n, top) >= n
  BY DEF Capped

\* The values the counters of the monitor are given.
LEMMA Counters ==
  /\ 0 \in Debounce /\ 0 \in Grasping
  /\ \A n \in Debounce : n + 1 < ConfirmN => n + 1 \in Debounce
  /\ \A n \in Grasping : Capped(n, GraspConfirmN) \in Grasping
  BY GripperAssumption DEF GripperAssumption, Debounce, Grasping, Capped

\* A fresh monitor is a monitor.
LEMMA NewMonitorType == NewMonitor \in Monitor
  <1>1. 0 \in Positions /\ 0 \in Strengths
    BY GripperAssumption DEF GripperAssumption
  <1> QED BY <1>1, Counters DEF NewMonitor, Monitor, Phase

\* What update records of a reading is a monitor again.
LEMMA SensedType ==
  ASSUME m \in Monitor, NEW fb \in Feedback
  PROVE  Sensed(fb) \in Monitor
  <1> DEFINE inGrasp == m.inGrasp \/ m.cmdOpen
             peak == IF m.peak < fb.load THEN fb.load ELSE m.peak
             flip == m.flip \/ (~m.positive /\ ~fb.negative)
             positive == ~fb.negative
             everOpen == m.everOpen \/ fb.pos >= PosOpen
  <1>1. fb.load \in Strengths
    BY DEF Feedback
  <1>2. peak \in Strengths
    BY <1>1 DEF Monitor
  <1>3. /\ inGrasp \in BOOLEAN /\ flip \in BOOLEAN
        /\ positive \in BOOLEAN /\ everOpen \in BOOLEAN
    OBVIOUS
  <1>4. Sensed(fb) = [m EXCEPT !.inGrasp = inGrasp, !.peak = peak,
                               !.flip = flip, !.positive = positive,
                               !.everOpen = everOpen]
    BY Zenon DEF Sensed
  <1> HIDE DEF inGrasp, peak, flip, positive, everOpen
  <1> QED BY <1>2, <1>3, <1>4, ZenonT(30) DEF Monitor

\* A counted failure leads to a retry or to a stop.
LEMMA FailType ==
  ASSUME TypeOK, NEW kind, Fail(kind)
  PROVE  /\ decision' \in {"continue", "task_done", "stop"} \cup Retry
         /\ failures' \in Nat /\ lifted' \in BOOLEAN /\ rewound' \in BOOLEAN
  <1>1. Rung(kind) \in {"continue", "task_done", "stop"} \cup Retry
    BY Zenon DEF Rung, Retry
  <1> QED BY <1>1 DEF Fail, TypeOK

\* A step without a failure keeps the ladder as it is.
LEMMA ContinueType ==
  ASSUME TypeOK, Continue
  PROVE  /\ decision' \in {"continue", "task_done", "stop"} \cup Retry
         /\ failures' \in Nat /\ lifted' \in BOOLEAN /\ rewound' \in BOOLEAN
  BY DEF Continue, ladder, TypeOK

\* A reading keeps the types of the variables.
LEMMA ReadingType ==
  ASSUME TypeOK, NEW fb \in Feedback,
         \/ Slip(fb) \/ EmptyAfterFlip(fb) \/ EmptyByLoad(fb)
         \/ GraspForms(fb) \/ NothingInTheWay(fb)
  PROVE  TypeOK'
  <1> DEFINE s == Sensed(fb)
  <1>1. s \in Monitor
    BY SensedType DEF TypeOK
  <1>2. Reads(fb)
    BY DEF Slip, EmptyAfterFlip, EmptyByLoad, GraspForms, NothingInTheWay
  <1>3. /\ pc' = "handle" /\ {empties', weaks'} \subseteq 0 .. ConfirmN
        /\ homeCount' = homeCount /\ homeRun' = homeRun
    BY <1>2, CappedType, GripperAssumption DEF Reads, TypeOK, GripperAssumption
  <1>4. fb.pos \in Positions \cup {NoPos}
    BY DEF Feedback
  <1>5. 0 \in Strengths
    BY GripperAssumption DEF GripperAssumption
  <1>6. ASSUME m' \in Monitor, blocked' \in Grasping,
               /\ decision' \in {"continue", "task_done", "stop"} \cup Retry
               /\ failures' \in Nat /\ lifted' \in BOOLEAN
               /\ rewound' \in BOOLEAN
        PROVE  TypeOK'
    BY <1>3, <1>6 DEF TypeOK
  <1> HIDE DEF s
  <1>7. CASE Slip(fb)
    <2>1. CASE s.anomaly + 1 < ConfirmN
      <3>1. m' = [s EXCEPT !.anomaly = s.anomaly + 1] /\ Continue
        BY <1>7, <2>1 DEF Slip, s
      <3>2. s.anomaly + 1 \in Debounce
        BY <1>1, <2>1, Counters DEF Monitor
      <3>3. m' \in Monitor
        BY <1>1, <3>1, <3>2 DEF Monitor
      <3> QED BY <1>6, <1>7, <3>1, <3>3, ContinueType DEF Slip, TypeOK
    <2>2. CASE ~(s.anomaly + 1 < ConfirmN)
      <3>1. m' = [s EXCEPT !.hold = FALSE, !.peak = 0, !.anomaly = 0]
            /\ Fail("slip")
        BY <1>7, <2>2 DEF Slip, s
      <3>2. m' \in Monitor
        BY <1>1, <1>5, <3>1, Counters DEF Monitor
      <3> QED BY <1>6, <1>7, <3>1, <3>2, FailType DEF Slip, TypeOK
    <2> QED BY <2>1, <2>2
  <1>8. CASE EmptyAfterFlip(fb)
    <2>1. CASE s.flipSteps + 1 < ConfirmN
      <3>1. m' = [s EXCEPT !.flipSteps = s.flipSteps + 1] /\ Continue
        BY <1>8, <2>1 DEF EmptyAfterFlip, s
      <3>2. s.flipSteps + 1 \in Debounce
        BY <1>1, <2>1, Counters DEF Monitor
      <3>3. m' \in Monitor
        BY <1>1, <3>1, <3>2 DEF Monitor
      <3> QED
        BY <1>6, <1>8, <3>1, <3>3, ContinueType DEF EmptyAfterFlip, TypeOK
    <2>2. CASE ~(s.flipSteps + 1 < ConfirmN)
      <3>1. m' = [s EXCEPT !.flip = FALSE, !.flipSteps = 0, !.anomaly = 0]
            /\ Fail("empty")
        BY <1>8, <2>2 DEF EmptyAfterFlip, s
      <3>2. m' \in Monitor
        BY <1>1, <3>1, Counters DEF Monitor
      <3> QED BY <1>6, <1>8, <3>1, <3>2, FailType DEF EmptyAfterFlip, TypeOK
    <2> QED BY <2>1, <2>2
  <1>9. CASE EmptyByLoad(fb)
    <2> DEFINE t == [s EXCEPT !.flipSteps = 0]
    <2>1. t \in Monitor
      BY <1>1, Counters DEF Monitor
    <2>2. \/ m' = t /\ Continue
          \/ /\ t.anomaly + 1 < ConfirmN
             /\ m' = [t EXCEPT !.anomaly = t.anomaly + 1] /\ Continue
          \/ m' = [t EXCEPT !.anomaly = 0] /\ Fail("empty")
      BY <1>9, Zenon DEF EmptyByLoad, s
    <2> HIDE DEF t
    <2>3. t.anomaly + 1 < ConfirmN => t.anomaly + 1 \in Debounce
      BY <2>1, Counters DEF Monitor
    <2>4. m' \in Monitor
      BY <2>1, <2>2, <2>3, Counters DEF Monitor
    <2> QED
      BY <1>6, <1>9, <2>2, <2>4, FailType, ContinueType DEF EmptyByLoad, TypeOK
  <1>10. CASE GraspForms(fb)
    <2> DEFINE confirmed == s.success + 1 >= GraspConfirmN
               success == Capped(s.success, GraspConfirmN)
               hold == s.hold \/ confirmed
               flip == s.flip /\ ~confirmed
    <2>1. success \in Grasping
      BY <1>1, Counters DEF Monitor
    <2>2. hold \in BOOLEAN /\ flip \in BOOLEAN
      OBVIOUS
    <2>3. m' = [s EXCEPT !.success = success, !.anomaly = 0,
                         !.prevPos = fb.pos, !.hold = hold, !.flip = flip]
      BY <1>10, Zenon DEF GraspForms, s
    <2>4. /\ decision' = "continue" /\ failures' \in Nat
          /\ lifted' \in BOOLEAN /\ rewound' \in BOOLEAN
      BY <1>10 DEF GraspForms, TypeOK
    <2>5. blocked' \in Grasping
      BY <1>10, Counters DEF GraspForms, TypeOK
    <2> HIDE DEF success, hold, flip
    <2>6. m' \in Monitor
      BY <1>1, <1>4, <2>1, <2>2, <2>3, Counters DEF Monitor
    <2> QED BY <1>6, <2>4, <2>5, <2>6
  <1>11. CASE NothingInTheWay(fb)
    <2>1. m' = [s EXCEPT !.success = 0, !.anomaly = 0, !.prevPos = fb.pos]
          /\ Continue
      BY <1>11 DEF NothingInTheWay, s
    <2>2. m' \in Monitor
      BY <1>1, <1>4, <2>1, Counters DEF Monitor
    <2> QED
      BY <1>6, <1>11, <2>1, <2>2, ContinueType DEF NothingInTheWay, TypeOK
  <1> QED BY <1>7, <1>8, <1>9, <1>10, <1>11

\* Every step keeps the types of the variables.
LEMMA TypeInductive ==
  TypeOK /\ [Next]_vars => TypeOK'
  <1> SUFFICES ASSUME TypeOK, [Next]_vars PROVE TypeOK'
    OBVIOUS
  <1>0. ConfirmN \in Nat \ {0} /\ HomeConfirm \in Nat \ {0}
    BY GripperAssumption DEF GripperAssumption
  <1>1. CASE ScanQueue
    <2> PICK w \in Window :
          m' = [m EXCEPT !.phase = IntendedPhase(w),
                         !.cmdPos = w.first,
                         !.cmdOpen = @ \/ HasOpen(w),
                         !.releasing = \E p \in Commanded(w) : p > PosEmpty]
      BY <1>1 DEF ScanQueue
    <2> DEFINE cmdOpen == m.cmdOpen \/ HasOpen(w)
               releasing == \E p \in Commanded(w) : p > PosEmpty
    <2>1. m' = [m EXCEPT !.phase = IntendedPhase(w), !.cmdPos = w.first,
                         !.cmdOpen = cmdOpen, !.releasing = releasing]
      OBVIOUS
    <2>2. IntendedPhase(w) \in Phase
      BY Zenon DEF IntendedPhase, Phase
    <2>3. cmdOpen \in BOOLEAN /\ releasing \in BOOLEAN /\ w.first \in Positions
      BY DEF Window
    <2> HIDE DEF cmdOpen, releasing
    <2>4. m' \in Monitor
      BY <2>1, <2>2, <2>3, ZenonT(30) DEF TypeOK, Monitor
    <2> QED BY <1>1, <2>4 DEF ScanQueue, ladder, TypeOK
  <1>2. CASE ScanEmptyQueue
    BY <1>2 DEF ScanEmptyQueue, ladder, TypeOK
  <1>3. CASE Update
    <2>1. CASE LeaveGrip
      <3> DEFINE inGrasp == m.inGrasp /\ ~m.hold
                 placed == m.placed \/ m.hold
             left == [m EXCEPT !.inGrasp = inGrasp, !.placed = placed,
                        !.hold = FALSE, !.peak = 0, !.anomaly = 0]
      <3>1. m' = [left EXCEPT !.success = 0, !.flip = FALSE, !.flipSteps = 0,
                              !.everOpen = FALSE, !.prevPos = NoPos]
        BY <2>1, Zenon DEF LeaveGrip
      <3>2. inGrasp \in BOOLEAN /\ placed \in BOOLEAN
        OBVIOUS
      <3>3. /\ 0 \in Strengths /\ 0 \in Debounce /\ 0 \in Grasping
            /\ NoPos \in Positions \cup {NoPos}
        BY GripperAssumption, Counters DEF GripperAssumption
      <3> HIDE DEF inGrasp, placed
      <3>4. left \in Monitor
        BY <3>2, <3>3 DEF TypeOK, Monitor
      <3> HIDE DEF left
      <3>5. m' \in Monitor
        BY <3>1, <3>3, <3>4 DEF Monitor
      <3> QED BY <1>0, <2>1, <3>5 DEF LeaveGrip, Continue, ladder, TypeOK
    <2>2. CASE GripAfterPlace
      BY <2>2 DEF GripAfterPlace, ladder, TypeOK
    <2> QED BY <1>3, <2>1, <2>2, ReadingType DEF Update
  <1>4. CASE Handle
    <2>1. CASE Proceed
      BY <1>0, <2>1 DEF Proceed, ladder, TypeOK
    <2>2. CASE NotAtHome
      BY <1>0, <2>2 DEF NotAtHome, ladder, TypeOK
    <2>3. CASE AtHome
      <3>1. homeRun' \in 0 .. HomeConfirm
        BY <1>0, <2>3, CappedType DEF AtHome, TypeOK
      <3> QED BY <1>0, <2>3, <3>1 DEF AtHome, ladder, TypeOK
    <2>4. CASE TaskDone
      <3>1. homeRun' \in 0 .. HomeConfirm
        BY <1>0, <2>4, CappedType DEF TaskDone, TypeOK
      <3>2. m' \in Monitor /\ blocked' \in Grasping
        BY <2>4, NewMonitorType, Counters
        DEF TaskDone, ForceReinference, ResetMonitor
      <3>3. homeCount' \in 0 .. HomeConfirm - 1 /\ {empties', weaks'} \subseteq 0 .. ConfirmN
        BY <1>0, <2>4 DEF TaskDone, ForceReinference
      <3> QED
        BY <2>4, <3>1, <3>2, <3>3 DEF TaskDone, Rearm, TypeOK
    <2>5. CASE ReinferHere \/ ReturnHome \/ RecoverOnTheSpot \/ LiftOrRewind
      BY <1>0, <2>5, NewMonitorType, Counters
      DEF ReinferHere, ReturnHome, RecoverOnTheSpot, LiftOrRewind, Retrying,
          ForceReinference, ResetMonitor, ladder, TypeOK
    <2>6. CASE Stop
      BY <2>6 DEF Stop, ladder, TypeOK
    <2>7. CASE HomeReached
      BY <2>7 DEF HomeReached, Rearm, TypeOK
    <2>8. CASE PoseReached
      BY <2>8 DEF PoseReached, ladder, TypeOK
    <2> QED BY <1>4, <2>1, <2>2, <2>3, <2>4, <2>5, <2>6, <2>7, <2>8 DEF Handle
  <1>5. CASE UNCHANGED vars
    BY <1>5 DEF vars, ladder, TypeOK
  <1> QED BY <1>1, <1>2, <1>3, <1>4, <1>5 DEF Next

\* The initial values have their types.
LEMMA InitType == Init => TypeOK
  <1> SUFFICES ASSUME Init PROVE TypeOK
    OBVIOUS
  <1>1. m \in Monitor /\ blocked \in Grasping
    BY NewMonitorType, Counters DEF Init
  <1>2. /\ homeCount \in 0 .. HomeConfirm - 1
        /\ {empties, weaks} \subseteq 0 .. ConfirmN
        /\ homeRun \in 0 .. HomeConfirm
    BY GripperAssumption DEF Init, GripperAssumption
  <1> QED BY <1>1, <1>2 DEF Init, TypeOK

\* The variables keep their types: in particular the debounce counters stay
\* below their thresholds.
THEOREM TypeCorrect == Spec => []TypeOK
  BY InitType, TypeInductive, PTL DEF Spec

-----------------------------------------------------------------------------
(*****************************************************************************)
(* The ladder of retries.                                                    *)
(*****************************************************************************)
Rungs == (IF lifted THEN 1 ELSE 0) + (IF rewound THEN 1 ELSE 0)

GivesUp == pc = "stopped" \/ (pc = "handle" /\ decision = "stop")

\* Only a lift and a rewind come before STOP, each once: while the loop goes
\* on, every other failure is within MaxTotal.
LadderInv ==
  /\ lifted => LiftEnabled
  /\ rewound => RewindEnabled
  /\ failures <= MaxTotal + Rungs + 1
  /\ GivesUp \/ failures <= MaxTotal + Rungs

\* A failure climbs one rung, starts a recovery within MaxTotal, or stops.
LEMMA FailClimbs ==
  ASSUME TypeOK, LadderInv, pc = "update", pc' = "handle", NEW kind, Fail(kind)
  PROVE  LadderInv'
  <1>1. MaxTotal \in Nat /\ failures \in Nat
    BY GripperAssumption DEF GripperAssumption, TypeOK
  <1>2. lifted \in BOOLEAN /\ rewound \in BOOLEAN
    BY DEF TypeOK
  <1>3. failures <= MaxTotal + Rungs
    BY DEF LadderInv, GivesUp
  <1>4. \/ Rung(kind) = "lift" /\ LiftEnabled /\ ~lifted
        \/ Rung(kind) = "rewind" /\ RewindEnabled /\ ~rewound
        \/ Rung(kind) = "stop" /\ failures + 1 > MaxTotal
        \/ Rung(kind) \in {"recovery", "reinfer"} /\ ~(failures + 1 > MaxTotal)
    BY Zenon DEF Rung
  <1>5. /\ failures' = failures + 1 /\ decision' = Rung(kind)
        /\ lifted' = (lifted \/ Rung(kind) = "lift")
        /\ rewound' = (rewound \/ Rung(kind) = "rewind")
    BY DEF Fail
  <1>6. (lifted => LiftEnabled) /\ (rewound => RewindEnabled)
    BY DEF LadderInv
  <1>7. CASE Rung(kind) = "lift" /\ LiftEnabled /\ ~lifted
    <2>1. lifted' = TRUE /\ rewound' = rewound
      BY <1>2, <1>5, <1>7
    <2>2. Rungs' = Rungs + 1
      BY <1>2, <1>7, <2>1 DEF Rungs
    <2>3. Rungs \in Nat
      BY <1>2 DEF Rungs
    <2> QED
      BY <1>1, <1>3, <1>5, <1>6, <1>7, <2>1, <2>2, <2>3 DEF LadderInv
  <1>8. CASE Rung(kind) = "rewind" /\ RewindEnabled /\ ~rewound
    <2>1. lifted' = lifted /\ rewound' = TRUE
      BY <1>2, <1>5, <1>8
    <2>2. Rungs' = Rungs + 1
      BY <1>2, <1>8, <2>1 DEF Rungs
    <2>3. Rungs \in Nat
      BY <1>2 DEF Rungs
    <2> QED
      BY <1>1, <1>3, <1>5, <1>6, <1>8, <2>1, <2>2, <2>3 DEF LadderInv
  <1>9. CASE Rung(kind) \in {"stop", "recovery", "reinfer"}
    <2>1. lifted' = lifted /\ rewound' = rewound
      BY <1>2, <1>5, <1>9
    <2>2. Rungs' = Rungs /\ Rungs \in Nat
      BY <1>2, <2>1 DEF Rungs
    <2>3. GivesUp' \/ failures' <= MaxTotal + Rungs'
      BY <1>1, <1>4, <1>5, <1>9, <2>2 DEF GivesUp
    <2> QED
      BY <1>1, <1>3, <1>5, <1>6, <2>1, <2>2, <2>3 DEF LadderInv
  <1> QED BY <1>4, <1>7, <1>8, <1>9

\* A step that goes on and counts no failure: it keeps the ladder or re-arms
\* it.
LEMMA LadderKept ==
  ASSUME TypeOK, LadderInv, ~GivesUp, ~GivesUp',
         \/ UNCHANGED ladder
         \/ failures' = 0 /\ UNCHANGED <<lifted, rewound>>
         \/ Rearm
  PROVE  LadderInv'
  <1>1. MaxTotal \in Nat /\ failures \in Nat
    BY GripperAssumption DEF GripperAssumption, TypeOK
  <1>2. lifted \in BOOLEAN /\ rewound \in BOOLEAN
    BY DEF TypeOK
  <1> QED BY <1>1, <1>2 DEF LadderInv, Rungs, Rearm, ladder

\* Every step keeps the invariant of the ladder.
LEMMA LadderInductive ==
  TypeOK /\ LadderInv /\ [Next]_vars => LadderInv'
  <1> SUFFICES ASSUME TypeOK, LadderInv, [Next]_vars PROVE LadderInv'
    OBVIOUS
  <1>1. CASE ScanQueue \/ ScanEmptyQueue
    BY <1>1, LadderKept DEF ScanQueue, ScanEmptyQueue, GivesUp
  <1>2. CASE Update
    <2>1. CASE LeaveGrip \/ GripAfterPlace
      BY <2>1, LadderKept DEF LeaveGrip, GripAfterPlace, Continue, GivesUp
    <2>2. ASSUME NEW fb \in Feedback,
                 \/ Slip(fb) \/ EmptyAfterFlip(fb) \/ EmptyByLoad(fb)
                 \/ GraspForms(fb) \/ NothingInTheWay(fb)
          PROVE  LadderInv'
      <3>1. pc = "update" /\ pc' = "handle"
        BY <2>2 DEF Slip, EmptyAfterFlip, EmptyByLoad, GraspForms,
                    NothingInTheWay, Reads
      <3>2. \/ Continue
            \/ Fail("slip") \/ Fail("empty")
            \/ GraspForms(fb)
        BY <2>2, Zenon DEF Slip, EmptyAfterFlip, EmptyByLoad, NothingInTheWay
      <3>3. CASE Continue
        BY <3>1, <3>3, LadderKept DEF Continue, GivesUp
      <3>4. CASE Fail("slip") \/ Fail("empty")
        BY <3>1, <3>4, FailClimbs
      <3>5. CASE GraspForms(fb)
        <4>1. decision' = "continue" /\ UNCHANGED <<lifted, rewound>>
              /\ (failures' = 0 \/ failures' = failures)
          BY <3>5 DEF GraspForms
        <4> QED BY <3>1, <4>1, LadderKept DEF GivesUp, ladder
      <3> QED BY <3>2, <3>3, <3>4, <3>5
    <2> QED BY <1>2, <2>1, <2>2 DEF Update
  <1>3. CASE Handle
    <2>1. CASE Proceed \/ NotAtHome \/ AtHome
      BY <2>1, LadderKept
      DEF Proceed, NotAtHome, AtHome, PollsHome, GivesUp
    <2>2. CASE TaskDone
      BY <2>2, LadderKept DEF TaskDone, PollsHome, GivesUp
    <2>3. CASE ReinferHere \/ ReturnHome \/ RecoverOnTheSpot \/ LiftOrRewind
      BY <2>3, LadderKept
      DEF ReinferHere, ReturnHome, RecoverOnTheSpot, LiftOrRewind, Retrying,
          GivesUp
    <2>4. CASE Stop
      BY <2>4 DEF Stop, LadderInv, Rungs, GivesUp, ladder
    <2>5. CASE HomeReached \/ PoseReached
      BY <2>5, LadderKept DEF HomeReached, PoseReached, GivesUp
    <2> QED BY <1>3, <2>1, <2>2, <2>3, <2>4, <2>5 DEF Handle
  <1>4. CASE UNCHANGED vars
    BY <1>4 DEF vars, ladder, LadderInv, Rungs, GivesUp
  <1> QED BY <1>1, <1>2, <1>3, <1>4 DEF Next

\* However grasps and recoveries alternate, the count of failures never
\* passes MaxTotal by more than the rungs of the ladder that precede STOP.
THEOREM RetriesCorrect == Spec => []RetriesBounded
  <1>1. Init => TypeOK /\ LadderInv
    <2>1. Init => TypeOK
      BY InitType
    <2>2. Init => LadderInv
      BY GripperAssumption DEF Init, LadderInv, Rungs, GripperAssumption
    <2> QED BY <2>1, <2>2
  <1>2. TypeOK /\ LadderInv /\ [Next]_vars => (TypeOK /\ LadderInv)'
    BY TypeInductive, LadderInductive
  <1>3. TypeOK /\ LadderInv => RetriesBounded
    <2> SUFFICES ASSUME TypeOK, LadderInv PROVE RetriesBounded
      OBVIOUS
    <2>1. /\ MaxTotal \in Nat /\ failures \in Nat
          /\ LiftEnabled \in BOOLEAN /\ RewindEnabled \in BOOLEAN
          /\ lifted \in BOOLEAN /\ rewound \in BOOLEAN
      BY GripperAssumption DEF GripperAssumption, TypeOK
    <2> QED BY <2>1 DEF LadderInv, Rungs, RetriesBounded
  <1> QED BY <1>1, <1>2, <1>3, PTL DEF Spec

-----------------------------------------------------------------------------
(*****************************************************************************)
(* A task that is counted as done.                                           *)
(*****************************************************************************)

\* Whatever the monitor believes of an object rests on readings since the
\* last reset.
GraspInv ==
  /\ m.success <= blocked
  /\ m.hold \/ m.placed => blocked = GraspConfirmN
  /\ pc = "handle" /\ decision = "task_done" => m.placed

\* Recording a reading leaves what is believed of an object alone.
LEMMA SensedKeeps ==
  ASSUME m \in Monitor, NEW fb \in Feedback
  PROVE  /\ Sensed(fb).hold = m.hold /\ Sensed(fb).placed = m.placed
         /\ Sensed(fb).success = m.success
  BY DEF Sensed, Monitor

\* A reading keeps the invariant: only GraspForms raises success or sets
\* hold, and it counts the reading.
LEMMA ReadingKeepsGrasp ==
  ASSUME TypeOK, GraspInv, NEW fb \in Feedback,
         \/ Slip(fb) \/ EmptyAfterFlip(fb) \/ EmptyByLoad(fb)
         \/ GraspForms(fb) \/ NothingInTheWay(fb)
  PROVE  GraspInv'
  <1> DEFINE s == Sensed(fb)
  <1>1. s \in Monitor /\ s.hold = m.hold /\ s.placed = m.placed
        /\ s.success = m.success
    BY SensedType, SensedKeeps DEF TypeOK
  <1>2. blocked \in Nat /\ s.success \in Nat /\ GraspConfirmN \in Nat \ {0}
        /\ blocked <= GraspConfirmN
    BY <1>1, GripperAssumption
    DEF TypeOK, Monitor, Grasping, GripperAssumption
  <1>3. decision' # "task_done"
    <2>1. Continue \/ Fail("slip") \/ Fail("empty") \/ decision' = "continue"
      BY Zenon DEF Slip, EmptyAfterFlip, EmptyByLoad, GraspForms,
                   NothingInTheWay
    <2>2. \A kind : Rung(kind) # "task_done"
      BY Zenon DEF Rung
    <2> QED BY <2>1, <2>2 DEF Continue, Fail
  <1> HIDE DEF s
  <1>4. CASE Slip(fb) \/ EmptyAfterFlip(fb) \/ EmptyByLoad(fb)
    <2>1. blocked' = blocked
      BY <1>4 DEF Slip, EmptyAfterFlip, EmptyByLoad
    <2>2. CASE Slip(fb)
      <3>1. \/ m' = [s EXCEPT !.anomaly = s.anomaly + 1]
            \/ m' = [s EXCEPT !.hold = FALSE, !.peak = 0, !.anomaly = 0]
        BY <2>2, Zenon DEF Slip, s
      <3>2. (m'.hold => s.hold) /\ m'.placed = s.placed
            /\ m'.success = s.success
        BY <1>1, <3>1 DEF Monitor
      <3> QED BY <1>1, <1>3, <2>1, <3>2 DEF GraspInv
    <2>3. CASE EmptyAfterFlip(fb)
      <3>1. \/ m' = [s EXCEPT !.flipSteps = s.flipSteps + 1]
            \/ m' = [s EXCEPT !.flip = FALSE, !.flipSteps = 0, !.anomaly = 0]
        BY <2>3, Zenon DEF EmptyAfterFlip, s
      <3>2. m'.hold = s.hold /\ m'.placed = s.placed
            /\ m'.success = s.success
        BY <1>1, <3>1 DEF Monitor
      <3> QED BY <1>1, <1>3, <2>1, <3>2 DEF GraspInv
    <2>4. CASE EmptyByLoad(fb)
      <3> DEFINE t == [s EXCEPT !.flipSteps = 0]
      <3>1. \/ m' = t
            \/ m' = [t EXCEPT !.anomaly = t.anomaly + 1]
            \/ m' = [t EXCEPT !.anomaly = 0]
        BY <2>4, Zenon DEF EmptyByLoad, s
      <3>2. t \in Monitor /\ t.hold = s.hold /\ t.placed = s.placed
            /\ t.success = s.success
        BY <1>1, Counters DEF Monitor
      <3> HIDE DEF t
      <3>3. m'.hold = s.hold /\ m'.placed = s.placed
            /\ m'.success = s.success
        BY <3>1, <3>2 DEF Monitor
      <3> QED BY <1>1, <1>3, <2>1, <3>3 DEF GraspInv
    <2> QED BY <1>4, <2>2, <2>3, <2>4
  <1>5. CASE GraspForms(fb)
    <2> DEFINE confirmed == s.success + 1 >= GraspConfirmN
    <2>1. /\ m'.success = Capped(s.success, GraspConfirmN)
          /\ m'.hold = (s.hold \/ confirmed) /\ m'.placed = s.placed
      BY <1>1, <1>5 DEF GraspForms, Monitor, s
    <2>2. blocked' = Capped(blocked, GraspConfirmN)
      BY <1>5 DEF GraspForms
    <2>3. /\ s.success <= blocked
          /\ s.hold \/ s.placed => blocked = GraspConfirmN
      BY <1>1 DEF GraspInv
    <2>4. m'.success <= blocked'
      BY <1>2, <2>1, <2>2, <2>3 DEF Capped
    <2>5. m'.hold \/ m'.placed => blocked' = GraspConfirmN
      <3>1. CASE s.hold \/ s.placed
        BY <1>2, <2>2, <2>3, <3>1 DEF Capped
      <3>2. CASE confirmed
        BY <1>2, <2>2, <2>3, <3>2 DEF Capped
      <3> QED BY <2>1, <3>1, <3>2
    <2> QED BY <1>3, <2>4, <2>5 DEF GraspInv
  <1>6. CASE NothingInTheWay(fb)
    <2>1. m'.success = 0 /\ m'.hold = s.hold /\ m'.placed = s.placed
          /\ blocked' = blocked
      BY <1>1, <1>6 DEF NothingInTheWay, Monitor, s
    <2> QED BY <1>1, <1>2, <1>3, <2>1 DEF GraspInv
  <1> QED BY <1>4, <1>5, <1>6

\* Every step keeps the invariant of the grasp.
LEMMA GraspInductive ==
  TypeOK /\ GraspInv /\ [Next]_vars => GraspInv'
  <1> SUFFICES ASSUME TypeOK, GraspInv, [Next]_vars PROVE GraspInv'
    OBVIOUS
  <1>1. m \in Monitor
    BY DEF TypeOK
  <1>2. CASE ScanQueue
    <2>1. m'.hold = m.hold /\ m'.placed = m.placed /\ m'.success = m.success
      BY <1>1, <1>2 DEF ScanQueue, Monitor
    <2> QED BY <1>2, <2>1 DEF ScanQueue, GraspInv
  <1>3. CASE ScanEmptyQueue
    BY <1>3 DEF ScanEmptyQueue, GraspInv
  <1>4. CASE Update
    <2>1. CASE LeaveGrip
      <3>1. m'.hold = FALSE /\ m'.placed = (m.placed \/ m.hold)
            /\ m'.success = 0
        BY <1>1, <2>1 DEF LeaveGrip, Monitor
      <3>2. blocked \in Nat /\ blocked' = blocked /\ decision' = "continue"
        BY <2>1, GripperAssumption
        DEF LeaveGrip, Continue, TypeOK, Grasping, GripperAssumption
      <3>3. m'.success <= blocked'
        BY <3>1, <3>2
      <3>4. m'.hold \/ m'.placed => blocked' = GraspConfirmN
        BY <3>1, <3>2, Zenon DEF GraspInv
      <3> QED BY <3>2, <3>3, <3>4 DEF GraspInv
    <2>2. CASE GripAfterPlace
      BY <2>2 DEF GripAfterPlace, GraspInv
    <2> QED BY <1>4, <2>1, <2>2, ReadingKeepsGrasp DEF Update
  <1>5. CASE Handle
    <2>1. CASE \/ TaskDone
               \/ ReinferHere \/ ReturnHome \/ RecoverOnTheSpot \/ LiftOrRewind
      <3>1. m' = NewMonitor /\ blocked' = 0 /\ pc' # "handle"
        BY <2>1 DEF TaskDone, ReinferHere, ReturnHome, RecoverOnTheSpot,
                    LiftOrRewind, Retrying, ForceReinference, ResetMonitor
      <3> QED BY <3>1 DEF NewMonitor, GraspInv
    <2>2. CASE \/ Proceed \/ NotAtHome \/ AtHome \/ Stop
               \/ HomeReached \/ PoseReached
      BY <2>2 DEF Proceed, NotAtHome, AtHome, Stop, HomeReached, PoseReached,
                  GraspInv
    <2> QED BY <1>5, <2>1, <2>2 DEF Handle
  <1>6. CASE UNCHANGED vars
    BY <1>6 DEF vars, GraspInv
  <1> QED BY <1>2, <1>3, <1>4, <1>5, <1>6 DEF Next

\* No task is counted as done on a grasp that was not confirmed since the
\* last re-inference.
THEOREM DoneOnlyAfterGrasp == Spec => DoneAfterGrasp
  <1>1. Init => TypeOK /\ GraspInv
    <2>1. Init => TypeOK
      BY InitType
    <2>2. Init => GraspInv
      BY DEF Init, GraspInv, NewMonitor
    <2> QED BY <2>1, <2>2
  <1>2. TypeOK /\ GraspInv /\ [Next]_vars => (TypeOK /\ GraspInv)'
    BY TypeInductive, GraspInductive
  <1>3. TypeOK /\ GraspInv => (TaskDone => blocked = GraspConfirmN)
    BY DEF TaskDone, PollsHome, GraspInv
  <1> QED BY <1>1, <1>2, <1>3, PTL DEF Spec, DoneAfterGrasp

-----------------------------------------------------------------------------
(*****************************************************************************)
(* The counts that tell a failed grasp.                                      *)
(*****************************************************************************)

\* The monitor never counts more readings than there were.
CountInv == m.flipSteps <= empties /\ m.anomaly <= weaks

\* The numbers of the invariant, for the solver.
LEMMA CountTypes ==
  ASSUME TypeOK, CountInv
  PROVE  /\ m \in Monitor /\ ConfirmN \in Nat \ {0}
         /\ m.flipSteps \in 0 .. ConfirmN - 1 /\ m.anomaly \in 0 .. ConfirmN - 1
         /\ empties \in 0 .. ConfirmN /\ weaks \in 0 .. ConfirmN
         /\ m.flipSteps <= empties /\ m.anomaly <= weaks
  BY GripperAssumption
  DEF GripperAssumption, TypeOK, Monitor, Debounce, CountInv

\* What a reading adds to the histories, and what it leaves of the counts before
\* it is judged.
LEMMA ReadingCounts ==
  ASSUME TypeOK, CountInv, NEW fb \in Feedback, Reads(fb)
  PROVE  /\ Sensed(fb) \in Monitor
         /\ Sensed(fb).flipSteps = m.flipSteps /\ Sensed(fb).anomaly = m.anomaly
         /\ empties' \in Nat /\ empties <= empties'
         /\ weaks' \in Nat /\ weaks <= weaks'
         /\ fb.pos <= PosEmpty => empties' = Capped(empties, ConfirmN)
         /\ Weak(Sensed(fb), fb) => weaks' = Capped(weaks, ConfirmN)
  <1>1. Sensed(fb) \in Monitor
    BY SensedType DEF TypeOK
  <1>2. Sensed(fb).flipSteps = m.flipSteps /\ Sensed(fb).anomaly = m.anomaly
    BY DEF Sensed, TypeOK, Monitor
  <1>3. /\ empties' = Capped(empties, ConfirmN) \/ empties' = empties
        /\ weaks' = Capped(weaks, ConfirmN) \/ weaks' = weaks
        /\ fb.pos <= PosEmpty => empties' = Capped(empties, ConfirmN)
        /\ Weak(Sensed(fb), fb) => weaks' = Capped(weaks, ConfirmN)
    BY Zenon DEF Reads
  <1> QED BY <1>1, <1>2, <1>3, CountTypes DEF Capped

\* A count that goes up by a reading of its kind stays within the history.
LEMMA CountedOnce ==
  ASSUME NEW count \in 0 .. ConfirmN - 1, NEW seen \in 0 .. ConfirmN,
         ConfirmN \in Nat, count <= seen
  PROVE  /\ count + 1 <= Capped(seen, ConfirmN)
         /\ ~(count + 1 < ConfirmN) => Capped(seen, ConfirmN) = ConfirmN
  BY DEF Capped

\* A reading raises a count only if it is one of those the count is of.
LEMMA ReadingKeepsCount ==
  ASSUME TypeOK, CountInv, NEW fb \in Feedback,
         \/ Slip(fb) \/ EmptyAfterFlip(fb) \/ EmptyByLoad(fb)
         \/ GraspForms(fb) \/ NothingInTheWay(fb)
  PROVE  CountInv'
  <1> DEFINE s == Sensed(fb)
  <1>1. Reads(fb)
    BY DEF Slip, EmptyAfterFlip, EmptyByLoad, GraspForms, NothingInTheWay
  <1>2. /\ s \in Monitor /\ s.flipSteps = m.flipSteps /\ s.anomaly = m.anomaly
        /\ empties' \in Nat /\ empties <= empties'
        /\ weaks' \in Nat /\ weaks <= weaks'
        /\ fb.pos <= PosEmpty => empties' = Capped(empties, ConfirmN)
        /\ Weak(s, fb) => weaks' = Capped(weaks, ConfirmN)
    BY <1>1, ReadingCounts
  <1>3. /\ m.flipSteps + 1 <= Capped(empties, ConfirmN)
        /\ m.anomaly + 1 <= Capped(weaks, ConfirmN)
    BY CountTypes, CountedOnce
  <1>4. ASSUME m'.flipSteps <= m.flipSteps, m'.flipSteps \in Nat,
               m'.anomaly <= m.anomaly, m'.anomaly \in Nat
        PROVE  CountInv'
    BY <1>2, <1>4, CountTypes DEF CountInv
  <1> HIDE DEF s
  <1>5. CASE Slip(fb)
    <2>1. Weak(s, fb)
      BY <1>5 DEF Slip, Slipping, Weak, s
    <2>2. \/ m' = [s EXCEPT !.anomaly = s.anomaly + 1]
          \/ m' = [s EXCEPT !.hold = FALSE, !.peak = 0, !.anomaly = 0]
      BY <1>5, Zenon DEF Slip, s
    <2>3. m'.flipSteps = s.flipSteps
          /\ (m'.anomaly = s.anomaly + 1 \/ m'.anomaly = 0)
      BY <1>2, <2>2 DEF Monitor
    <2> QED BY <1>2, <1>3, <2>1, <2>3, CountTypes DEF CountInv
  <1>6. CASE EmptyAfterFlip(fb)
    <2>1. fb.pos <= PosEmpty
      BY <1>6 DEF EmptyAfterFlip, ClosedOnEmpty
    <2>2. \/ m' = [s EXCEPT !.flipSteps = s.flipSteps + 1]
          \/ m' = [s EXCEPT !.flip = FALSE, !.flipSteps = 0, !.anomaly = 0]
      BY <1>6, Zenon DEF EmptyAfterFlip, s
    <2>3. \/ m'.flipSteps = s.flipSteps + 1 /\ m'.anomaly = s.anomaly
          \/ m'.flipSteps = 0 /\ m'.anomaly = 0
      BY <1>2, <2>2 DEF Monitor
    <2> QED BY <1>2, <1>3, <2>1, <2>3, CountTypes DEF CountInv
  <1>7. CASE EmptyByLoad(fb)
    <2> DEFINE t == [s EXCEPT !.flipSteps = 0]
    <2>1. \/ m' = t
          \/ fb.load < LoadTh /\ m' = [t EXCEPT !.anomaly = t.anomaly + 1]
          \/ m' = [t EXCEPT !.anomaly = 0]
      <3>1. fb.load \in Nat /\ LoadTh \in Nat
        BY GripperAssumption DEF GripperAssumption, Feedback
      <3>2. fb.load >= LoadTh \/ fb.load < LoadTh
        BY <3>1
      <3> QED BY <1>7, <3>2, Zenon DEF EmptyByLoad, s
    <2>2. t \in Monitor /\ t.flipSteps = 0 /\ t.anomaly = s.anomaly
      BY <1>2, Counters DEF Monitor
    <2> HIDE DEF t
    <2>3. /\ m'.flipSteps = 0
          /\ \/ m'.anomaly = s.anomaly
             \/ fb.load < LoadTh /\ m'.anomaly = s.anomaly + 1
             \/ m'.anomaly = 0
      BY <2>1, <2>2 DEF Monitor
    <2>4. fb.load < LoadTh => Weak(s, fb)
      BY DEF Weak
    <2> QED BY <1>2, <1>3, <2>3, <2>4, CountTypes DEF CountInv
  <1>8. CASE GraspForms(fb)
    <2>1. m'.flipSteps = s.flipSteps /\ m'.anomaly = 0
      BY <1>2, <1>8 DEF GraspForms, Monitor, s
    <2> QED BY <1>2, <1>4, <2>1, CountTypes
  <1>9. CASE NothingInTheWay(fb)
    <2>1. m'.flipSteps = s.flipSteps /\ m'.anomaly = 0
      BY <1>2, <1>9 DEF NothingInTheWay, Monitor, s
    <2> QED BY <1>2, <1>4, <2>1, CountTypes
  <1> QED BY <1>5, <1>6, <1>7, <1>8, <1>9

\* Every step keeps the invariant of the counts.
LEMMA CountInductive ==
  TypeOK /\ CountInv /\ [Next]_vars => CountInv'
  <1> SUFFICES ASSUME TypeOK, CountInv, [Next]_vars PROVE CountInv'
    OBVIOUS
  <1>1. m \in Monitor
    BY DEF TypeOK
  <1>2. CASE ScanQueue
    <2>1. m'.flipSteps = m.flipSteps /\ m'.anomaly = m.anomaly
      BY <1>1, <1>2 DEF ScanQueue, Monitor
    <2> QED BY <1>2, <2>1 DEF ScanQueue, CountInv
  <1>3. CASE ScanEmptyQueue
    BY <1>3 DEF ScanEmptyQueue, CountInv
  <1>4. CASE Update
    <2>1. CASE LeaveGrip
      <3>1. m'.flipSteps = 0 /\ m'.anomaly = 0 /\ empties' = 0 /\ weaks' = 0
        BY <1>1, <2>1 DEF LeaveGrip, Monitor
      <3> QED BY <3>1 DEF CountInv
    <2>2. CASE GripAfterPlace
      BY <2>2 DEF GripAfterPlace, CountInv
    <2> QED BY <1>4, <2>1, <2>2, ReadingKeepsCount DEF Update
  <1>5. CASE Handle
    <2>1. CASE \/ TaskDone
               \/ ReinferHere \/ ReturnHome \/ RecoverOnTheSpot \/ LiftOrRewind
      <3>1. m' = NewMonitor /\ empties' = 0 /\ weaks' = 0
        BY <2>1 DEF TaskDone, ReinferHere, ReturnHome, RecoverOnTheSpot,
                    LiftOrRewind, Retrying, ForceReinference, ResetMonitor
      <3> QED BY <3>1 DEF NewMonitor, CountInv
    <2>2. CASE \/ Proceed \/ NotAtHome \/ AtHome \/ Stop
               \/ HomeReached \/ PoseReached
      BY <2>2 DEF Proceed, NotAtHome, AtHome, Stop, HomeReached, PoseReached,
                  CountInv
    <2> QED BY <1>5, <2>1, <2>2 DEF Handle
  <1>6. CASE UNCHANGED vars
    BY <1>6 DEF vars, CountInv
  <1> QED BY <1>2, <1>3, <1>4, <1>5, <1>6 DEF Next

\* A verdict comes at the ConfirmN-th reading of its kind at the earliest.
LEMMA VerdictIsSeen ==
  ASSUME TypeOK, CountInv, decision' # "continue", NEW fb \in Feedback
  PROVE  /\ EmptyAfterFlip(fb) => empties' = ConfirmN
         /\ Slip(fb) \/ EmptyByLoad(fb) => weaks' = ConfirmN
  <1> DEFINE s == Sensed(fb)
  <1>1. /\ ~(m.flipSteps + 1 < ConfirmN) => Capped(empties, ConfirmN) = ConfirmN
        /\ ~(m.anomaly + 1 < ConfirmN) => Capped(weaks, ConfirmN) = ConfirmN
    BY CountTypes, CountedOnce
  <1>2. ASSUME EmptyAfterFlip(fb)
        PROVE  empties' = ConfirmN
    <2>1. Reads(fb) /\ fb.pos <= PosEmpty /\ ~(s.flipSteps + 1 < ConfirmN)
      BY <1>2, Zenon DEF EmptyAfterFlip, ClosedOnEmpty, Continue, s
    <2> QED BY <1>1, <2>1, ReadingCounts
  <1>3. ASSUME Slip(fb)
        PROVE  weaks' = ConfirmN
    <2>1. Reads(fb) /\ Weak(s, fb)
      BY <1>3 DEF Slip, Slipping, Weak
    <2>2. ~(s.anomaly + 1 < ConfirmN)
      BY <1>3, Zenon DEF Slip, Continue, s
    <2> QED BY <1>1, <2>1, <2>2, ReadingCounts
  <1>4. ASSUME EmptyByLoad(fb)
        PROVE  weaks' = ConfirmN
    <2> DEFINE t == [s EXCEPT !.flipSteps = 0]
    <2>1. Reads(fb) /\ ~(fb.load >= LoadTh) /\ ~(t.anomaly + 1 < ConfirmN)
      BY <1>4, Zenon DEF EmptyByLoad, Continue
    <2>2. fb.load \in Nat /\ LoadTh \in Nat
      BY GripperAssumption DEF GripperAssumption, Feedback
    <2>3. Weak(s, fb)
      BY <2>1, <2>2 DEF Weak
    <2>4. t.anomaly = s.anomaly
      BY <2>1, ReadingCounts DEF Monitor
    <2> QED BY <1>1, <2>1, <2>3, <2>4, ReadingCounts
  <1> QED BY <1>2, <1>3, <1>4

\* For every debounce, and on each of the three paths by which a grasp is told to
\* have failed: no reading of an earlier attempt counts towards the verdict.
THEOREM FailureOnlyIfSeen == Spec => FailureIsSeen
  <1>1. Init => TypeOK /\ CountInv
    <2>1. Init => TypeOK
      BY InitType
    <2>2. Init => CountInv
      BY DEF Init, CountInv, NewMonitor
    <2> QED BY <2>1, <2>2
  <1>2. TypeOK /\ CountInv /\ [Next]_vars => (TypeOK /\ CountInv)'
    BY TypeInductive, CountInductive
  <1>3. TypeOK /\ CountInv =>
          (pc = "update" /\ decision' # "continue" =>
             \A fb \in Feedback :
               /\ EmptyAfterFlip(fb) => empties' = ConfirmN
               /\ Slip(fb) \/ EmptyByLoad(fb) => weaks' = ConfirmN)
    BY VerdictIsSeen
  <1> QED BY <1>1, <1>2, <1>3, PTL DEF Spec, FailureIsSeen

-----------------------------------------------------------------------------
(*****************************************************************************)
(* The arm at home.                                                          *)
(*****************************************************************************)

\* The count is of iterations in a row.  Proceed leaves it alone, so this rests
\* on the place: while there is a count an object was placed, and after a place
\* every iteration polls the arm, in the one branch or the other.
HomeInv ==
  /\ homeCount <= homeRun
  /\ homeCount > 0 => m.placed /\ (pc = "handle" => PollsHome)

LEMMA HomeInductive ==
  TypeOK /\ GraspInv /\ HomeInv /\ [Next]_vars => HomeInv'
  <1> SUFFICES ASSUME TypeOK, GraspInv, HomeInv, [Next]_vars PROVE HomeInv'
    OBVIOUS
  <1>1. /\ m \in Monitor /\ HomeConfirm \in Nat \ {0}
        /\ homeCount \in 0 .. HomeConfirm - 1 /\ homeRun \in 0 .. HomeConfirm
    BY GripperAssumption DEF GripperAssumption, TypeOK
  <1>2. CASE ScanQueue
    <2>1. m'.placed = m.placed
      BY <1>1, <1>2 DEF ScanQueue, Monitor
    <2> QED BY <1>2, <2>1 DEF ScanQueue, HomeInv
  <1>3. CASE ScanEmptyQueue
    BY <1>3 DEF ScanEmptyQueue, HomeInv
  <1>4. CASE Update
    <2>1. CASE LeaveGrip
      <3>1. /\ m'.placed = (m.placed \/ m.hold) /\ m'.phase = m.phase
            /\ decision' = "continue" /\ ~Gripping
            /\ UNCHANGED <<homeCount, homeRun>>
        BY <1>1, <2>1 DEF LeaveGrip, Continue, Monitor
      <3>2. ~Gripping'
        BY <3>1 DEF Gripping
      <3>3. m.placed => m'.placed /\ PollsHome'
        BY <3>1, <3>2, Zenon DEF PollsHome
      <3> QED BY <3>1, <3>3 DEF HomeInv
    <2>2. CASE GripAfterPlace
      <3>1. PollsHome'
        BY <2>2 DEF GripAfterPlace, PollsHome
      <3> QED BY <2>2, <3>1 DEF GripAfterPlace, HomeInv
    <2>3. CASE \E fb \in Feedback :
                 Slip(fb) \/ EmptyAfterFlip(fb) \/ EmptyByLoad(fb) \/ GraspForms(fb)
                   \/ NothingInTheWay(fb)
      <3>1. ~m.placed /\ UNCHANGED <<homeCount, homeRun>>
        BY <2>3 DEF Slip, EmptyAfterFlip, EmptyByLoad, GraspForms,
                    NothingInTheWay, Reads
      <3> QED BY <1>1, <3>1 DEF HomeInv
    <2> QED BY <1>4, <2>1, <2>2, <2>3 DEF Update
  <1>5. CASE Handle
    <2>1. CASE \/ TaskDone
               \/ ReinferHere \/ ReturnHome \/ RecoverOnTheSpot \/ LiftOrRewind
      <3>1. homeCount' = 0 /\ homeRun' \in Nat
        BY <1>1, <2>1 DEF TaskDone, ReinferHere, ReturnHome, RecoverOnTheSpot,
                    LiftOrRewind, Retrying, ForceReinference, Capped
      <3> QED BY <3>1 DEF HomeInv
    <2>2. CASE Proceed
      <3>1. ~(homeCount > 0) /\ homeCount' = homeCount /\ homeRun' = 0
        BY <2>2 DEF Proceed, HomeInv
      <3> QED BY <1>1, <3>1 DEF HomeInv
    <2>3. CASE NotAtHome
      BY <2>3 DEF NotAtHome, HomeInv
    <2>4. CASE AtHome
      <3>1. m.placed
        BY <2>4 DEF AtHome, PollsHome, GraspInv
      <3>2. homeCount' <= homeRun'
        BY <1>1, <2>4 DEF AtHome, HomeInv, Capped
      <3> QED BY <2>4, <3>1, <3>2 DEF AtHome, HomeInv
    <2>5. CASE Stop \/ HomeReached \/ PoseReached
      BY <2>5 DEF Stop, HomeReached, PoseReached, HomeInv
    <2> QED BY <1>5, <2>1, <2>2, <2>3, <2>4, <2>5 DEF Handle
  <1>6. CASE UNCHANGED vars
    <2>1. UNCHANGED <<pc, m, decision, homeCount, homeRun>>
      BY <1>6 DEF vars
    <2>2. PollsHome' <=> PollsHome
      BY <2>1 DEF PollsHome, Gripping
    <2> QED BY <2>1, <2>2 DEF HomeInv
  <1> QED BY <1>2, <1>3, <1>4, <1>5, <1>6 DEF Next

\* For every length of the confirmation: a task is counted as done only after
\* that many iterations in a row which found the arm at home, though only two of
\* the three branches of the loop touch the count.
THEOREM DoneOnlyAtHome == Spec => HomeIsSteady
  <1>1. Init => TypeOK /\ GraspInv /\ HomeInv
    <2>1. Init => TypeOK
      BY InitType
    <2>2. Init => GraspInv /\ HomeInv
      BY DEF Init, GraspInv, HomeInv, NewMonitor
    <2> QED BY <2>1, <2>2
  <1>2. TypeOK /\ GraspInv /\ HomeInv /\ [Next]_vars
          => (TypeOK /\ GraspInv /\ HomeInv)'
    BY TypeInductive, GraspInductive, HomeInductive
  <1>3. TypeOK /\ HomeInv => (TaskDone => homeRun' = HomeConfirm)
    <2> SUFFICES ASSUME TypeOK, HomeInv, TaskDone PROVE homeRun' = HomeConfirm
      OBVIOUS
    <2>1. /\ HomeConfirm \in Nat \ {0}
          /\ homeCount \in 0 .. HomeConfirm - 1 /\ homeRun \in 0 .. HomeConfirm
      BY GripperAssumption DEF GripperAssumption, TypeOK
    <2>2. homeRun >= HomeConfirm - 1 /\ homeRun' = Capped(homeRun, HomeConfirm)
      BY <2>1 DEF HomeInv, TaskDone
    <2> QED BY <2>1, <2>2 DEF Capped
  <1> QED BY <1>1, <1>2, <1>3, PTL DEF Spec, HomeIsSteady
=============================================================================
