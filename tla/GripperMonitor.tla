--------------------------- MODULE GripperMonitor ---------------------------
(*****************************************************************************)
(* The gripper state machine of the smart robot client: GripperStateMonitor  *)
(* and the part of SmartRobotClient.control_loop that acts on its            *)
(* decisions.  One iteration of the loop is a scan of the action queue, an   *)
(* update from the motor's feedback, and the handling of the decision; a     *)
(* recovery, lift or rewind trajectory with its warmup is one step, since    *)
(* the monitor sleeps while it plays.                                        *)
(*                                                                           *)
(* What the policy commands, what the motor reports and whether the arm is   *)
(* at home are the environment's choice in every iteration.                  *)
(*****************************************************************************)
EXTENDS Integers

CONSTANTS
  Positions,              \* gripper positions, commanded and read
  Strengths,              \* magnitudes of the signed load register
  PosEmpty, PosOpen,      \* _pos_empty, _pos_open
  GapTh, StableTh,        \* _pos_gap_th, _pos_stable_th
  LoadTh,                 \* _load_th
  SlipNum, SlipDen,       \* _slip_ratio, as a fraction
  ConfirmN,               \* _confirm_n
  GraspConfirmN,          \* _grasp_confirm_n
  HomeConfirm,            \* task_done_home_confirm_steps
  MaxReinfer, MaxTotal,   \* _max_reinfer_retries, _max_total_retries
  LiftEnabled, RewindEnabled,
  NoPos                   \* _prev_pos is None

ASSUME GripperAssumption ==
  /\ Positions \subseteq Int /\ 0 \in Positions
  /\ Strengths \subseteq Nat /\ 0 \in Strengths
  /\ {PosEmpty, PosOpen, GapTh, StableTh, LoadTh} \subseteq Nat
  /\ SlipNum \in Nat /\ SlipDen \in Nat \ {0}
  /\ ConfirmN \in Nat \ {0} /\ GraspConfirmN \in Nat \ {0}
  /\ HomeConfirm \in Nat \ {0}
  /\ MaxReinfer \in Nat /\ MaxTotal \in Nat
  /\ LiftEnabled \in BOOLEAN /\ RewindEnabled \in BOOLEAN
  /\ NoPos \notin Positions

VARIABLES
  pc,                 \* where the control loop is
  m,                  \* what reset() resets of the monitor
  decision,           \* the decision being handled
  failures,           \* _failure_count
  lifted, rewound,    \* _lift_retry_attempted, _rewind_retry_attempted
  homeCount,          \* _at_home_confirm_count
  blocked,            \* history: readings since the last reset, at most
                      \* GraspConfirmN, that found an object in the way
  empties,            \* history: readings at or below PosEmpty, at most
                      \* ConfirmN, since the gripper began to close
  weaks,              \* history: readings of a weak load, at most ConfirmN,
                      \* since then
  homeRun             \* history: iterations in a row, at most HomeConfirm,
                      \* that found the arm at home

ladder == <<failures, lifted, rewound>>
vars == <<pc, m, decision, ladder, homeCount, blocked, empties, weaks, homeRun>>

Phase == {"approaching", "closing", "holding", "dropping", "opening"}
Window == [first : Positions, rest : SUBSET Positions]
\* The register is signed: it is negative while the motor drives open.
Feedback ==
  {fb \in [pos : Positions, load : Strengths, negative : BOOLEAN] :
     fb.negative => fb.load > 0}

Debounce == 0 .. ConfirmN - 1      \* counters of readings below a threshold
Grasping == 0 .. GraspConfirmN

Retry == {"lift", "rewind", "recovery", "reinfer"}

Monitor ==
  [phase : Phase,          \* _last_known_phase
   hold : BOOLEAN,         \* _hold_confirmed
   peak : Strengths,       \* _peak_load
   anomaly : Debounce,
   inGrasp : BOOLEAN,      \* _in_grasp_phase
   placed : BOOLEAN,       \* _place_occurred
   cmdOpen : BOOLEAN,      \* _cmd_was_open
   releasing : BOOLEAN,    \* _opening_in_queue
   success : Grasping,
   cmdPos : Positions,     \* _current_cmd_pos
   positive : BOOLEAN,     \* _prev_raw_load_positive
   flip : BOOLEAN,         \* _load_flip_seen
   everOpen : BOOLEAN,     \* _grasp_ever_open
   prevPos : Positions \cup {NoPos},
   flipSteps : Debounce]

TypeOK ==
  /\ pc \in {"scan", "update", "handle", "home", "pose", "stopped"}
  /\ m \in Monitor
  /\ decision \in {"continue", "task_done", "stop"} \cup Retry
  /\ failures \in Nat /\ lifted \in BOOLEAN /\ rewound \in BOOLEAN
  /\ homeCount \in 0 .. HomeConfirm - 1
  /\ blocked \in Grasping /\ {empties, weaks} \subseteq 0 .. ConfirmN
  /\ homeRun \in 0 .. HomeConfirm

NewMonitor ==
  [phase |-> "approaching", hold |-> FALSE, peak |-> 0, anomaly |-> 0,
   inGrasp |-> FALSE, placed |-> FALSE, cmdOpen |-> FALSE,
   releasing |-> FALSE, success |-> 0, cmdPos |-> 0, positive |-> TRUE,
   flip |-> FALSE, everOpen |-> FALSE, prevPos |-> NoPos, flipSteps |-> 0]

Init ==
  /\ pc = "scan" /\ m = NewMonitor /\ decision = "continue"
  /\ failures = 0 /\ lifted = FALSE /\ rewound = FALSE /\ homeCount = 0
  /\ blocked = 0 /\ empties = 0 /\ weaks = 0 /\ homeRun = 0

Capped(n, top) == IF n < top THEN n + 1 ELSE top

-----------------------------------------------------------------------------
(*****************************************************************************)
(* scan_intended_phase.                                                      *)
(*****************************************************************************)
Commanded(w) == {w.first} \cup w.rest
HasOpen(w)   == \E p \in Commanded(w) : p >= PosOpen
HasClosed(w) == \E p \in Commanded(w) : p < PosEmpty
AllOpen(w)   == \A p \in Commanded(w) : p >= PosOpen

IntendedPhase(w) ==
  CASE HasOpen(w) /\ HasClosed(w) /\ w.first >= PosOpen -> "closing"
    [] HasOpen(w) /\ HasClosed(w) /\ w.first < PosOpen ->
         IF m.phase \in {"holding", "dropping"} THEN "dropping" ELSE "opening"
    [] ~HasOpen(w) -> "holding"
    [] AllOpen(w) /\ ~HasClosed(w) -> "opening"
    [] OTHER -> "approaching"

ScanQueue ==
  /\ pc = "scan" /\ pc' = "update"
  /\ \E w \in Window :
       m' = [m EXCEPT !.phase = IntendedPhase(w),
                      !.cmdPos = w.first,
                      !.cmdOpen = @ \/ HasOpen(w),
                      !.releasing = \E p \in Commanded(w) : p > PosEmpty]
  /\ UNCHANGED <<decision, ladder, homeCount, blocked, empties, weaks, homeRun>>

\* Between two chunks the last known phase stands.
ScanEmptyQueue ==
  /\ pc = "scan" /\ pc' = "update"
  /\ UNCHANGED <<m, decision, ladder, homeCount, blocked, empties, weaks, homeRun>>

-----------------------------------------------------------------------------
(*****************************************************************************)
(* update.                                                                   *)
(*****************************************************************************)
Gripping == m.phase \in {"closing", "holding"}

Continue == decision' = "continue" /\ UNCHANGED ladder

\* _failure_decision, for the failure just counted.
Rung(kind) ==
  CASE LiftEnabled /\ ~lifted /\ kind = "empty" -> "lift"
    [] /\ ~(LiftEnabled /\ ~lifted)
       /\ RewindEnabled /\ ~rewound /\ kind = "empty" -> "rewind"
    [] OTHER ->
         IF failures + 1 > MaxTotal THEN "stop"
         ELSE IF failures + 1 > MaxReinfer \/ kind \in {"empty", "slip"}
              THEN "recovery"
              ELSE "reinfer"

FailUnlatched(kind) ==   \* mutant: a lift is not remembered
  /\ failures' = failures + 1
  /\ decision' = Rung(kind)
  /\ rewound' = (rewound \/ decision' = "rewind")
  /\ UNCHANGED lifted

Fail(kind) ==
  /\ failures' = failures + 1
  /\ decision' = Rung(kind)
  /\ lifted' = (lifted \/ decision' = "lift")
  /\ rewound' = (rewound \/ decision' = "rewind")

LeaveGripCounting ==   \* mutant: the flip's count is not reset
  /\ pc = "update" /\ ~Gripping /\ pc' = "handle"
  /\ m' = [m EXCEPT !.inGrasp = @ /\ ~m.hold, !.placed = @ \/ m.hold,
                    !.hold = FALSE, !.peak = 0, !.anomaly = 0, !.success = 0,
                    !.flip = FALSE, !.everOpen = FALSE, !.prevPos = NoPos]
  /\ Continue /\ empties' = 0 /\ weaks' = 0
  /\ UNCHANGED <<homeCount, blocked, homeRun>>

\* Leaving the grip with an object confirmed in it counts as placing it.
LeaveGrip ==
  /\ pc = "update" /\ ~Gripping /\ pc' = "handle"
  /\ m' = [m EXCEPT !.inGrasp = @ /\ ~m.hold, !.placed = @ \/ m.hold,
                    !.hold = FALSE, !.peak = 0, !.anomaly = 0, !.success = 0,
                    !.flip = FALSE, !.flipSteps = 0, !.everOpen = FALSE,
                    !.prevPos = NoPos]
  /\ Continue /\ empties' = 0 /\ weaks' = 0
  /\ UNCHANGED <<homeCount, blocked, homeRun>>

\* The gripper closes after a place: it goes home.
GripAfterPlace ==
  /\ pc = "update" /\ Gripping /\ m.placed /\ pc' = "handle"
  /\ decision' = "task_done"
  /\ UNCHANGED <<m, ladder, homeCount, blocked, empties, weaks, homeRun>>

\* What update records of a reading before it judges it.
Sensed(fb) ==
  [m EXCEPT !.inGrasp = @ \/ m.cmdOpen,
            !.peak = IF @ < fb.load THEN fb.load ELSE @,
            !.flip = @ \/ (~m.positive /\ ~fb.negative),
            !.positive = ~fb.negative,
            !.everOpen = @ \/ fb.pos >= PosOpen]

Slipping(s, fb) ==
  /\ s.hold /\ s.peak > LoadTh /\ ~s.releasing
  /\ SlipDen * fb.load < SlipNum * s.peak

ClosedOnEmpty(s, fb) ==
  s.inGrasp /\ s.everOpen /\ ~s.releasing /\ fb.pos <= PosEmpty

Blocked(s, fb) ==
  fb.pos - s.cmdPos > GapTh /\ fb.load >= LoadTh /\ fb.pos < PosOpen

InTransit(s, fb) == s.prevPos # NoPos /\ fb.pos - s.prevPos < -StableTh

\* Either sign of a lost object: too little load, or a drop from the peak.
Weak(s, fb) == fb.load < LoadTh \/ SlipDen * fb.load < SlipNum * s.peak

\* A reading is judged in the order slip, empty grasp, object in the way.
Reads(fb) ==
  /\ pc = "update" /\ Gripping /\ ~m.placed /\ pc' = "handle"
  /\ empties' = IF fb.pos <= PosEmpty THEN Capped(empties, ConfirmN) ELSE empties
  /\ weaks' = IF Weak(Sensed(fb), fb) THEN Capped(weaks, ConfirmN) ELSE weaks
  /\ UNCHANGED <<homeCount, homeRun>>

Slip(fb) ==
  LET s == Sensed(fb) IN
  /\ Reads(fb) /\ Slipping(s, fb)
  /\ IF s.anomaly + 1 < ConfirmN
     THEN m' = [s EXCEPT !.anomaly = @ + 1] /\ Continue
     ELSE /\ m' = [s EXCEPT !.hold = FALSE, !.peak = 0, !.anomaly = 0]
          /\ Fail("slip")
  /\ UNCHANGED blocked

EmptyAfterFlip(fb) ==
  LET s == Sensed(fb) IN
  /\ Reads(fb) /\ ~Slipping(s, fb) /\ ClosedOnEmpty(s, fb) /\ s.flip
  /\ IF s.flipSteps + 1 < ConfirmN
     THEN m' = [s EXCEPT !.flipSteps = @ + 1] /\ Continue
     ELSE /\ m' = [s EXCEPT !.flip = FALSE, !.flipSteps = 0, !.anomaly = 0]
          /\ Fail("empty")
  /\ UNCHANGED blocked

EmptyByLoad(fb) ==
  LET s == [Sensed(fb) EXCEPT !.flipSteps = 0] IN
  /\ Reads(fb) /\ ~Slipping(s, fb) /\ ClosedOnEmpty(s, fb) /\ ~s.flip
  /\ IF fb.load >= LoadTh THEN m' = s /\ Continue
     ELSE IF s.anomaly + 1 < ConfirmN
     THEN m' = [s EXCEPT !.anomaly = @ + 1] /\ Continue
     ELSE m' = [s EXCEPT !.anomaly = 0] /\ Fail("empty")
  /\ UNCHANGED blocked

\* An object in the way of the closing gripper: the grasp is confirmed once
\* success reaches GraspConfirmN (the code counts on, to no effect).
GraspForms(fb) ==
  LET s == Sensed(fb)
      confirmed == s.success + 1 >= GraspConfirmN
  IN
  /\ Reads(fb) /\ ~Slipping(s, fb) /\ ~ClosedOnEmpty(s, fb)
  /\ Blocked(s, fb) /\ ~InTransit(s, fb)
  /\ m' = [s EXCEPT !.success = Capped(@, GraspConfirmN), !.anomaly = 0,
                    !.prevPos = fb.pos, !.hold = @ \/ confirmed,
                    !.flip = @ /\ ~confirmed]
  /\ failures' = IF confirmed THEN 0 ELSE failures
  /\ decision' = "continue" /\ UNCHANGED <<lifted, rewound>>
  /\ blocked' = Capped(blocked, GraspConfirmN)

NothingInTheWay(fb) ==
  LET s == Sensed(fb) IN
  /\ Reads(fb) /\ ~Slipping(s, fb) /\ ~ClosedOnEmpty(s, fb)
  /\ ~(Blocked(s, fb) /\ ~InTransit(s, fb))
  /\ m' = [s EXCEPT !.success = 0, !.anomaly = 0, !.prevPos = fb.pos]
  /\ Continue /\ UNCHANGED blocked

Update ==
  \/ LeaveGrip \/ GripAfterPlace
  \/ \E fb \in Feedback :
       Slip(fb) \/ EmptyAfterFlip(fb) \/ EmptyByLoad(fb) \/ GraspForms(fb)
         \/ NothingInTheWay(fb)

-----------------------------------------------------------------------------
(*****************************************************************************)
(* The control loop acts on the decision.                                    *)
(*****************************************************************************)
ResetKeepingPlace ==   \* mutant: reset() forgets _place_occurred
  m' = [NewMonitor EXCEPT !.placed = m.placed]

ResetMonitor == m' = NewMonitor

\* What _force_reinference does to the monitor; the rest of it is the
\* client's.
ForceReinference ==
  /\ ResetMonitor /\ homeCount' = 0
  /\ blocked' = 0 /\ empties' = 0 /\ weaks' = 0

Rearm == failures' = 0 /\ lifted' = FALSE /\ rewound' = FALSE

\* _is_at_home is polled by both branches that can end a task.
PollsHome ==
  \/ decision = "task_done"
  \/ decision = "continue" /\ m.placed /\ ~Gripping

Proceed ==
  /\ pc = "handle" /\ decision = "continue" /\ ~PollsHome /\ pc' = "scan"
  /\ homeRun' = 0
  /\ UNCHANGED <<m, decision, ladder, homeCount, blocked, empties, weaks>>

AwayKeepingCount ==   \* mutant: the count survives a step away from home
  /\ pc = "handle" /\ PollsHome /\ pc' = "scan" /\ homeRun' = 0
  /\ UNCHANGED <<m, decision, ladder, homeCount, blocked, empties, weaks>>

NotAtHome ==
  /\ pc = "handle" /\ PollsHome /\ pc' = "scan"
  /\ homeCount' = 0 /\ homeRun' = 0
  /\ UNCHANGED <<m, decision, ladder, blocked, empties, weaks>>

AtHomeTooOften ==   \* mutant: off by one against HomeConfirm
  /\ pc = "handle" /\ PollsHome /\ pc' = "scan"
  /\ homeCount < HomeConfirm
  /\ homeCount' = homeCount + 1 /\ homeRun' = Capped(homeRun, HomeConfirm)
  /\ UNCHANGED <<m, decision, ladder, blocked, empties, weaks>>

AtHome ==
  /\ pc = "handle" /\ PollsHome /\ pc' = "scan"
  /\ homeCount + 1 < HomeConfirm
  /\ homeCount' = homeCount + 1 /\ homeRun' = Capped(homeRun, HomeConfirm)
  /\ UNCHANGED <<m, decision, ladder, blocked, empties, weaks>>

TaskDone ==
  /\ pc = "handle" /\ PollsHome /\ pc' = "scan"
  /\ homeCount + 1 >= HomeConfirm
  /\ ForceReinference /\ Rearm
  /\ homeRun' = Capped(homeRun, HomeConfirm)
  /\ UNCHANGED decision

Retrying(retries, to) ==
  /\ pc = "handle" /\ decision \in retries /\ pc' = to
  /\ ForceReinference /\ homeRun' = 0
  /\ UNCHANGED <<decision, ladder>>

\* REINFER, and a rewind whose history is empty.
ReinferHere == Retrying({"reinfer", "rewind"}, "scan")

\* A lift whose trajectory cannot be built becomes a recovery; a recovery
\* that may not or cannot return home is a re-inference on the spot.
ReturnHome == Retrying({"recovery", "lift"}, "home")
RecoverOnTheSpot == Retrying({"recovery", "lift"}, "scan")
LiftOrRewind == Retrying({"lift", "rewind"}, "pose")

HomeReached ==
  /\ pc = "home" /\ pc' = "scan" /\ Rearm
  /\ UNCHANGED <<m, decision, homeCount, blocked, empties, weaks, homeRun>>

PoseReached ==
  /\ pc = "pose" /\ pc' = "scan"
  /\ UNCHANGED <<m, decision, ladder, homeCount, blocked, empties, weaks, homeRun>>

Stop ==
  /\ pc = "handle" /\ decision = "stop" /\ pc' = "stopped"
  /\ UNCHANGED <<m, decision, ladder, homeCount, blocked, empties, weaks, homeRun>>

Handle ==
  \/ Proceed \/ NotAtHome \/ AtHome \/ TaskDone
  \/ ReinferHere \/ ReturnHome \/ RecoverOnTheSpot \/ LiftOrRewind \/ Stop
  \/ HomeReached \/ PoseReached

Next == ScanQueue \/ ScanEmptyQueue \/ Update \/ Handle

Spec == Init /\ [][Next]_vars

-----------------------------------------------------------------------------
\* A task is counted as done only if GraspConfirmN readings since the last
\* re-inference found an object between the jaws: no success is carried over
\* from an earlier attempt, and none comes of a gripper that merely closed.
DoneAfterGrasp == [][TaskDone => blocked = GraspConfirmN]_vars

\* A failed grasp is told from readings of the present attempt, since the gripper
\* last began to close or was reset: after a flip of the load from ConfirmN at or
\* below PosEmpty, and as a slip or by the load, which share a count, from ConfirmN
\* of a weak load.  Readings in between that contradict them need not reset a count.
FailureIsSeen ==
  [][pc = "update" /\ decision' # "continue" =>
       \A fb \in Feedback :
         /\ EmptyAfterFlip(fb) => empties' = ConfirmN
         /\ Slip(fb) \/ EmptyByLoad(fb) => weaks' = ConfirmN]_vars

\* A task is counted as done only after HomeConfirm iterations in a row that
\* found the arm at home, whichever of the two branches polled it.
HomeIsSteady == [][TaskDone => homeRun' = HomeConfirm]_vars

\* Without a grasp or a completed return home in between, the loop gives up
\* after MaxTotal failures, plus one for each rung that precedes STOP.
RetriesBounded ==
  failures <= MaxTotal + 1 + (IF LiftEnabled THEN 1 ELSE 0)
                           + (IF RewindEnabled THEN 1 ELSE 0)
=============================================================================
