--------------------------- MODULE OverrideProofs ---------------------------
(***************************************************************************)
(* What holds of a run whatever commands are used on it: /plan, /advance,  *)
(* /verify and /execute between the steps of the loop, text that routes a  *)
(* request, failing executors, and restarts.                               *)
(*                                                                         *)
(* The first half proves DependencyGate.  Up to the point where it starts  *)
(* a task, a call at most puts tasks back to todo: picking, resuming,      *)
(* requeuing and advancing start nothing.  From there on it changes the    *)
(* status of that one task, whose dependencies it has just looked up in    *)
(* the session it has reached, and what is done there was done when the    *)
(* call began.                                                             *)
(*                                                                         *)
(* The second half proves ActiveWorkHasTask of every command, and          *)
(* AllWorkIsActive, CompletedIsSettled and EvidenceGate without the one    *)
(* command that breaks each.  Tidy is what memory and files satisfy each   *)
(* for itself; Vouched and Lasting tie memory, files and the verified      *)
(* tasks together while no execution throws.                               *)
(***************************************************************************)
EXTENDS HarnessRuntimeProofs

-----------------------------------------------------------------------------
(* No task before its dependencies. *)

\* A session a call may have reached when it has not started a task.
Reaches(s) ==
  /\ s.taskState.planned = session.taskState.planned
  /\ \A t \in TaskIds : s.taskState.tasks[t] \in {session.taskState.tasks[t], "todo"}

OthersKept(s, r, t) == \A u \in TaskIds \ {t} : r.taskState.tasks[u] = s.taskState.tasks[u]

DependenciesDone(t) == \A d \in PlanDeps[t] : session.taskState.tasks[d] = "done"

\* What DependencyGate asks of the session a call leaves.
Gated(s) ==
  \A t \in TaskIds :
    /\ session.taskState.planned
    /\ session.taskState.tasks[t] \in {"todo", "blocked"}
    /\ s.taskState.tasks[t] \notin {"todo", session.taskState.tasks[t]}
    => DependenciesDone(t)

\* Neither finished nor cancelled: the run is not reopened.
AtWork(s) == s.state.phase \notin {"completed", "cancelled"}

LEMMA ReachesGated == ASSUME NEW s, Reaches(s) PROVE Gated(s)
  BY DEF Reaches, Gated

LEMMA OneStartedGated ==
  ASSUME NEW s, Reaches(s), NEW t \in TaskIds, NEW r, OthersKept(s, r, t),
         \/ session.taskState.tasks[t] \notin {"todo", "blocked"}
         \/ session.taskState.planned => DependenciesDone(t)
  PROVE  Gated(r)
  BY DEF Reaches, OthersKept, Gated

-----------------------------------------------------------------------------
(* What the methods make of the statuses. *)

SameTasks(s, r) ==
  r.taskState.tasks = s.taskState.tasks /\ r.taskState.planned = s.taskState.planned

LEMMA AssignmentsKeepTasks ==
  ASSUME NEW s \in Session
  PROVE  /\ \A p : /\ InPhase(s, p).taskState = s.taskState
                   /\ SameTasks(s, ResumingInto(s, p))
         /\ \A f : WithFlow(s, f).taskState = s.taskState
         /\ \A b : WithBlocker(s, b).taskState = s.taskState
         /\ \A t : /\ SameTasks(s, WithActiveTask(s, t))
                   /\ SameTasks(s, PausedOn(s, t))
         /\ \A p, q : SameTasks(s, Entered(s, p, q))
         /\ SameTasks(s, Resumed(s))
  BY DEF InPhase, WithFlow, WithBlocker, SameTasks, WithActiveTask, Entered, ResumingInto,
     PausedOn, Resumed, Session, TaskState

LEMMA StatusAlone ==
  ASSUME NEW s \in Session, NEW t \in TaskIds, NEW v
  PROVE  /\ WithStatus(s, t, v).taskState.tasks = [s.taskState.tasks EXCEPT ![t] = v]
         /\ WithStatus(s, t, v).taskState.planned = s.taskState.planned
         /\ OthersKept(s, WithStatus(s, t, v), t)
<1>1. /\ WithStatus(s, t, v).taskState.tasks = [s.taskState.tasks EXCEPT ![t] = v]
      /\ WithStatus(s, t, v).taskState.planned = s.taskState.planned
  BY DEF WithStatus, Session, TaskState
<1>2. QED
  BY <1>1 DEF OthersKept, Session, TaskState

LEMMA MarkedAlone ==
  ASSUME NEW s \in Session, NEW t \in TaskIds, NEW v, NEW b, NEW h
  PROVE  /\ Marked(s, t, v, b, h).taskState.tasks = [s.taskState.tasks EXCEPT ![t] = v]
         /\ Marked(s, t, v, b, h).taskState.planned = s.taskState.planned
         /\ Marked(s, t, v, b, h).state.phase = s.state.phase
  BY DEF Marked, WithStatus, WithBlocker, WithTaskBlocker, WithHint, Session, RunState, TaskState

LEMMA ExecutionEndedAlone ==
  ASSUME NEW R \in Resumptions,
         NEW s \in Session, Fit(R, s), NEW t \in TaskIds, NEW satisfied \in BOOLEAN
  PROVE  OthersKept(s, ExecutionEnded(s, t, satisfied), t)
<1> DEFINE noted == WithHint(WithOutput(Invalidated(s), t), t, "none")
           marked == Marked(noted, t, "blocked", "no_changes", "implementation_no_changes")
<1>1. Invalidated(s) \in Session /\ Fit(R, Invalidated(s))
  BY InvalidatedFit DEF Fit
<1>2. WithOutput(Invalidated(s), t) \in Session /\ Fit(R, WithOutput(Invalidated(s), t))
  BY <1>1, WithOutputFit DEF Fit
<1>3. noted \in Session /\ Fit(R, noted)
  BY <1>2, WithHintFit, Values DEF Fit
<1>4. noted.taskState.tasks = s.taskState.tasks
  BY DEF WithHint, WithOutput, Invalidated, WithReport, Session, TaskState
<1>5. marked \in Session /\ marked.taskState.tasks = [noted.taskState.tasks EXCEPT ![t] = "blocked"]
  BY <1>3, MarkedFit, MarkedAlone, Values DEF Fit
<1>6. ExecutionEnded(s, t, satisfied) = IF satisfied THEN noted ELSE InPhase(marked, "paused")
  BY DEF ExecutionEnded
<1>7. s.taskState.tasks \in [TaskIds -> TaskStatuses]
  BY DEF Session, TaskState
<1> HIDE DEF noted, marked
<1>8. InPhase(marked, "paused").taskState = marked.taskState
  BY <1>5, AssignmentsKeepTasks
<1>9. QED
  BY <1>4, <1>5, <1>6, <1>7, <1>8 DEF OthersKept

\* A verdict goes to the ledger's active task.
LEMMA VerificationEndedAlone ==
  ASSUME NEW R \in Resumptions,
         NEW s \in Session, Fit(R, s), NEW failed, s.taskState.activeTaskId # NoTask
  PROVE  OthersKept(s, VerificationEnded(s, failed), s.taskState.activeTaskId)
<1> DEFINE t == s.taskState.activeTaskId
           reported == WithReport(s, VerificationStatus(s, failed), TRUE)
           accepted == WithHint(WithStatus(reported, t, "validated"), t, "none")
           rejected == Marked(reported, t, "blocked", FailureText(failed), RecoveryHint(s, failed))
           recorded == VerdictRecorded(s, failed)
<1>1. t \in TaskIds /\ s.taskState.tasks \in [TaskIds -> TaskStatuses]
  BY DEF Session, TaskState
<1>2. VerificationStatus(s, failed) \in {"pass", "fail", "blocked"}
  BY VerdictTypes
<1>3. reported \in Session
  BY <1>2, WithReportFit, Values DEF Fit
<1>4. reported.taskState.tasks = s.taskState.tasks
  BY DEF WithReport, Session, TaskState
<1> HIDE DEF t, reported
<1>5. /\ rejected.taskState.tasks = [s.taskState.tasks EXCEPT ![t] = "blocked"]
      /\ WithStatus(reported, t, "blocked").taskState.tasks =
           [s.taskState.tasks EXCEPT ![t] = "blocked"]
  BY <1>1, <1>3, <1>4, StatusAlone, MarkedAlone
<1>6. accepted.taskState.tasks = [s.taskState.tasks EXCEPT ![t] = "validated"]
  BY <1>1, <1>3, <1>4 DEF WithHint, WithStatus, Session, TaskState
<1>7. recorded \in {accepted, rejected, WithStatus(reported, t, "blocked")}
  BY DEF VerdictRecorded, t, reported
<1> HIDE DEF accepted, rejected
<1>8. OthersKept(s, recorded, t)
  BY <1>1, <1>5, <1>6, <1>7 DEF OthersKept
<1>9. recorded \in Session
  BY VerdictRecordedFit
<1> HIDE DEF recorded
<1>10. QED
  BY <1>8, <1>9, AssignmentsKeepTasks DEF VerificationEnded, OthersKept, SameTasks, recorded, t

LEMMA VerifyAlone ==
  ASSUME NEW R \in Resumptions,
         NEW s, Fit(R, s), NEW d, AtWork(s), s.taskState.activeTaskId # NoTask, Verify(s, d)
  PROVE  OthersKept(s, session', s.taskState.activeTaskId)
<1> DEFINE opened == VerificationStarted(s)
           checked == InPhase(opened, "verifying")
<1>1. s \in Session /\ opened \in Session /\ Fit(R, opened)
  BY VerificationStartedFit DEF Fit
<1>2. opened.taskState = s.taskState
  BY <1>1, AssignmentsKeepTasks DEF AtWork, VerificationStarted
<1>3. checked \in Session /\ Fit(R, checked)
  BY <1>1, InPhaseFit, Values DEF Fit
<1>4. checked.taskState = s.taskState
  BY <1>1, <1>2, AssignmentsKeepTasks
<1>5. \/ session' \in {opened, checked}
      \/ \E failed : session' = VerificationEnded(checked, failed)
  BY DEF Verify, Saved, Unsaved, Return
<1> HIDE DEF opened, checked
<1>6. QED
  BY <1>2, <1>3, <1>4, <1>5, VerificationEndedAlone DEF OthersKept

LEMMA ExecuteAlone ==
  ASSUME NEW R \in Resumptions,
         NEW s, Fit(R, s), NEW d, AtWork(s), s.taskState.activeTaskId # NoTask, Execute(s, d)
  PROVE  OthersKept(s, session', s.taskState.activeTaskId)
<1> DEFINE routed == Routed(s)
           phased == IF routed.state.phase \in {"planning", "paused"}
                     THEN InPhase(routed, "implementing") ELSE routed
           t == s.taskState.activeTaskId
           started == Started(phased, t)
           begun == ExecutionStarted(s)
<1>1. s \in Session /\ t \in TaskIds /\ s.state.activeTaskId = t
  BY DEF Fit, Agree, Session, TaskState
<1>2. routed \in Session /\ Fit(R, routed) /\ routed.taskState = s.taskState
      /\ routed.state.activeTaskId = t
  <2>1. routed.taskState = s.taskState /\ routed.state.activeTaskId = t
    BY <1>1 DEF Routed, WithFlow, Session, RunState
  <2>2. QED
    BY <1>1, <2>1, RoutedFit DEF Fit
<1> HIDE DEF t
<1>3. phased \in Session /\ Fit(R, phased) /\ phased.taskState = s.taskState
      /\ phased.state.activeTaskId = t
  <2>1. phased.taskState = s.taskState /\ phased.state.activeTaskId = t
    BY <1>2 DEF InPhase, Session, RunState
  <2>2. QED
    BY <1>2, <2>1, InPhaseFit, Values DEF Fit
<1>4. begun = ResumingInto(started, "implementing")
  <2>1. Reopened(s) = s
    BY DEF AtWork, Reopened
  <2>2. WithSomeTask(phased) = phased
    BY <1>3 DEF WithSomeTask, t
  <2>3. begun = ResumingInto(Started(WithSomeTask(phased), WithSomeTask(phased).state.activeTaskId),
                             "implementing")
    BY <2>1 DEF ExecutionStarted
  <2> HIDE DEF phased, begun
  <2>4. QED
    BY <1>3, <2>2, <2>3
<1> HIDE DEF phased
<1>5. /\ started \in Session
      /\ started.taskState.tasks = [s.taskState.tasks EXCEPT ![t] = "in_progress"]
      /\ started.state.activeTaskId = t
  <2>1. started \in Session
    BY <1>1, <1>3, StartedFit DEF Fit
  <2>2. started.state = phased.state
    BY <1>1, <1>3, TaskKept, Values DEF Started
  <2>3. started.taskState.tasks = [phased.taskState.tasks EXCEPT ![t] = "in_progress"]
    BY <1>1, <1>3, StatusAlone DEF Started
  <2> HIDE DEF started
  <2>4. QED
    BY <1>3, <2>1, <2>2, <2>3
<1> HIDE DEF started
<1>6. begun \in Session /\ Fit(R, begun) /\ begun.state.activeTaskId = t /\ OthersKept(s, begun, t)
  <2>1. begun.state.activeTaskId = t
    BY <1>4, <1>5, TaskKept, Values
  <2>2. begun.taskState.tasks = started.taskState.tasks
    BY <1>4, <1>5, AssignmentsKeepTasks DEF SameTasks
  <2>3. OthersKept(s, begun, t)
    BY <1>1, <1>5, <2>2 DEF OthersKept, Session, TaskState
  <2>4. QED
    BY <1>1, <2>1, <2>3, ExecutionStartedFit DEF Fit
<1>7. \/ session' = begun
      \/ \E satisfied \in BOOLEAN : session' = ExecutionEnded(begun, t, satisfied)
  BY <1>6 DEF Execute, Return
<1> HIDE DEF begun
<1>8. QED
  BY <1>1, <1>6, <1>7, ExecutionEndedAlone DEF OthersKept, t

-----------------------------------------------------------------------------
(* The parts of continueTaskLoop. *)

LEMMA StartTaskGated ==
  ASSUME NEW R \in Resumptions, NEW s, Fit(R, s), NEW d, Reaches(s), AtWork(s),
         s.taskState.activeTaskId # NoTask, StartTask(s, d)
  PROVE  Gated(session')
<1> DEFINE t == s.taskState.activeTaskId
           begun == Started(s, t)
<1>1. s \in Session /\ t \in TaskIds
  BY DEF Fit, Session, TaskState
<1>2. CASE Saved(PausedOn(s, t))
  <2>1. SameTasks(s, session')
    BY <1>1, <1>2, AssignmentsKeepTasks DEF Saved, Return
  <2>2. QED
    BY <2>1, ReachesGated DEF SameTasks, Reaches
<1>3. ASSUME UnsatisfiedDependencies(s, t) = {}
      PROVE  session.taskState.planned => DependenciesDone(t)
  BY <1>1, <1>3, PlanShape DEF UnsatisfiedDependencies, Reaches, DependenciesDone
<1>4. CASE UnsatisfiedDependencies(s, t) = {} /\ Verify(begun, begun)
  <2>1. Fit(R, begun) /\ begun \in Session
    BY <1>1, StartedFit DEF Fit
  <2>2. begun.state = s.state /\ begun.taskState.activeTaskId = t
    BY <1>1 DEF Started, WithStatus, Session, TaskState
  <2>3. OthersKept(s, begun, t)
    BY <1>1, StatusAlone DEF Started
  <2> HIDE DEF begun
  <2>4. OthersKept(begun, session', t)
    BY <1>4, <2>1, <2>2, VerifyAlone DEF AtWork
  <2>5. OthersKept(s, session', t)
    BY <2>3, <2>4 DEF OthersKept
  <2>6. QED
    BY <1>1, <1>3, <1>4, <2>5, OneStartedGated
<1>5. CASE UnsatisfiedDependencies(s, t) = {} /\ Execute(s, d)
  BY <1>1, <1>3, <1>5, ExecuteAlone, OneStartedGated
<1>6. QED
  BY <1>2, <1>4, <1>5 DEF StartTask

LEMMA ActivatedAlone ==
  ASSUME NEW R \in Resumptions,
         NEW s \in Session, Fit(R, s), NEW m \in MilestoneIds, NEW t \in TaskIds
  PROVE  /\ Activated(s, m, t).taskState.tasks = [s.taskState.tasks EXCEPT ![t] = "todo"]
         /\ Activated(s, m, t).taskState.planned = s.taskState.planned
<1> DEFINE active == WithActiveTask(s, t)
           onTask == WithStatus(active, t, "todo")
           tagged == WithMilestone(onTask, m)
           onMilestone == WithMilestoneStatus(tagged, m, "in_progress")
           phased == InPhase(onMilestone, "planning")
           routed == WithFlow(phased, "milestone")
           Same(r) == /\ r.taskState.tasks = [s.taskState.tasks EXCEPT ![t] = "todo"]
                      /\ r.taskState.planned = s.taskState.planned
<1>1. active \in Session /\ Fit(R, active) /\ SameTasks(s, active)
  BY WithActiveTaskFit, AssignmentsKeepTasks DEF Fit
<1>2. onTask \in Session /\ Fit(R, onTask) /\ Same(onTask)
  BY <1>1, WithStatusFit, StatusAlone, Values DEF Fit, SameTasks
<1>3. tagged \in Session /\ Fit(R, tagged) /\ Same(tagged)
  <2>1. tagged \in Session /\ Fit(R, tagged)
    BY <1>2, WithMilestoneFit DEF Fit
  <2>2. QED
    BY <1>2, <2>1 DEF WithMilestone, Session, TaskState
<1>4. onMilestone \in Session /\ Fit(R, onMilestone) /\ Same(onMilestone)
  BY <1>3, WithMilestoneStatusFit, Values DEF Fit, WithMilestoneStatus, Session, TaskState
<1>5. phased \in Session /\ Fit(R, phased) /\ Same(phased)
  BY <1>4, InPhaseFit, AssignmentsKeepTasks, Values DEF Fit
<1>6. routed \in Session /\ Same(routed)
  BY <1>5, WithFlowFit, AssignmentsKeepTasks, Values DEF Fit
<1>7. Same(Invalidated(routed))
  BY <1>6 DEF Invalidated, WithReport, Session, TaskState
<1>8. QED
  BY <1>7 DEF Activated

\* Advancing starts no task: the one it turns to is put back to todo.
LEMMA AdvancedReaches ==
  ASSUME NEW R \in Resumptions, NEW s, Fit(R, s), Reaches(s), CanAdvance(s)
  PROVE  Reaches(Advanced(s))
<1> DEFINE m == s.taskState.activeMilestoneId
           closed == WithMilestoneStatus(s, m, "done")
           next == NextMilestone(s, m)
           task == OrElse(FirstReadyTaskForMilestone(closed, next), FallbackTask(m))
<1>1. s \in Session /\ m \in MilestoneIds
  BY DEF Fit, CanAdvance, Milestones
<1>2. closed \in Session /\ Fit(R, closed) /\ SameTasks(s, closed)
  BY <1>1, WithMilestoneStatusFit, Values
     DEF Fit, WithMilestoneStatus, SameTasks, Session, TaskState
<1>3. SameTasks(s, Concluded(closed, m)) /\ SameTasks(s, WaitingForMilestone(closed))
  BY <1>2 DEF Concluded, WaitingForMilestone, SameTasks, InPhase, WithMilestone, WithActiveTask,
     WithBlocker, Entered, Session, TaskState
<1>4. ASSUME next # NoMilestone
      PROVE  Reaches(Activated(closed, next, task))
  <2>1. next \in MilestoneIds /\ FallbackTask(m) \in TaskIds
    BY <1>1, <1>4, FallbackTaskType
  <2>2. FirstReadyTaskForMilestone(closed, next) \in TaskIds \cup {0}
    BY FirstOfType DEF FirstReadyTaskForMilestone, Ready
  <2>3. task \in TaskIds
    BY <2>1, <2>2 DEF OrElse
  <2> HIDE DEF task, closed, next
  <2>4. /\ Activated(closed, next, task).taskState.tasks =
             [closed.taskState.tasks EXCEPT ![task] = "todo"]
        /\ Activated(closed, next, task).taskState.planned = closed.taskState.planned
    BY <1>2, <2>1, <2>3, ActivatedAlone
  <2>5. closed.taskState.tasks \in [TaskIds -> TaskStatuses]
    BY <1>2 DEF Session, TaskState
  <2>6. QED
    BY <1>2, <2>3, <2>4, <2>5 DEF Reaches, SameTasks
<1>5. \/ Advanced(s) = Concluded(closed, m)
      \/ Advanced(s) = WaitingForMilestone(closed)
      \/ next # NoMilestone /\ Advanced(s) = Activated(closed, next, task)
  BY DEF Advanced
<1> HIDE DEF closed, next, task
<1>6. QED
  BY <1>3, <1>4, <1>5 DEF Reaches, SameTasks

LEMMA LeaveTaskGated ==
  ASSUME NEW R \in Resumptions, NEW s, Fit(R, s), NEW d, Reaches(s), LeaveTask(s, d)
  PROVE  Gated(session')
<1> DEFINE next == NextTodoTask(s, s.taskState.activeTaskId)
           pending == NextPendingTask(s, s.taskState.activeTaskId)
           advanced == Advanced(s)
<1>1. s \in Session
  BY DEF Fit
<1>2. CASE \/ next # NoTask /\ session' = InPhase(WithActiveTask(s, next), "planning")
           \/ session' = PausedOn(s, pending)
           \/ session' = s
  <2>1. next # NoTask => WithActiveTask(s, next) \in Session
    BY <1>1, NextTaskTypes, WithActiveTaskFit DEF Fit
  <2>2. SameTasks(s, session')
    BY <1>1, <1>2, <2>1, AssignmentsKeepTasks DEF SameTasks
  <2>3. QED
    BY <2>2, ReachesGated DEF SameTasks, Reaches
<1>3. CASE CanAdvance(s) /\ session' = advanced
  BY <1>3, AdvancedReaches, ReachesGated
<1>4. CASE CanAdvance(s) /\ advanced.state.phase = "planning" /\ StartTask(advanced, advanced)
  <2>1. Fit(R, advanced) /\ advanced.taskState.activeTaskId # NoTask /\ Reaches(advanced)
    BY <1>1, <1>4, AdvancedFit, AdvancedHasTask, AdvancedReaches
  <2>2. QED
    BY <1>4, <2>1, StartTaskGated DEF AtWork
<1>5. QED
  BY <1>2, <1>3, <1>4 DEF LeaveTask, Saved, Unsaved, Return

LEMMA RunTaskGated ==
  ASSUME NEW R \in Resumptions, NEW s, Fit(R, s), NEW d, Reaches(s), AtWork(s), RunTask(s, d)
  PROVE  Gated(session')
<1> DEFINE t == s.taskState.activeTaskId
           requeued == AutoRecovered(s, t)
<1>1. s \in Session /\ t \in TaskIds \cup {NoTask}
  BY DEF Fit, Session, TaskState
<1>2. CASE StatusOf(s, t) = "todo" /\ StartTask(s, d)
  BY <1>2, StartTaskGated DEF StatusOf
<1>3. CASE StatusOf(s, t) \in {"in_progress", "validated"} /\ (Verify(s, d) \/ Saved(Reviewed(s)))
  <2>1. t \in TaskIds /\ session.taskState.tasks[t] \notin {"todo", "blocked"}
    BY <1>1, <1>3 DEF StatusOf, Reaches
  <2>2. Verify(s, d) => OthersKept(s, session', t)
    BY <2>1, VerifyAlone DEF TaskIds, NoTask
  <2>3. OthersKept(s, Reviewed(s), t)
    <3>1. OthersKept(s, WithStatus(s, t, "done"), t)
      BY <1>1, <2>1, StatusAlone
    <3>2. t # NoTask
      BY <2>1 DEF TaskIds, NoTask
    <3>3. WithStatus(s, t, "done") \in Session
      BY <1>1, <2>1, WithStatusFit, Values DEF Fit
    <3>4. \/ Reviewed(s) = s
          \/ Reviewed(s).taskState.tasks = WithStatus(s, t, "done").taskState.tasks
      BY <3>2, <3>3 DEF Reviewed, Entered, WithMilestoneStatus, Session, TaskState
    <3>5. QED
      BY <3>1, <3>4 DEF OthersKept
  <2>4. OthersKept(s, session', t)
    BY <1>3, <2>2, <2>3 DEF Saved, Return
  <2>5. QED
    BY <2>1, <2>4, OneStartedGated
<1>4. CASE LeaveTask(s, d)
  BY <1>4, LeaveTaskGated
<1>5. CASE StatusOf(s, t) = "blocked" /\ StartTask(requeued, requeued)
  <2>1. t \in TaskIds /\ t # NoTask
    BY <1>1, <1>5 DEF StatusOf
  <2>2. Fit(R, requeued) /\ requeued.taskState.activeTaskId # NoTask
    BY <1>1, <2>1, OverridesFit, AutoRecoveredKeepsTask
  <2>3. Marked(s, t, "todo", "none", "none") \in Session
    BY <1>1, <2>1, MarkedFit, Values DEF Fit
  <2>4. /\ requeued.taskState.tasks = [s.taskState.tasks EXCEPT ![t] = "todo"]
        /\ requeued.taskState.planned = s.taskState.planned
    BY <1>1, <2>1, <2>3, MarkedAlone, AssignmentsKeepTasks DEF AutoRecovered, SameTasks
  <2>5. requeued.state.phase = "planning"
    BY <2>3 DEF AutoRecovered, Entered, Session, RunState
  <2>6. Reaches(requeued)
    BY <1>1, <2>1, <2>4 DEF Reaches, Session, TaskState
  <2> HIDE DEF requeued
  <2>7. QED
    BY <1>5, <2>2, <2>5, <2>6, StartTaskGated DEF AtWork
<1>6. CASE Unsaved(s, d, "refused")
  BY <1>6, ReachesGated DEF Unsaved, Return
<1>7. QED
  BY <1>2, <1>3, <1>4, <1>5, <1>6 DEF RunTask

LEMMA PickTaskGated ==
  ASSUME NEW R \in Resumptions, NEW s, Fit(R, s), NEW d, Reaches(s), AtWork(s), PickTask(s, d)
  PROVE  Gated(session')
<1> DEFINE first == FirstReadyTask(s)
           onTask == WithActiveTask(s, first)
           picked == InPhase(onTask, "planning")
<1>1. CASE first # NoTask /\ RunTask(picked, picked)
  <2>1. s \in Session /\ first \in TaskIds
    BY <1>1, NextTaskTypes DEF Fit
  <2>2. Fit(R, picked)
    BY <2>1, PickedFit
  <2>3. onTask \in Session /\ SameTasks(s, onTask)
    BY <2>1, WithActiveTaskFit, AssignmentsKeepTasks DEF Fit
  <2>4. picked.taskState = onTask.taskState /\ picked.state.phase = "planning"
    BY <2>3 DEF InPhase, Session, RunState
  <2> HIDE DEF onTask, picked
  <2>5. Reaches(picked) /\ AtWork(picked)
    BY <2>3, <2>4 DEF Reaches, SameTasks, AtWork
  <2>6. QED
    BY <1>1, <2>2, <2>5, RunTaskGated
<1>2. CASE RunTask(s, d)
  BY <1>2, RunTaskGated
<1>3. QED
  BY <1>1, <1>2 DEF PickTask

LEMMA ContinueGated ==
  ASSUME NEW R \in Resumptions, SafeIn(R), ContinueTaskLoop(session, disk)
  PROVE  Gated(session')
<1> DEFINE resumed == Resumed(session)
<1>1. session \in Session /\ Fit(R, session) /\ PointersFromLedger(session) = session
  BY SafeInMeans, PointersAlready DEF Fit
<1>2. Reaches(session)
  BY DEF Reaches
<1>3. CASE session' = session
  BY <1>2, <1>3, ReachesGated
<1>4. CASE session.state.phase = "paused" /\ PickTask(resumed, resumed)
  <2>1. Fit(R, resumed)
    BY <1>1, <1>4, ResumedFit
  <2>2. Reaches(resumed)
    BY <1>1, AssignmentsKeepTasks DEF Reaches, SameTasks
  <2>3. ResumeTarget(session) \in ResumePhases \ {"none"}
    BY <1>1, Resumption DEF ResumeTarget, Fit, Going
  <2>4. resumed.state.phase = ResumeTarget(session)
    BY <1>1 DEF Resumed, WithBlocker, Entered, Session, RunState
  <2> HIDE DEF resumed
  <2>5. AtWork(resumed)
    BY <2>3, <2>4, Resumption DEF AtWork
  <2>6. QED
    BY <1>4, <2>1, <2>2, <2>5, PickTaskGated
<1>5. CASE session.state.phase # "completed" /\ PickTask(session, disk)
  BY <1>1, <1>2, <1>5, PickTaskGated DEF AtWork, Fit, Going
<1>6. QED
  BY <1>1, <1>3, <1>4, <1>5 DEF ContinueTaskLoop, Unsaved, Return

-----------------------------------------------------------------------------
(* The gate. *)

\* What DependencyGate says of a step.
Gate ==
  \A t \in TaskIds :
    /\ Continue \/ LoopStep
    /\ session.taskState.planned
    /\ session.taskState.tasks[t] \in {"todo", "blocked"}
    /\ session'.taskState.tasks[t] \notin {"todo", session.taskState.tasks[t]}
    => \A d \in PlanDeps[t] : session.taskState.tasks[d] = "done"

LEMMA SafeInGates == \A R \in Resumptions : SafeIn(R) => Gate
<1> SUFFICES ASSUME NEW R \in Resumptions, SafeIn(R) PROVE Gate
  OBVIOUS
<1>1. Continue \/ LoopStep => Gated(session')
  BY ContinueGated DEF Continue, LoopStep
<1>2. QED
  BY <1>1 DEF Gate, Gated, DependenciesDone

\* continueTaskLoop starts or restarts no task of a plan before everything the plan
\* says it depends on is done, also after overrides, failures and restarts.
THEOREM DependenciesAlwaysGate == Spec => DependencyGate
<1>1. Safe => [Gate]_vars
  BY SafeInGates, Resumption DEF Safe
<1>2. QED
  BY <1>1, SpecSafe, PTL DEF DependencyGate, Gate

-----------------------------------------------------------------------------
(* What memory and files satisfy each, and the methods that keep it. *)

\* Where a run that is not over has a task, what is at work is that task, and a
\* completed run has none unfinished.  Each but the first needs one kind of command
\* not to be used.
Tidy(s) ==
  /\ s.state.phase \notin {"idle", "clarifying", "completed"} => Active(s) # NoTask
  /\ s.state.activePlanPath /\ s.state.phase # "completed" => Active(s) # NoTask
  /\ Active(s) = NoTask /\ CanAdvance(s) =>
       NextMilestone(s, s.taskState.activeMilestoneId) = NoMilestone
  /\ "advance" \notin Commands => OneAtWork(s)
  /\ "input" \notin Commands =>
       /\ s.state.currentFlow # "worker_validator"
       /\ s.state.phase = "completed" => ActiveStatus(s) \in {"done", "absent"}

\* The flow, the plan and the task are the same.
SamePlan(s, r) ==
  /\ r.state.currentFlow = s.state.currentFlow
  /\ r.state.activePlanPath = s.state.activePlanPath
  /\ Active(r) = Active(s)

SameReport(s, r) ==
  /\ r.state.lastVerificationStatus = s.state.lastVerificationStatus
  /\ r.state.lastVerificationPath = s.state.lastVerificationPath

\* The flows that commands other than requests put a run in.
OwnFlows == {"milestone", "disciplined_single"}

LEMMA TouchedTidy ==
  ASSUME NEW s \in Session, NEW r \in Session, Tidy(s), Active(s) \in TaskIds,
         Active(r) = Active(s), OthersKept(s, r, Active(s)),
         "input" \notin Commands => r.state.currentFlow \in {s.state.currentFlow} \cup OwnFlows,
         "input" \notin Commands => r.state.phase # "completed" \/ ActiveStatus(r) = "done"
  PROVE  Tidy(r)
<1>1. Active(r) # NoTask
  BY DEF TaskIds, NoTask
<1>2. OneAtWork(s) => OneAtWork(r)
  BY DEF OneAtWork, OthersKept
<1>3. QED
  BY <1>1, <1>2 DEF Tidy, OwnFlows

\* The run turns to a task while none is at work.
LEMMA TurnedTidy ==
  ASSUME NEW s \in Session, NEW r \in Session, Tidy(s), Active(r) \in TaskIds,
         "advance" \in Commands \/ ActiveStatus(s) \notin InWork,
         OthersKept(s, r, Active(r)),
         "input" \notin Commands =>
           r.state.currentFlow \in {s.state.currentFlow} \cup OwnFlows /\ r.state.phase # "completed"
  PROVE  Tidy(r)
<1>1. Active(r) # NoTask
  BY DEF TaskIds, NoTask
<1>2. ASSUME "advance" \notin Commands
      PROVE  OneAtWork(r)
  <2>1. OneAtWork(s) /\ ActiveStatus(s) \notin InWork
    BY <1>2 DEF Tidy
  <2>2. \A t \in TaskIds : s.taskState.tasks[t] \notin InWork
    BY <2>1 DEF OneAtWork, ActiveStatus, StatusOf, TaskIds, NoTask
  <2>3. QED
    BY <2>2 DEF OneAtWork, OthersKept
<1>3. QED
  BY <1>1, <1>2 DEF Tidy, OwnFlows

\* A run without tasks.
LEMMA ClearedTidy ==
  ASSUME NEW s \in Session
  PROVE  LET r == Cleared(s)
         IN  /\ Tidy(r) /\ r.taskState.tasks = [t \in TaskIds |-> "absent"]
             /\ Active(r) = NoTask /\ r.state.activeTaskId = NoTask
             /\ r.state.phase = "idle" /\ r.state.currentFlow = "auto"
             /\ r.state.lastVerificationPath = FALSE /\ ~r.state.activePlanPath
             /\ ~CanAdvance(r)
<1> DEFINE r == Cleared(s)
<1>1. /\ r.taskState.tasks = [t \in TaskIds |-> "absent"]
      /\ Active(r) = NoTask /\ r.state.activeTaskId = NoTask
      /\ r.state.phase = "idle" /\ r.state.currentFlow = "auto"
      /\ r.state.lastVerificationPath = FALSE /\ ~r.state.activePlanPath
      /\ ~CanAdvance(r)
  BY DEF Cleared, InitialRunState, InitialTaskState, Active, CanAdvance
<1> HIDE DEF r
<1>2. Tidy(r)
  BY <1>1 DEF Tidy, OneAtWork, InWork
<1>3. QED
  BY <1>1, <1>2 DEF r

LEMMA ReopenedTidy ==
  ASSUME NEW s \in Session, Sound(s), Tidy(s)
  PROVE  LET r == Reopened(s)
         IN  /\ r \in Session /\ Sound(r) /\ Tidy(r)
             /\ r.state.phase \notin {"completed", "cancelled"}
             /\ s.state.phase # "completed" => r = s
             /\ s.state.phase = "completed" => r = Cleared(s)
             /\ PassedReview(r) => PassedReview(s)
             /\ \A t \in TaskIds : r.taskState.tasks[t] \in {s.taskState.tasks[t], "absent"}
<1>1. Reopened(s) \in Session /\ Sound(Reopened(s))
  BY ReopenedSound DEF Sound
<1>2. s.state.phase # "cancelled"
  BY DEF Sound, Live
<1>3. CASE s.state.phase = "completed"
  <2>1. Reopened(s) = Cleared(s)
    BY <1>3 DEF Reopened
  <2>2. /\ Tidy(Cleared(s)) /\ Cleared(s).state.phase = "idle"
        /\ Cleared(s).taskState.tasks = [t \in TaskIds |-> "absent"]
    BY ClearedTidy
  <2>3. ~PassedReview(Cleared(s))
    BY <2>2 DEF PassedReview
  <2>4. QED
    BY <1>1, <1>3, <2>1, <2>2, <2>3
<1>4. CASE s.state.phase # "completed"
  BY <1>1, <1>2, <1>4 DEF Reopened
<1>5. QED
  BY <1>3, <1>4

\* What executeCurrentTask makes of the run before it awaits the worker.
LEMMA BegunTidy ==
  ASSUME NEW s \in Session, Sound(s), Tidy(s)
  PROVE  LET r == ExecutionStarted(s)
         IN  /\ r \in Session /\ Sound(r) /\ Tidy(r)
             /\ Active(r) \in TaskIds /\ r.state.activeTaskId = Active(r)
             /\ r.taskState.tasks[Active(r)] = "in_progress"
             /\ r.state.phase # "completed"
             /\ PassedReview(r) => PassedReview(s)
             /\ \A t \in TaskIds : r.taskState.tasks[t] = "done" => s.taskState.tasks[t] = "done"
<1> DEFINE opened == Reopened(s)
           routed == Routed(opened)
           phased == IF routed.state.phase \in {"planning", "paused"}
                     THEN InPhase(routed, "implementing") ELSE routed
           chosen == WithSomeTask(phased)
           t == chosen.state.activeTaskId
           started == Started(chosen, t)
           r == ExecutionStarted(s)
           Same(x, y) == /\ y.taskState.tasks = x.taskState.tasks
                         /\ SameReport(x, y)
                         /\ y.state.currentFlow \in {x.state.currentFlow} \cup OwnFlows
                         /\ y.state.phase \in {x.state.phase, "implementing"}
<1>1. /\ opened \in Session /\ Sound(opened) /\ Tidy(opened)
      /\ opened.state.phase \notin {"completed", "cancelled"}
      /\ PassedReview(opened) => PassedReview(s)
      /\ \A u \in TaskIds : opened.taskState.tasks[u] \in {s.taskState.tasks[u], "absent"}
  BY ReopenedTidy
<1> HIDE DEF opened
<1>2. routed \in Session /\ Sound(routed) /\ Same(opened, routed) /\ Active(routed) = Active(opened)
  <2>1. routed \in Session /\ Sound(routed)
    BY <1>1, RoutedSound DEF Sound
  <2>2. QED
    BY <1>1, <2>1 DEF Routed, WithFlow, OwnFlows, SameReport, Active, Session, RunState
<1> HIDE DEF routed
<1>3. phased \in Session /\ Sound(phased) /\ Same(opened, phased) /\ Active(phased) = Active(opened)
  <2>1. phased \in Session /\ Sound(phased)
    BY <1>2, InPhaseSound, Values DEF Sound
  <2>2. QED
    BY <1>2, <2>1 DEF InPhase, OwnFlows, SameReport, Active, Session, RunState
<1> HIDE DEF phased
<1>4. /\ chosen \in Session /\ Sound(chosen) /\ t \in TaskIds /\ Active(chosen) = t
      /\ Same(opened, chosen)
      /\ Active(opened) # NoTask => t = Active(opened)
  <2>1. chosen \in Session /\ Sound(chosen) /\ t \in TaskIds
    BY <1>3, WithSomeTaskSound DEF Sound
  <2>2. Active(chosen) = t /\ phased.state.activeTaskId = Active(phased)
    BY <1>3, <2>1 DEF Sound, Agree, Active
  <2>3. Same(opened, chosen)
    BY <1>3, <2>1 DEF WithSomeTask, WithActiveTask, SameReport, Session, RunState, TaskState
  <2>4. Active(opened) # NoTask => t = Active(opened)
    BY <1>3, <2>2 DEF WithSomeTask
  <2>5. QED
    BY <2>1, <2>2, <2>3, <2>4
<1> HIDE DEF chosen
<1> HIDE DEF t
<1>5. /\ started.state = chosen.state /\ Active(started) = t /\ started \in Session
      /\ started.taskState.tasks = [opened.taskState.tasks EXCEPT ![t] = "in_progress"]
  BY <1>4 DEF Started, WithStatus, Active, Session, TaskState, TaskStatuses
<1> HIDE DEF started
<1>6. r = ResumingInto(started, "implementing")
  BY DEF ExecutionStarted, started, t, chosen, phased, routed, opened
<1>7. /\ r.state = chosen.state /\ Active(r) = t
      /\ r.taskState.tasks = [opened.taskState.tasks EXCEPT ![t] = "in_progress"]
  BY <1>5, <1>6 DEF ResumingInto, Active, Session, TaskState
<1>8. r \in Session /\ Sound(r)
  BY ExecutionStartedSound DEF Sound
<1> HIDE DEF r
<1>9. /\ r.taskState.tasks[t] = "in_progress" /\ OthersKept(opened, r, t)
      /\ opened.taskState.tasks \in [TaskIds -> TaskStatuses]
  BY <1>1, <1>4, <1>7 DEF OthersKept, Session, TaskState
<1>10. \A u \in TaskIds : r.taskState.tasks[u] = "done" => s.taskState.tasks[u] = "done"
  BY <1>1, <1>4, <1>9 DEF OthersKept
<1>11. Tidy(r)
  <2>1. CASE Active(opened) # NoTask
    BY <1>1, <1>4, <1>7, <1>8, <1>9, <2>1, TouchedTidy
  <2>2. CASE Active(opened) = NoTask
    <3>1. ActiveStatus(opened) \notin InWork
      BY <2>2 DEF ActiveStatus, StatusOf, InWork
    <3>2. QED
      BY <1>1, <1>4, <1>7, <1>8, <1>9, <3>1, TurnedTidy
  <2>3. QED
    BY <2>1, <2>2
<1>12. PassedReview(r) => PassedReview(s)
  <2>1. /\ r.state.lastVerificationStatus = opened.state.lastVerificationStatus
        /\ r.state.lastVerificationPath = opened.state.lastVerificationPath
        /\ r.state.phase \in {opened.state.phase, "implementing"}
    BY <1>4, <1>7 DEF SameReport
  <2>2. PassedReview(r) => PassedReview(opened)
    BY <2>1 DEF PassedReview
  <2>3. QED
    BY <1>1, <2>2
<1>13. Active(r) \in TaskIds /\ r.state.activeTaskId = Active(r) /\ r.state.phase # "completed"
  BY <1>1, <1>4, <1>7 DEF t
<1>14. QED
  BY <1>7, <1>8, <1>9, <1>10, <1>11, <1>12, <1>13 DEF r

\* The end of the execution.
LEMMA ExecutionEndedTidy ==
  ASSUME NEW s \in Session, Sound(s), Tidy(s), NEW t \in TaskIds, t = Active(s),
         s.taskState.tasks[t] = "in_progress", s.state.phase # "completed",
         s.taskState.resumePhase = "implementing", NEW satisfied \in BOOLEAN
  PROVE  LET r == ExecutionEnded(s, t, satisfied)
         IN  /\ Tidy(r) /\ ~PassedReview(r)
             /\ \A u \in TaskIds : r.taskState.tasks[u] = "done" => s.taskState.tasks[u] = "done"
<1> DEFINE cleared == Invalidated(s)
           output == WithOutput(cleared, t)
           noted == WithHint(output, t, "none")
           marked == Marked(noted, t, "blocked", "no_changes", "implementation_no_changes")
           r == ExecutionEnded(s, t, satisfied)
           Same(x, y) == /\ SamePlan(x, y) /\ y.state.phase \in {x.state.phase, "paused"}
                         /\ y.state.lastVerificationPath = x.state.lastVerificationPath
                         /\ y.taskState.tasks \in {x.taskState.tasks,
                                                   [x.taskState.tasks EXCEPT ![t] = "blocked"]}
<1>1. /\ cleared \in Session /\ Sound(cleared) /\ SamePlan(s, cleared)
      /\ cleared.state.phase = s.state.phase /\ cleared.taskState.tasks = s.taskState.tasks
      /\ cleared.state.lastVerificationPath = FALSE
  <2>1. cleared \in Session /\ Sound(cleared)
    BY InvalidatedSound DEF Sound
  <2>2. QED
    BY <2>1 DEF Invalidated, WithReport, SamePlan, Active, Session, RunState, TaskState
<1> HIDE DEF cleared
<1>2. output \in Session /\ Sound(output) /\ Same(cleared, output)
  <2>1. output \in Session /\ Sound(output)
    BY <1>1, WithOutputSound DEF Sound
  <2>2. QED
    BY <1>1, <2>1 DEF WithOutput, SamePlan, Active, Session, TaskState
<1>3. noted \in Session /\ Sound(noted) /\ Same(cleared, noted)
  <2> HIDE DEF output
  <2>1. noted \in Session /\ Sound(noted)
    BY <1>2, WithHintSound, Values DEF Sound
  <2>2. Same(output, noted) /\ noted.taskState.tasks = output.taskState.tasks
    BY <1>2, <2>1 DEF WithHint, SamePlan, Active, Session, TaskState
  <2>3. output.taskState.tasks = cleared.taskState.tasks
    BY <1>1 DEF output, WithOutput, Session, TaskState
  <2>4. QED
    BY <1>2, <2>1, <2>2, <2>3 DEF SamePlan
<1>4. noted.taskState.tasks = cleared.taskState.tasks
  BY <1>1 DEF noted, output, WithHint, WithOutput, Session, TaskState
<1> HIDE DEF output, noted
<1>5. /\ marked \in Session /\ Sound(marked)
      /\ marked.taskState.tasks = [noted.taskState.tasks EXCEPT ![t] = "blocked"]
      /\ SamePlan(noted, marked)
      /\ marked.state.lastVerificationPath = noted.state.lastVerificationPath
  <2>1. marked \in Session /\ Sound(marked)
    BY <1>3, MarkedSound, Values DEF Sound
  <2>2. QED
    BY <1>3, <2>1 DEF Marked, WithStatus, WithBlocker, WithTaskBlocker, WithHint, SamePlan, Active,
       Session, RunState, TaskState
<1> HIDE DEF marked
<1>6. r = IF satisfied THEN noted ELSE InPhase(marked, "paused")
  BY DEF ExecutionEnded, marked, noted, output, cleared
<1>7. Same(cleared, r)
  <2>1. CASE satisfied
    BY <1>3, <1>6, <2>1
  <2>2. CASE ~satisfied
    <3>1. /\ InPhase(marked, "paused").taskState = marked.taskState
          /\ InPhase(marked, "paused").state.phase = "paused"
          /\ InPhase(marked, "paused").state.currentFlow = marked.state.currentFlow
          /\ InPhase(marked, "paused").state.activePlanPath = marked.state.activePlanPath
          /\ InPhase(marked, "paused").state.lastVerificationPath = marked.state.lastVerificationPath
      BY <1>5 DEF InPhase, Session, RunState
    <3>2. QED
      BY <1>3, <1>4, <1>5, <1>6, <2>2, <3>1 DEF SamePlan, Active
  <2>3. QED
    BY <2>1, <2>2
<1>8. r \in Session
  BY ExecutionEndedSound DEF Sound
<1> HIDE DEF r
<1>9. OthersKept(s, r, t) /\ r.taskState.tasks[t] \in {"in_progress", "blocked"}
  BY <1>1, <1>7 DEF OthersKept, Session, TaskState
<1>10. Tidy(r)
  BY <1>1, <1>7, <1>8, <1>9, TouchedTidy DEF SamePlan
<1>11. ~PassedReview(r)
  BY <1>1, <1>7 DEF PassedReview
<1>12. QED
  BY <1>9, <1>10, <1>11 DEF r, OthersKept

\* verify, up to its checks: the run has a task to check.
LEMMA CheckedTidy ==
  ASSUME NEW s \in Session, Sound(s), Tidy(s)
  PROVE  LET opened == VerificationStarted(s)
             r == InPhase(opened, "verifying")
         IN  /\ ~CanTransition(opened.state.phase, "verifying") => opened = s
             /\ CanTransition(opened.state.phase, "verifying") =>
                  /\ r \in Session /\ Sound(r) /\ Tidy(r)
                  /\ Active(r) \in TaskIds /\ r.state.activeTaskId = Active(r)
                  /\ r.state.phase = "verifying" /\ ~PassedReview(s)
                  /\ \A t \in TaskIds : r.taskState.tasks[t] = "done" => s.taskState.tasks[t] = "done"
<1> DEFINE opened == VerificationStarted(s)
           r == InPhase(opened, "verifying")
<1>1. opened \in Session /\ Sound(opened)
  BY VerificationStartedSound DEF Sound
<1>2. r \in Session /\ Sound(r)
  BY <1>1, InPhaseSound, Values DEF Sound
<1>3. CASE s.state.phase = "completed"
  <2> DEFINE cleared == Cleared(s)
             named == WithActiveTask(cleared, 1)
             started == Started(named, 1)
  <2>1. /\ cleared \in Session /\ Tidy(cleared) /\ Active(cleared) = NoTask
        /\ cleared.state.activeTaskId = NoTask
        /\ cleared.taskState.tasks = [t \in TaskIds |-> "absent"]
        /\ cleared.state.currentFlow = "auto"
    BY ClearedTidy, ClearedSound DEF Sound
  <2> HIDE DEF cleared
  <2>2. 1 \in TaskIds
    BY Values
  <2>3. /\ named \in Session
        /\ named.taskState.activeTaskId = 1 /\ named.taskState.tasks = cleared.taskState.tasks
        /\ named.state.currentFlow = "auto"
    BY <2>1, <2>2 DEF WithActiveTask, Session, RunState, TaskState
  <2> HIDE DEF named
  <2>4. /\ started \in Session /\ started.state = named.state
        /\ started.taskState.activeTaskId = 1
        /\ started.taskState.tasks = [cleared.taskState.tasks EXCEPT ![1] = "in_progress"]
    BY <2>2, <2>3 DEF Started, WithStatus, Session, TaskState, TaskStatuses
  <2> HIDE DEF started
  <2>5. opened = InPhase(started, "implementing")
    BY <1>3, <2>1 DEF VerificationStarted, WithSomeTask, started, named, cleared
  <2> HIDE DEF opened
  <2>6. /\ r.taskState = started.taskState /\ r.state.phase = "verifying"
        /\ r.state.currentFlow = "auto" /\ opened.state.phase = "implementing"
    <3>1. /\ opened.taskState = started.taskState /\ opened.state.currentFlow = "auto"
          /\ opened.state.phase = "implementing"
      BY <2>3, <2>4, <2>5 DEF InPhase, Session, RunState
    <3>2. QED
      BY <1>1, <3>1 DEF InPhase, Session, RunState
  <2> HIDE DEF r
  <2>7. OthersKept(cleared, r, 1) /\ Active(r) = 1 /\ r.taskState.tasks[1] = "in_progress"
    BY <2>1, <2>2, <2>4, <2>6 DEF OthersKept, Active
  <2>8. ActiveStatus(cleared) \notin InWork
    BY <2>1 DEF ActiveStatus, StatusOf, InWork
  <2>9. Tidy(r)
    BY <1>2, <2>1, <2>2, <2>6, <2>7, <2>8, TurnedTidy
  <2>10. CanTransition(opened.state.phase, "verifying") /\ ~PassedReview(s)
    BY <1>3, <2>6 DEF CanTransition, AllowedTransitions, Phases, PassedReview
  <2>11. \A t \in TaskIds : r.taskState.tasks[t] # "done"
    BY <2>1, <2>7 DEF OthersKept
  <2>12. r.state.activeTaskId = Active(r)
    BY <1>2 DEF Sound, Agree, Active
  <2>13. QED
    BY <1>2, <2>2, <2>6, <2>7, <2>9, <2>10, <2>11, <2>12 DEF opened, r
<1>4. CASE s.state.phase # "completed"
  <2>1. opened = s \/ (s.state.phase = "planning" /\ opened = InPhase(s, "implementing"))
    BY <1>4 DEF VerificationStarted
  <2>2. /\ opened.taskState = s.taskState /\ opened.state.currentFlow = s.state.currentFlow
        /\ opened.state.phase \in {s.state.phase, "implementing"}
    BY <2>1 DEF InPhase, Session, RunState
  <2>3. /\ r.taskState = s.taskState /\ r.state.phase = "verifying"
        /\ r.state.currentFlow = s.state.currentFlow
    BY <1>1, <2>2 DEF InPhase, Session, RunState
  <2>4. ~CanTransition(opened.state.phase, "verifying") => opened = s
    <3>1. s.state.phase = "planning" /\ opened = InPhase(s, "implementing") =>
            opened.state.phase = "implementing"
      BY DEF InPhase, Session, RunState
    <3>2. CanTransition("implementing", "verifying")
      BY DEF CanTransition, AllowedTransitions, Phases
    <3> HIDE DEF opened
    <3>3. QED
      BY <2>1, <3>1, <3>2
  <2> HIDE DEF opened, r
  <2>5. ASSUME CanTransition(opened.state.phase, "verifying")
        PROVE  s.state.phase \in {"planning", "implementing", "verifying", "paused"}
    <3>1. s.state.phase \in Phases /\ s.state.phase # "cancelled"
      BY DEF Session, RunState, Sound, Live
    <3>2. ~ CanTransition("idle", "verifying") /\ ~ CanTransition("clarifying", "verifying")
          /\ ~ CanTransition("reviewing", "verifying")
      BY DEF CanTransition, AllowedTransitions, Phases
    <3>3. s.state.phase # "planning" => opened = s
      BY <2>1
    <3>4. QED
      BY <1>4, <2>5, <3>1, <3>2, <3>3 DEF Phases
  <2>6. ASSUME CanTransition(opened.state.phase, "verifying")
        PROVE  Active(s) \in TaskIds /\ ~PassedReview(s)
    BY <2>5, <2>6 DEF Tidy, Active, PassedReview, Session, TaskState
  <2>7. OthersKept(s, r, Active(s)) /\ Active(r) = Active(s)
        /\ r.state.activeTaskId = Active(r)
    BY <1>2, <2>3 DEF OthersKept, Active, Sound, Agree
  <2>8. ASSUME CanTransition(opened.state.phase, "verifying")
        PROVE  Tidy(r)
    BY <1>2, <2>3, <2>6, <2>7, <2>8, TouchedTidy
  <2>9. QED
    BY <1>2, <2>3, <2>4, <2>6, <2>7, <2>8 DEF opened, r
<1>5. QED
  BY <1>3, <1>4

\* The verdict: the task is validated and under review, or blocked and the run paused.
LEMMA VerificationEndedTidy ==
  ASSUME NEW s \in Session, Sound(s), Tidy(s), Active(s) \in TaskIds, NEW failed
  PROVE  LET r == VerificationEnded(s, failed)
         IN  /\ r \in Session /\ Sound(r) /\ Tidy(r) /\ Active(r) = Active(s)
             /\ PassedReview(r) => /\ VerificationStatus(s, failed) = "pass"
                                   /\ r.taskState.tasks[Active(r)] = "validated"
             /\ \A t \in TaskIds : r.taskState.tasks[t] = "done" => s.taskState.tasks[t] = "done"
<1> DEFINE t == s.taskState.activeTaskId
           status == VerificationStatus(s, failed)
           reported == WithReport(s, status, TRUE)
           accepted == WithHint(WithStatus(reported, t, "validated"), t, "none")
           rejected == Marked(reported, t, "blocked", FailureText(failed), RecoveryHint(s, failed))
           recorded == VerdictRecorded(s, failed)
           r == VerificationEnded(s, failed)
           Same(x, y) == /\ y.state.currentFlow = x.state.currentFlow
                         /\ y.taskState.activeTaskId = x.taskState.activeTaskId
<1>1. t \in TaskIds /\ t # NoTask /\ s.state.activeTaskId = t
  BY DEF Active, Sound, Agree, TaskIds, NoTask
<1>2. status \in {"pass", "fail"} /\ (status = "pass" <=> failed = {})
  BY <1>1 DEF VerificationStatus
<1>3. reported \in Session
  BY <1>2, WithReportSound, Values DEF Sound
<1>4. reported.taskState.tasks = s.taskState.tasks /\ Same(s, reported)
  BY DEF WithReport, Session, RunState, TaskState
<1>5. recorded = IF failed = {} THEN accepted ELSE rejected
  BY <1>1, <1>2 DEF VerdictRecorded
<1> HIDE DEF t, status, reported
<1>6. /\ accepted.taskState.tasks = [s.taskState.tasks EXCEPT ![t] = "validated"]
      /\ Same(reported, accepted)
  BY <1>1, <1>3, <1>4 DEF WithHint, WithStatus, Session, TaskState
<1>7. /\ rejected.taskState.tasks = [s.taskState.tasks EXCEPT ![t] = "blocked"]
      /\ Same(reported, rejected)
  BY <1>1, <1>3, <1>4 DEF Marked, WithStatus, WithBlocker, WithTaskBlocker, WithHint, Session,
     RunState, TaskState
<1>8. recorded \in Session /\ Same(s, recorded)
      /\ recorded.taskState.tasks =
           [s.taskState.tasks EXCEPT ![t] = IF failed = {} THEN "validated" ELSE "blocked"]
  BY <1>4, <1>5, <1>6, <1>7, VerdictRecordedSound
<1> HIDE DEF accepted, rejected, recorded
<1>9. /\ Same(recorded, r) /\ r.taskState.tasks = recorded.taskState.tasks
      /\ r.state.phase = VerdictPhase(s, failed)
  BY <1>8 DEF VerificationEnded, Entered, recorded, Session, RunState, TaskState
<1>10. r \in Session /\ Sound(r)
  BY VerificationEndedSound DEF Sound
<1> HIDE DEF r
<1>11. OthersKept(s, r, t) /\ Active(r) = t /\ Active(s) = t
       /\ r.taskState.tasks[t] = IF failed = {} THEN "validated" ELSE "blocked"
  BY <1>1, <1>8, <1>9 DEF OthersKept, Active, Session, TaskState, t
<1>12. r.state.phase = IF failed = {} THEN "reviewing" ELSE "paused"
  BY <1>2, <1>9 DEF VerdictPhase, status
<1>13. Tidy(r)
  BY <1>1, <1>8, <1>9, <1>10, <1>11, <1>12, TouchedTidy
<1>14. PassedReview(r) => status = "pass" /\ r.taskState.tasks[t] = "validated"
  BY <1>2, <1>11, <1>12 DEF PassedReview
<1>15. QED
  BY <1>10, <1>11, <1>13, <1>14 DEF r, status, OthersKept

\* enterWorkerValidator.
LEMMA WorkerValidatorEnteredTidy ==
  ASSUME NEW s \in Session, Sound(s), Tidy(s), "input" \in Commands
  PROVE  LET r == WorkerValidatorEntered(s)
         IN  /\ Tidy(r) /\ ~PassedReview(r)
             /\ \A t \in TaskIds : r.taskState.tasks[t] = "done" => s.taskState.tasks[t] = "done"
<1> DEFINE routed == WithFlow(s, "worker_validator")
           phased == IF routed.state.phase = "idle" THEN InPhase(routed, "planning") ELSE routed
           chosen == WithSomeTask(phased)
           t == chosen.state.activeTaskId
           started == Started(chosen, t)
           resuming == ResumingInto(started, "implementing")
           cleared == Invalidated(resuming)
           r == WorkerValidatorEntered(s)
<1>1. routed \in Session /\ Sound(routed) /\ routed.taskState = s.taskState
  BY WithFlowSound, Values DEF Sound, WithFlow, Session
<1> HIDE DEF routed
<1>2. phased \in Session /\ Sound(phased) /\ phased.taskState = s.taskState
  <2>1. phased.taskState = s.taskState
    BY <1>1 DEF InPhase, Session
  <2>2. QED
    BY <1>1, <2>1, InPhaseSound, Values DEF Sound
<1> HIDE DEF phased
<1>3. /\ chosen \in Session /\ Sound(chosen) /\ t \in TaskIds
      /\ chosen.taskState.tasks = s.taskState.tasks /\ Active(chosen) = t
      /\ Active(s) # NoTask => t = Active(s)
  <2>1. chosen \in Session /\ Sound(chosen) /\ t \in TaskIds
    BY <1>2, WithSomeTaskSound DEF Sound
  <2>2. chosen.taskState.tasks = s.taskState.tasks
    BY <1>2 DEF WithSomeTask, WithActiveTask, Session, TaskState
  <2>3. Active(chosen) = t /\ phased.state.activeTaskId = Active(s)
    BY <1>2, <2>1 DEF Sound, Agree, Active
  <2>4. Active(s) # NoTask => t = Active(s)
    BY <2>3 DEF WithSomeTask
  <2>5. QED
    BY <2>1, <2>2, <2>3, <2>4
<1> HIDE DEF chosen
<1> HIDE DEF t
<1>4. /\ started \in Session /\ Active(started) = t
      /\ started.taskState.tasks = [s.taskState.tasks EXCEPT ![t] = "in_progress"]
  BY <1>3 DEF Started, WithStatus, Active, Session, TaskState, TaskStatuses
<1> HIDE DEF started
<1>5. /\ resuming \in Session /\ Active(resuming) = t
      /\ resuming.taskState.tasks = started.taskState.tasks
  BY <1>4, Values DEF ResumingInto, Active, Session, TaskState
<1> HIDE DEF resuming
<1>6. /\ cleared \in Session /\ Active(cleared) = t
      /\ cleared.taskState.tasks = started.taskState.tasks
      /\ cleared.state.lastVerificationPath = FALSE
  BY <1>5, Values DEF Invalidated, WithReport, Active, Session, RunState, TaskState
<1> HIDE DEF cleared
<1>7. r = WithOutput(cleared, t)
  BY DEF WorkerValidatorEntered, cleared, resuming, started, t, chosen, phased, routed
<1>8. /\ Active(r) = t /\ r.taskState.tasks = started.taskState.tasks
      /\ r.state.lastVerificationPath = FALSE
  BY <1>6, <1>7 DEF WithOutput, Active, Session, TaskState
<1>9. r \in Session
  BY WorkerValidatorEnteredSound DEF Sound
<1> HIDE DEF r
<1>10. /\ r.taskState.tasks[t] = "in_progress" /\ OthersKept(s, r, t)
  BY <1>3, <1>4, <1>8 DEF OthersKept, Session, TaskState
<1>11. Tidy(r)
  <2>1. CASE Active(s) # NoTask
    BY <1>3, <1>8, <1>9, <1>10, <2>1, TouchedTidy
  <2>2. CASE Active(s) = NoTask
    <3>1. ActiveStatus(s) \notin InWork
      BY <2>2 DEF ActiveStatus, StatusOf, InWork
    <3>2. QED
      BY <1>3, <1>8, <1>9, <1>10, <3>1, TurnedTidy
  <2>3. QED
    BY <2>1, <2>2
<1>12. ~PassedReview(r)
  BY <1>8 DEF PassedReview
<1>13. QED
  BY <1>10, <1>11, <1>12 DEF r, OthersKept

\* review.
LEMMA ReviewedTidy ==
  ASSUME NEW s \in Session, Sound(s), Tidy(s)
  PROVE  LET r == Reviewed(s)
         IN  /\ Tidy(r)
             /\ ~PassedReview(s) => r = s
             /\ PassedReview(s) => /\ ~PassedReview(r) /\ Active(s) \in TaskIds
                                   /\ OthersKept(s, r, Active(s))
<1> DEFINE t == s.taskState.activeTaskId
           m == s.taskState.activeMilestoneId
           accepted == WithStatus(s, t, "done")
           phased == IF /\ s.state.currentFlow = "milestone" /\ m # NoMilestone
                        /\ HasNextMilestone(s, m)
                     THEN Entered(accepted, "paused", "planning")
                     ELSE Entered(accepted, "completed", "none")
           r == Reviewed(s)
<1>1. CASE ~PassedReview(s)
  BY <1>1 DEF Reviewed
<1>2. CASE PassedReview(s)
  <2>1. t \in TaskIds /\ t # NoTask /\ t = Active(s)
    BY <1>2 DEF PassedReview, Tidy, Active, Session, TaskState
  <2>2. /\ accepted \in Session /\ accepted.state = s.state /\ Active(accepted) = t
        /\ accepted.taskState.tasks = [s.taskState.tasks EXCEPT ![t] = "done"]
    BY <2>1 DEF WithStatus, Active, Session, TaskState, TaskStatuses
  <2>3. r = phased \/ r = WithMilestoneStatus(phased, m, "done")
    BY <1>2, <2>1 DEF Reviewed
  <2> HIDE DEF accepted
  <2>4. /\ phased.state.phase \in {"paused", "completed"}
        /\ phased.state.currentFlow = s.state.currentFlow
        /\ Active(phased) = t /\ phased.taskState.tasks = accepted.taskState.tasks
    BY <2>2 DEF Entered, Active, Session, RunState, TaskState
  <2>5. phased \in Session
    <3>1. /\ Entered(accepted, "paused", "planning") \in Session
          /\ Entered(accepted, "completed", "none") \in Session
      BY <2>2, Values DEF Entered, Session, RunState, TaskState
    <3>2. QED
      BY <3>1
  <2> HIDE DEF phased
  <2>6. /\ r.state.phase \in {"paused", "completed"}
        /\ r.state.currentFlow = s.state.currentFlow
        /\ Active(r) = t /\ r.taskState.tasks = accepted.taskState.tasks
    BY <2>3, <2>4, <2>5 DEF WithMilestoneStatus, Active, Session, TaskState
  <2>7. r \in Session
    BY ReviewedSound DEF Sound
  <2> HIDE DEF r
  <2>8. OthersKept(s, r, t) /\ r.taskState.tasks[t] = "done"
    BY <2>1, <2>2, <2>6 DEF OthersKept, Session, TaskState
  <2>9. ActiveStatus(r) = "done"
    BY <2>1, <2>6, <2>8 DEF ActiveStatus, StatusOf
  <2>10. Tidy(r)
    BY <2>1, <2>6, <2>7, <2>8, <2>9, TouchedTidy
  <2>11. ~PassedReview(r)
    BY <2>6 DEF PassedReview
  <2>12. QED
    BY <1>2, <2>1, <2>8, <2>10, <2>11 DEF r
<1>3. QED
  BY <1>1, <1>2

\* advanceMilestone.  A run without a task has no milestone to go on to.
LEMMA AdvancedTidy ==
  ASSUME NEW s \in Session, Sound(s), Tidy(s), CanAdvance(s),
         "advance" \in Commands \/ ActiveStatus(s) \notin InWork
  PROVE  LET r == Advanced(s)
         IN  /\ Tidy(r) /\ ~PassedReview(r)
             /\ r.state.phase = "planning" => ActiveStatus(r) = "todo"
             /\ \A t \in TaskIds : r.taskState.tasks[t] = "done" => s.taskState.tasks[t] = "done"
<1> DEFINE m == s.taskState.activeMilestoneId
           closed == WithMilestoneStatus(s, m, "done")
           next == NextMilestone(s, m)
           task == OrElse(FirstReadyTaskForMilestone(closed, next), FallbackTask(m))
           r == Advanced(s)
<1>1. m \in MilestoneIds /\ m # NoMilestone
  BY DEF CanAdvance, Milestones
<1>2. /\ closed \in Session /\ Sound(closed) /\ closed.state = s.state
      /\ closed.taskState.tasks = s.taskState.tasks /\ Active(closed) = Active(s)
      /\ closed.taskState.milestones = [s.taskState.milestones EXCEPT ![m] = "done"]
  <2>1. closed \in Session /\ Sound(closed)
    BY <1>1, WithMilestoneStatusSound, Values DEF Sound
  <2>2. QED
    BY <1>1, <2>1 DEF WithMilestoneStatus, Active, Session, TaskState
<1>3. r \in Session
  BY AdvancedSound DEF Sound
<1>4. r = IF next = NoMilestone THEN Concluded(closed, m)
          ELSE IF UnsatisfiedMilestoneDependencies(closed, next) # {} THEN WaitingForMilestone(closed)
          ELSE Activated(closed, next, task)
  BY DEF Advanced
<1>5. s.taskState.tasks \in [TaskIds -> TaskStatuses]
  BY DEF Session, TaskState
<1> HIDE DEF closed, r
<1>6. CASE next = NoMilestone
  <2>1. r = Concluded(closed, m)
    BY <1>4, <1>6
  <2>2. /\ r.state.phase = "completed" /\ r.state.currentFlow = s.state.currentFlow
        /\ Active(r) = NoTask /\ r.taskState.tasks = s.taskState.tasks
        /\ r.taskState.activeMilestoneId = m
        /\ r.taskState.milestones = closed.taskState.milestones
    BY <1>2, <2>1 DEF Concluded, InPhase, WithMilestone, WithActiveTask, Active, Session,
       RunState, TaskState
  <2>3. Milestones(r) = Milestones(s)
    <3>1. m \in Milestones(s)
      BY DEF CanAdvance
    <3>2. s.taskState.milestones \in [MilestoneIds -> MilestoneStatuses]
      BY DEF Session, TaskState
    <3>3. QED
      BY <1>1, <1>2, <2>2, <3>1, <3>2 DEF Milestones
  <2>4. NextMilestone(r, m) = NoMilestone
    BY <1>6, <2>3 DEF NextMilestone
  <2>5. "advance" \notin Commands => OneAtWork(r)
    BY <2>2 DEF Tidy, OneAtWork, ActiveStatus, StatusOf, NoTask, TaskIds
  <2>6. ActiveStatus(r) = "absent"
    BY <2>2 DEF ActiveStatus, StatusOf
  <2>7. Tidy(r) /\ ~PassedReview(r)
    BY <2>2, <2>4, <2>5, <2>6 DEF Tidy, PassedReview
  <2>8. QED
    BY <2>2, <2>7 DEF r
<1>7. CASE next # NoMilestone /\ UnsatisfiedMilestoneDependencies(closed, next) # {}
  <2>1. r = WaitingForMilestone(closed)
    BY <1>4, <1>7
  <2>2. /\ r.state.phase = "paused" /\ r.state.currentFlow = s.state.currentFlow
        /\ Active(r) = Active(s) /\ r.taskState.tasks = s.taskState.tasks
    BY <1>2, <2>1 DEF WaitingForMilestone, WithBlocker, Entered, Active, Session, RunState, TaskState
  <2>3. Active(s) \in TaskIds
    BY <1>7 DEF Tidy, Active, Session, TaskState
  <2>4. OthersKept(s, r, Active(s))
    BY <2>2 DEF OthersKept
  <2>5. Tidy(r) /\ ~PassedReview(r)
    BY <1>3, <2>2, <2>3, <2>4, TouchedTidy DEF PassedReview
  <2>6. QED
    BY <2>2, <2>5 DEF r
<1>8. CASE next # NoMilestone /\ UnsatisfiedMilestoneDependencies(closed, next) = {}
  <2>1. next \in MilestoneIds /\ FallbackTask(m) \in TaskIds
    BY <1>1, <1>8, FallbackTaskType
  <2>2. task \in TaskIds
    <3>1. FirstReadyTaskForMilestone(closed, next) \in TaskIds \cup {0}
      BY FirstOfType DEF FirstReadyTaskForMilestone, Ready
    <3>2. QED
      BY <2>1, <3>1 DEF OrElse
  <2>3. r = Activated(closed, next, task)
    BY <1>4, <1>8
  <2> HIDE DEF task, next
  <2>4. /\ r.taskState.tasks = [s.taskState.tasks EXCEPT ![task] = "todo"]
        /\ Active(r) = task
    <3>1. Fit(WorkPhases, closed)
      BY <1>2, SoundIsFit
    <3>2. r.taskState.tasks = [closed.taskState.tasks EXCEPT ![task] = "todo"]
      BY <1>2, <2>1, <2>2, <2>3, <3>1, ActivatedAlone, Resumption
    <3>3. QED
      BY <1>2, <2>1, <2>2, <2>3, <3>2, ActivatedSound DEF Active
  <2>5. r.state.phase = "planning" /\ r.state.currentFlow = "milestone"
    <3> DEFINE active == WithActiveTask(closed, task)
               onTask == WithStatus(active, task, "todo")
               tagged == WithMilestone(onTask, next)
               onMilestone == WithMilestoneStatus(tagged, next, "in_progress")
               routed == WithFlow(InPhase(onMilestone, "planning"), "milestone")
    <3>1. active \in Session
      BY <1>2, <2>2, WithActiveTaskSound DEF Sound
    <3> HIDE DEF active
    <3>2. onTask \in Session
      BY <2>2, <3>1, Values DEF WithStatus, Session, TaskState
    <3> HIDE DEF onTask
    <3>3. tagged \in Session
      BY <2>1, <3>2 DEF WithMilestone, Session, RunState, TaskState
    <3> HIDE DEF tagged
    <3>4. onMilestone \in Session
      BY <2>1, <3>3, Values DEF WithMilestoneStatus, Session, TaskState
    <3> HIDE DEF onMilestone
    <3>5. routed \in Session /\ routed.state.phase = "planning" /\ routed.state.currentFlow = "milestone"
      BY <3>4, Values DEF WithFlow, InPhase, Session, RunState
    <3> HIDE DEF routed
    <3>6. r = Invalidated(routed)
      BY <2>3 DEF Activated, routed, onMilestone, tagged, onTask, active
    <3>7. QED
      BY <3>5, <3>6 DEF Invalidated, WithReport, Session, RunState
  <2>6. OthersKept(s, r, task) /\ r.taskState.tasks[task] = "todo"
    BY <1>5, <2>2, <2>4 DEF OthersKept
  <2>7. Tidy(r) /\ ~PassedReview(r)
    BY <1>3, <2>2, <2>4, <2>5, <2>6, TurnedTidy DEF PassedReview, OwnFlows
  <2>8. ActiveStatus(r) = "todo"
    <3>1. task # NoTask
      BY <2>2 DEF TaskIds, NoTask
    <3>2. QED
      BY <2>4, <2>6, <3>1 DEF ActiveStatus, StatusOf
  <2>9. QED
    BY <2>6, <2>7, <2>8 DEF OthersKept, r
<1>9. QED
  BY <1>6, <1>7, <1>8

\* resume of a paused run.
LEMMA ResumedTidy ==
  ASSUME NEW s \in Session, Sound(s), Tidy(s), s.state.phase = "paused"
  PROVE  LET r == Resumed(s)
         IN  /\ Tidy(r) /\ ~PassedReview(r) /\ r.state.phase # "completed"
             /\ r.taskState.tasks = s.taskState.tasks
<1> DEFINE r == Resumed(s)
<1>1. ResumeTarget(s) \in {"planning", "implementing"}
  BY DEF ResumeTarget, Sound, Live, Resumable
<1>2. /\ r.state.phase = ResumeTarget(s) /\ r.state.currentFlow = s.state.currentFlow
      /\ Active(r) = Active(s) /\ r.taskState.tasks = s.taskState.tasks
  BY DEF Resumed, WithBlocker, Entered, Active, Session, RunState, TaskState
<1>3. r \in Session
  BY ResumedSound DEF Sound
<1> HIDE DEF r
<1>4. Active(s) \in TaskIds /\ OthersKept(s, r, Active(s))
  BY <1>2 DEF Tidy, OthersKept, Active, Session, TaskState
<1>5. Tidy(r) /\ ~PassedReview(r)
  BY <1>1, <1>2, <1>3, <1>4, TouchedTidy DEF PassedReview
<1>6. QED
  BY <1>1, <1>2, <1>5 DEF r

\* A status and a blocker for the active task, and the phase that goes with them.
LEMMA MarkedTidy ==
  ASSUME NEW s \in Session, Tidy(s), NEW t \in TaskIds, t = Active(s), NEW v \in TaskStatuses,
         NEW b \in Blockers, NEW h \in Hints, NEW p \in {"planning", "paused"}
  PROVE  LET r == Entered(Marked(s, t, v, b, h), p, "implementing")
         IN  /\ r \in Session /\ Tidy(r) /\ ~PassedReview(r) /\ r.state.phase = p
             /\ r.taskState.tasks = [s.taskState.tasks EXCEPT ![t] = v]
<1> DEFINE marked == Marked(s, t, v, b, h)
           r == Entered(marked, p, "implementing")
<1>1. marked \in Session
  BY DEF Marked, WithStatus, WithBlocker, WithTaskBlocker, WithHint, Session, RunState, TaskState
<1>2. /\ marked.state.currentFlow = s.state.currentFlow /\ Active(marked) = t
      /\ marked.taskState.tasks = [s.taskState.tasks EXCEPT ![t] = v]
  BY DEF Marked, WithStatus, WithBlocker, WithTaskBlocker, WithHint, Active, Session, RunState,
     TaskState
<1> HIDE DEF marked
<1>3. /\ r.state.phase = p /\ r.state.currentFlow = s.state.currentFlow /\ Active(r) = t
      /\ r.taskState.tasks = [s.taskState.tasks EXCEPT ![t] = v] /\ r \in Session
  BY <1>1, <1>2, Values DEF Entered, Active, Session, RunState, TaskState
<1> HIDE DEF r
<1>4. OthersKept(s, r, t)
  BY <1>3 DEF OthersKept, Session, TaskState
<1>5. Tidy(r) /\ ~PassedReview(r)
  BY <1>3, <1>4, TouchedTidy DEF PassedReview
<1>6. QED
  BY <1>3, <1>5 DEF r, marked

\* The operator's overrides.
LEMMA OverridesTidy ==
  ASSUME NEW s \in Session, Tidy(s), NEW t \in TaskIds, t = Active(s)
  PROVE  /\ Tidy(AutoRecovered(s, t)) /\ ~PassedReview(AutoRecovered(s, t))
         /\ Tidy(TaskBlocked(s, t)) /\ ~PassedReview(TaskBlocked(s, t))
         /\ Tidy(TaskUnblocked(s, t)) /\ ~PassedReview(TaskUnblocked(s, t))
         /\ \A r \in {AutoRecovered(s, t), TaskBlocked(s, t), TaskUnblocked(s, t)}, u \in TaskIds :
              r.taskState.tasks[u] = "done" => s.taskState.tasks[u] = "done"
         /\ Tidy(TaskDone(s, t)) /\ ActiveStatus(TaskDone(s, t)) = "done"
<1> DEFINE accepted == WithStatus(s, t, "done")
           r == TaskDone(s, t)
<1>1. s.taskState.tasks \in [TaskIds -> TaskStatuses]
  BY DEF Session, TaskState
<1>2. /\ Tidy(AutoRecovered(s, t)) /\ ~PassedReview(AutoRecovered(s, t))
      /\ AutoRecovered(s, t).taskState.tasks = [s.taskState.tasks EXCEPT ![t] = "todo"]
  BY MarkedTidy, Values DEF AutoRecovered
<1>3. /\ Tidy(TaskBlocked(s, t)) /\ ~PassedReview(TaskBlocked(s, t))
      /\ TaskBlocked(s, t).taskState.tasks = [s.taskState.tasks EXCEPT ![t] = "blocked"]
  BY MarkedTidy, Values DEF TaskBlocked
<1>4. /\ Tidy(TaskUnblocked(s, t)) /\ ~PassedReview(TaskUnblocked(s, t))
      /\ TaskUnblocked(s, t).taskState.tasks = [s.taskState.tasks EXCEPT ![t] = "todo"]
  BY MarkedTidy, Values DEF TaskUnblocked
<1>5. \A x \in {AutoRecovered(s, t), TaskBlocked(s, t), TaskUnblocked(s, t)}, u \in TaskIds :
        x.taskState.tasks[u] = "done" => s.taskState.tasks[u] = "done"
  BY <1>1, <1>2, <1>3, <1>4
<1>6. /\ accepted \in Session /\ accepted.state = s.state /\ Active(accepted) = t
      /\ accepted.taskState.tasks = [s.taskState.tasks EXCEPT ![t] = "done"]
  BY DEF WithStatus, Active, Session, TaskState, TaskStatuses
<1>7. r = InPhase(accepted, "reviewing")
  BY DEF TaskDone
<1> HIDE DEF accepted
<1>8. /\ r \in Session /\ r.state.phase = "reviewing" /\ r.state.currentFlow = s.state.currentFlow
      /\ Active(r) = t /\ r.taskState.tasks = [s.taskState.tasks EXCEPT ![t] = "done"]
  BY <1>6, <1>7, Values DEF InPhase, Active, Session, RunState
<1> HIDE DEF r
<1>9. OthersKept(s, r, t) /\ r.taskState.tasks[t] = "done"
  BY <1>1, <1>8 DEF OthersKept
<1>10. ActiveStatus(r) = "done"
  <2>1. t # NoTask
    BY DEF TaskIds, NoTask
  <2>2. QED
    BY <1>8, <1>9, <2>1 DEF ActiveStatus, StatusOf
<1>11. Tidy(r)
  BY <1>8, <1>9, <1>10, TouchedTidy
<1>12. QED
  BY <1>2, <1>3, <1>4, <1>5, <1>10, <1>11 DEF r

\* The loop turns to another task, in a pause or at planning.
LEMMA OnTaskTidy ==
  ASSUME NEW s \in Session, Tidy(s), NEW t \in TaskIds, ActiveStatus(s) \notin InWork
  PROVE  \A r \in {PausedOn(s, t), InPhase(WithActiveTask(s, t), "planning")} :
           /\ Tidy(r) /\ ~PassedReview(r) /\ r.state.phase # "completed"
           /\ r.taskState.tasks = s.taskState.tasks /\ Active(r) = t
<1> DEFINE moved == WithActiveTask(s, t)
           On(r) == /\ r \in Session /\ r.state.phase \in {"planning", "paused"}
                    /\ r.state.currentFlow = s.state.currentFlow
                    /\ r.taskState.tasks = s.taskState.tasks /\ Active(r) = t
<1>1. /\ moved \in Session /\ moved.state.currentFlow = s.state.currentFlow
      /\ moved.taskState.tasks = s.taskState.tasks /\ Active(moved) = t
  BY DEF WithActiveTask, Active, Session, RunState, TaskState
<1> HIDE DEF moved
<1>2. On(Entered(moved, "paused", "planning"))
  BY <1>1, Values DEF Entered, Active, Session, RunState, TaskState
<1>3. On(InPhase(moved, "planning"))
  BY <1>1, Values DEF InPhase, Active, Session, RunState, TaskState
<1>4. ASSUME NEW r, On(r)
      PROVE  /\ Tidy(r) /\ ~PassedReview(r) /\ r.state.phase # "completed"
             /\ r.taskState.tasks = s.taskState.tasks /\ Active(r) = t
  <2>1. OthersKept(s, r, Active(r)) /\ Active(r) \in TaskIds
    BY <1>4 DEF OthersKept
  <2>2. Tidy(r)
    BY <1>4, <2>1, TurnedTidy
  <2>3. QED
    BY <1>4, <2>2 DEF PassedReview
<1>5. QED
  BY <1>2, <1>3, <1>4 DEF PausedOn, moved

\* A new plan; every task of it is todo.
LEMMA PlannedTidy ==
  ASSUME NEW s \in Session, Sound(s), NEW goal \in GoalSummaries, NEW longRunning \in BOOLEAN
  PROVE  LET r == Planned(s, goal, longRunning)
         IN  /\ Tidy(r) /\ ~PassedReview(r)
             /\ r.taskState.tasks = [t \in TaskIds |-> "todo"] /\ Active(r) = 1
<1> DEFINE r == Planned(s, goal, longRunning)
<1>1. r \in Session
  BY PlannedSound DEF Sound
<1>2. Cleared(s) \in Session
  BY ClearedSound DEF Sound
<1>3. r.taskState.tasks = [t \in TaskIds |-> "todo"] /\ Active(r) = 1
  BY <1>2 DEF Planned, Active, Session, TaskState
<1>4. r.state.phase = "planning" /\ r.state.currentFlow \in OwnFlows
  BY <1>2 DEF Planned, OwnFlows, Session, RunState
<1> HIDE DEF r
<1>5. OneAtWork(r) /\ Active(r) # NoTask
  BY <1>3 DEF OneAtWork, InWork, NoTask
<1>6. Tidy(r) /\ ~PassedReview(r)
  BY <1>4, <1>5 DEF Tidy, PassedReview, OwnFlows
<1>7. QED
  BY <1>3, <1>6 DEF r

LEMMA ResetTidy ==
  ASSUME NEW s \in Session
  PROVE  LET r == Reset(s)
         IN  /\ Tidy(r) /\ ~PassedReview(r) /\ r.taskState.tasks = [t \in TaskIds |-> "absent"]
<1> DEFINE r == Reset(s)
<1>1. /\ r.taskState.tasks = [t \in TaskIds |-> "absent"]
      /\ Active(r) = NoTask /\ r.state.phase = "idle" /\ r.state.currentFlow = "auto"
      /\ ~r.state.activePlanPath /\ ~CanAdvance(r)
  BY DEF Reset, InitialRunState, InitialTaskState, Active, CanAdvance
<1> HIDE DEF r
<1>2. Tidy(r) /\ ~PassedReview(r)
  BY <1>1 DEF Tidy, OneAtWork, InWork, PassedReview
<1>3. QED
  BY <1>1, <1>2 DEF r

\* The run is the same, on the handoff pointer, blockers or metadata only the sessions differ.
LEMMA SameRunTidy ==
  ASSUME NEW s \in Session, NEW r \in Session, Sound(s), Sound(r), SameRun(s, r), Tidy(s)
  PROVE  /\ Tidy(r) /\ PassedReview(r) = PassedReview(s)
         /\ Active(r) = Active(s) /\ ActiveStatus(r) = ActiveStatus(s)
         /\ r.taskState.tasks = s.taskState.tasks
<1>1. Active(r) = Active(s) /\ s.state.activeTaskId = Active(s)
  BY DEF Active, Sound, Agree, SameRun
<1>2. ActiveStatus(r) = ActiveStatus(s) /\ r.taskState.tasks = s.taskState.tasks
  BY <1>1 DEF ActiveStatus, StatusOf, SameRun
<1>3. Milestones(r) = Milestones(s) /\ (\A m : NextMilestone(r, m) = NextMilestone(s, m))
  BY DEF Milestones, NextMilestone, SameRun
<1>4. Active(s) = NoTask => /\ r.taskState.activeMilestoneId = s.taskState.activeMilestoneId
                            /\ CanAdvance(r) = CanAdvance(s)
  BY <1>1, <1>3 DEF SameRun, CanAdvance
<1>5. OneAtWork(r) = OneAtWork(s)
  BY <1>1, <1>2 DEF OneAtWork
<1>6. /\ r.state.phase = s.state.phase /\ r.state.currentFlow = s.state.currentFlow
      /\ r.state.activePlanPath = s.state.activePlanPath
      /\ r.state.lastVerificationPath = s.state.lastVerificationPath
      /\ r.state.lastVerificationStatus = s.state.lastVerificationStatus
  BY DEF SameRun
<1>7. Tidy(r)
  BY <1>1, <1>2, <1>3, <1>4, <1>5, <1>6 DEF Tidy
<1>8. PassedReview(r) = PassedReview(s)
  BY <1>6 DEF PassedReview
<1>9. QED
  BY <1>1, <1>2, <1>7, <1>8

-----------------------------------------------------------------------------
(* What commands make of memory, files and evidence together. *)

\* No execution fails: none is asked for, or the executors never throw.  The loop may
\* still fail, but from a session whose report is already void.
NoThrow == "execute" \notin Commands \/ ~MayFail

\* What a review would accept is done already, or was verified after its last execution.
Vouched(s, known) ==
  PassedReview(s) =>
    \/ ActiveStatus(s) = "done"
    \/ ActiveStatus(s) = "validated" /\ Active(s) \in known

\* What a review of the files would accept, one of the session in memory accepts, too.
Lasting(s, d) ==
  PassedReview(d) =>
    PassedReview(s) /\ Active(s) = Active(d) /\ s.taskState.tasks = d.taskState.tasks

Fine(s, d, known) ==
  /\ Tidy(s) /\ Tidy(d)
  /\ NoThrow => Vouched(s, known) /\ Vouched(d, known) /\ Lasting(s, d)

\* A call that started from s leaves all of this, and newly done is only what was verified.
Settled(s) ==
  /\ Fine(session', disk', evidence')
  /\ \A t \in TaskIds :
       session'.taskState.tasks[t] = "done" =>
         s.taskState.tasks[t] = "done" \/ (NoThrow => t \in evidence)

LEMMA SavedFine ==
  ASSUME NEW r, Saved(r), Tidy(r), Vouched(r, evidence')
  PROVE  Fine(session', disk', evidence')
  BY DEF Saved, Return, Fine, Lasting

\* Nothing is there to review.
LEMMA SavedSettled ==
  ASSUME NEW s, NEW r, Saved(r), Tidy(r), ~PassedReview(r),
         \A t \in TaskIds : r.taskState.tasks[t] = "done" => s.taskState.tasks[t] = "done"
  PROVE  Settled(s)
<1>1. Fine(session', disk', evidence')
  BY SavedFine DEF Vouched
<1>2. QED
  BY <1>1 DEF Settled, Saved, Return

LEMMA SettledFrom ==
  ASSUME NEW s, NEW r, Settled(r),
         \A t \in TaskIds : r.taskState.tasks[t] = "done" => s.taskState.tasks[t] = "done"
  PROVE  Settled(s)
  BY DEF Settled

\* The command failed and left r in memory, with nothing to review in it or in the files.
LEMMA FailedSettled ==
  ASSUME NEW s, NEW r, NEW d, NEW o, Unsaved(r, d, o) \/ Return(r, d, o), Tidy(r), Tidy(d),
         ~PassedReview(r), NoThrow => ~PassedReview(d),
         \A t \in TaskIds : r.taskState.tasks[t] = "done" => s.taskState.tasks[t] = "done"
  PROVE  Settled(s)
  BY DEF Settled, Fine, Vouched, Lasting, Unsaved, Return

\* A refused command leaves things as they are.
LEMMA RefusedSettled ==
  ASSUME NEW s, NEW d, NEW o, Unsaved(s, d, o), evidence' = evidence, Fine(s, d, evidence)
  PROVE  Settled(s)
  BY DEF Settled, Unsaved, Return

\* Only tasks the ledger knows nothing of are forgotten.
LEMMA StillVouched ==
  ASSUME NEW s \in Session, NEW d, Active(s) \in TaskIds \cup {NoTask}, Fine(s, d, evidence)
  PROVE  Fine(s, d, StillKnown(s))
<1>1. ASSUME Vouched(s, evidence) PROVE Vouched(s, StillKnown(s))
  BY <1>1 DEF Vouched, StillKnown, ActiveStatus, StatusOf
<1>2. ASSUME Vouched(d, evidence), Lasting(s, d) PROVE Vouched(d, StillKnown(s))
  BY <1>2 DEF Vouched, Lasting, StillKnown, ActiveStatus, StatusOf
<1>3. QED
  BY <1>1, <1>2 DEF Fine

LEMMA VerifySettled ==
  ASSUME NEW s, Sound(s), NEW d, Fine(s, d, evidence), Verify(s, d)
  PROVE  Settled(s)
<1> DEFINE opened == VerificationStarted(s)
           checked == InPhase(opened, "verifying")
           target == checked.state.activeTaskId
<1>1. s \in Session /\ Tidy(s) /\ Tidy(d) /\ Active(s) \in TaskIds \cup {NoTask}
  BY DEF Sound, Fine, Active, Session, TaskState
<1>2. /\ ~CanTransition(opened.state.phase, "verifying") => opened = s
      /\ CanTransition(opened.state.phase, "verifying") =>
           /\ checked \in Session /\ Sound(checked) /\ Tidy(checked)
           /\ Active(checked) \in TaskIds /\ target = Active(checked)
           /\ checked.state.phase = "verifying" /\ ~PassedReview(s)
           /\ \A t \in TaskIds : checked.taskState.tasks[t] = "done" => s.taskState.tasks[t] = "done"
  BY <1>1, CheckedTidy
<1>3. CASE /\ ~CanTransition(opened.state.phase, "verifying")
           /\ Unsaved(opened, d, "invalid_transition")
           /\ evidence' = StillKnown(opened)
  <2>1. Unsaved(s, d, "invalid_transition") /\ evidence' = StillKnown(s)
    BY <1>2, <1>3
  <2>2. Fine(s, d, StillKnown(s))
    BY <1>1, StillVouched
  <2>3. QED
    BY <2>1, <2>2 DEF Settled, Unsaved, Return
<1>4. ASSUME CanTransition(opened.state.phase, "verifying"), NEW commandsPass \in BOOLEAN,
             Saved(VerificationEnded(checked, FailedChecks(checked, target, commandsPass))),
             VerificationStatus(checked, FailedChecks(checked, target, commandsPass)) = "pass" =>
               target \in evidence'
      PROVE  Settled(s)
  <2> DEFINE failed == FailedChecks(checked, target, commandsPass)
             r == VerificationEnded(checked, failed)
  <2> HIDE DEF opened, checked, target, failed
  <2>1. /\ r \in Session /\ Sound(r) /\ Tidy(r) /\ Active(r) = target
        /\ PassedReview(r) => /\ VerificationStatus(checked, failed) = "pass"
                              /\ r.taskState.tasks[Active(r)] = "validated"
        /\ \A t \in TaskIds : r.taskState.tasks[t] = "done" => checked.taskState.tasks[t] = "done"
    BY <1>2, <1>4, VerificationEndedTidy
  <2>2. target # NoTask
    BY <1>2, <1>4 DEF TaskIds, NoTask
  <2> HIDE DEF r
  <2>3. Vouched(r, evidence')
    BY <1>4, <2>1, <2>2 DEF Vouched, ActiveStatus, StatusOf, failed
  <2>4. Saved(r)
    BY <1>4 DEF r, failed
  <2>5. Fine(session', disk', evidence')
    BY <2>1, <2>3, <2>4, SavedFine
  <2>6. QED
    BY <1>2, <1>4, <2>1, <2>4, <2>5 DEF Settled, Saved, Return
<1>5. CASE /\ CanTransition(opened.state.phase, "verifying")
           /\ Unsaved(checked, d, "checks_failed")
  <2>1. NoThrow => ~PassedReview(d)
    BY <1>2, <1>5 DEF Fine, Lasting
  <2>2. ~PassedReview(checked)
    BY <1>2, <1>5 DEF PassedReview
  <2> HIDE DEF opened, checked
  <2>3. QED
    BY <1>1, <1>2, <1>5, <2>1, <2>2, FailedSettled
<1>6. QED
  <2>1. ASSUME NEW failed, VerificationStatus(checked, failed) = "pass",
               evidence' = IF VerificationStatus(checked, failed) = "pass"
                           THEN StillKnown(checked) \cup {target}
                           ELSE StillKnown(checked) \ {target}
        PROVE  target \in evidence'
    BY <2>1
  <2> HIDE DEF opened
  <2>2. QED
    BY <1>3, <1>4, <1>5, <2>1 DEF Verify, opened

LEMMA ExecuteSettled ==
  ASSUME NEW s, Sound(s), NEW d, Tidy(s), Tidy(d), Execute(s, d),
         NoThrow /\ MayFail => ~PassedReview(s) /\ ~PassedReview(d)
  PROVE  Settled(s)
<1> DEFINE begun == ExecutionStarted(s)
           t == begun.state.activeTaskId
<1>1. s \in Session
  BY DEF Sound
<1>2. /\ begun \in Session /\ Sound(begun) /\ Tidy(begun)
      /\ t = Active(begun) /\ t \in TaskIds /\ begun.taskState.tasks[t] = "in_progress"
      /\ begun.state.phase # "completed"
      /\ PassedReview(begun) => PassedReview(s)
      /\ \A u \in TaskIds : begun.taskState.tasks[u] = "done" => s.taskState.tasks[u] = "done"
  BY <1>1, BegunTidy
<1>3. begun.taskState.resumePhase = "implementing"
  BY <1>1, ExecutionStartedSound
<1>4. \/ \E satisfied \in BOOLEAN : /\ session' = ExecutionEnded(begun, t, satisfied)
                                    /\ disk' = ExecutionEnded(begun, t, satisfied)
      \/ MayFail /\ session' = begun /\ disk' = d /\ evidence' = StillKnown(begun) \ {t}
  BY DEF Execute, Return
<1> HIDE DEF begun, t
<1>5. ASSUME NEW satisfied \in BOOLEAN,
             session' = ExecutionEnded(begun, t, satisfied), disk' = ExecutionEnded(begun, t, satisfied)
      PROVE  Settled(s)
  <2>1. /\ Tidy(session') /\ ~PassedReview(session')
        /\ \A u \in TaskIds : session'.taskState.tasks[u] = "done" => begun.taskState.tasks[u] = "done"
    BY <1>2, <1>3, <1>5, ExecutionEndedTidy
  <2>2. QED
    BY <1>2, <1>5, <2>1 DEF Settled, Fine, Vouched, Lasting
<1>6. CASE MayFail /\ session' = begun /\ disk' = d
  <2>1. NoThrow => ~PassedReview(begun) /\ ~PassedReview(d)
    BY <1>2, <1>6
  <2>2. QED
    BY <1>2, <1>6, <2>1 DEF Settled, Fine, Vouched, Lasting
<1>7. QED
  BY <1>4, <1>5, <1>6

-----------------------------------------------------------------------------
(* The parts of continueTaskLoop. *)

LEMMA StartTaskSettled ==
  ASSUME NEW s, Sound(s), NEW d, Fine(s, d, evidence), ActiveStatus(s) = "todo",
         s.state.phase # "completed", StartTask(s, d)
  PROVE  Settled(s)
<1> DEFINE t == s.taskState.activeTaskId
           begun == Started(s, t)
<1>1. s \in Session /\ Tidy(s) /\ Tidy(d)
  BY DEF Sound, Fine
<1>2. t = Active(s) /\ t \in TaskIds /\ s.taskState.tasks[t] = "todo"
  BY <1>1 DEF Active, ActiveStatus, StatusOf, Session, TaskState
<1>3. NoThrow => ~PassedReview(s) /\ ~PassedReview(d)
  BY DEF Fine, Vouched, Lasting
<1>4. CASE Saved(PausedOn(s, t))
  <2>1. ActiveStatus(s) \notin InWork
    BY DEF InWork
  <2>2. LET r == PausedOn(s, t)
        IN  Tidy(r) /\ ~PassedReview(r) /\ r.taskState.tasks = s.taskState.tasks
    BY <1>1, <1>2, <2>1, OnTaskTidy
  <2>3. QED
    BY <1>4, <2>2, SavedSettled
<1>5. CASE Verify(begun, begun)
  <2>1. /\ begun \in Session /\ Sound(begun) /\ begun.state = s.state /\ Active(begun) = t
        /\ begun.taskState.tasks = [s.taskState.tasks EXCEPT ![t] = "in_progress"]
    <3>1. begun \in Session /\ Sound(begun)
      BY <1>1, <1>2, StartedSound DEF Sound
    <3>2. QED
      BY <1>1, <1>2, <3>1 DEF Started, WithStatus, Active, Session, TaskState
  <2> HIDE DEF begun
  <2>2. OthersKept(s, begun, t) /\ begun.taskState.tasks[t] = "in_progress"
    BY <1>1, <1>2, <2>1 DEF OthersKept, Session, TaskState
  <2>3. Tidy(begun)
    BY <1>1, <1>2, <2>1, <2>2, TouchedTidy
  <2>4. NoThrow => ~PassedReview(begun)
    BY <1>3, <2>1 DEF PassedReview
  <2>5. Fine(begun, begun, evidence)
    BY <2>3, <2>4 DEF Fine, Vouched, Lasting
  <2>6. Settled(begun)
    BY <1>5, <2>1, <2>5, VerifySettled
  <2>7. \A u \in TaskIds : begun.taskState.tasks[u] = "done" => s.taskState.tasks[u] = "done"
    BY <2>2 DEF OthersKept
  <2>8. QED
    BY <2>6, <2>7, SettledFrom
<1>6. CASE Execute(s, d)
  BY <1>1, <1>3, <1>6, ExecuteSettled
<1>7. QED
  BY <1>4, <1>5, <1>6 DEF StartTask

LEMMA LeaveTaskSettled ==
  ASSUME NEW s, Sound(s), NEW d, Fine(s, d, evidence), ActiveStatus(s) = "done",
         LeaveTask(s, d)
  PROVE  Settled(s)
<1> DEFINE next == NextTodoTask(s, s.taskState.activeTaskId)
           pending == NextPendingTask(s, s.taskState.activeTaskId)
           advanced == Advanced(s)
<1>1. s \in Session /\ Tidy(s) /\ ActiveStatus(s) \notin InWork
  BY DEF Sound, Fine, InWork
<1>2. \A t \in TaskIds : \A r \in {PausedOn(s, t), InPhase(WithActiveTask(s, t), "planning")} :
        Tidy(r) /\ ~PassedReview(r) /\ r.taskState.tasks = s.taskState.tasks
  BY <1>1, OnTaskTidy
<1>3. ASSUME NEW t \in TaskIds, NEW r \in {PausedOn(s, t), InPhase(WithActiveTask(s, t), "planning")},
             Saved(r)
      PROVE  Settled(s)
  BY <1>2, <1>3, SavedSettled
<1>4. next \in TaskIds \cup {NoTask} /\ pending \in TaskIds \cup {NoTask}
  BY NextTaskTypes
<1>5. ASSUME CanAdvance(s)
      PROVE  /\ advanced \in Session /\ Sound(advanced) /\ Tidy(advanced) /\ ~PassedReview(advanced)
             /\ advanced.state.phase = "planning" => ActiveStatus(advanced) = "todo"
             /\ \A t \in TaskIds : advanced.taskState.tasks[t] = "done" => s.taskState.tasks[t] = "done"
  <2>1. Sound(advanced)
    BY <1>1, <1>5, AdvancedSound
  <2>2. QED
    BY <1>1, <1>5, <2>1, AdvancedTidy DEF Sound
<1> HIDE DEF next, pending, advanced
<1>6. CASE /\ next # NoTask
           /\ Saved(InPhase(WithActiveTask(s, next), "planning"))
  BY <1>3, <1>4, <1>6
<1>7. CASE pending # NoTask /\ Saved(PausedOn(s, pending))
  BY <1>3, <1>4, <1>7
<1>8. CASE /\ \E o : Unsaved(s, d, o)
           /\ evidence' = evidence
  BY <1>8, RefusedSettled
<1>9. CASE CanAdvance(s) /\ Saved(advanced)
  BY <1>5, <1>9, SavedSettled
<1>10. CASE /\ CanAdvance(s) /\ advanced.state.phase = "planning"
            /\ StartTask(advanced, advanced)
  <2>1. Fine(advanced, advanced, evidence)
    BY <1>5, <1>10 DEF Fine, Vouched, Lasting
  <2>2. Settled(advanced)
    BY <1>5, <1>10, <2>1, StartTaskSettled
  <2>3. QED
    BY <1>5, <1>10, <2>2, SettledFrom
<1>11. QED
  BY <1>6, <1>7, <1>8, <1>9, <1>10 DEF LeaveTask, next, pending, advanced

\* Reviewed closes the task only when its last report passed.
LEMMA ReviewSettled ==
  ASSUME NEW s, Sound(s), NEW d, Fine(s, d, evidence), Saved(Reviewed(s)), evidence' = evidence
  PROVE  Settled(s)
<1>1. s \in Session /\ Tidy(s)
  BY DEF Sound, Fine
<1>2. CASE PassedReview(s)
  <2>1. /\ Tidy(Reviewed(s)) /\ ~PassedReview(Reviewed(s)) /\ Active(s) \in TaskIds
        /\ OthersKept(s, Reviewed(s), Active(s))
    BY <1>1, <1>2, ReviewedTidy
  <2>2. Active(s) # NoTask
    BY <2>1 DEF TaskIds, NoTask
  <2>3. NoThrow => s.taskState.tasks[Active(s)] = "done" \/ Active(s) \in evidence
    BY <1>2, <2>2 DEF Fine, Vouched, ActiveStatus, StatusOf
  <2>4. Fine(session', disk', evidence')
    BY <2>1, SavedFine DEF Vouched
  <2>5. QED
    BY <2>1, <2>3, <2>4 DEF Settled, OthersKept, Saved, Return
<1>3. CASE ~PassedReview(s)
  <2>1. Saved(s)
    BY <1>1, <1>3, ReviewedTidy
  <2>2. Fine(session', disk', evidence')
    BY <1>1, <1>3, <2>1, SavedFine DEF Vouched
  <2>3. QED
    BY <2>1, <2>2 DEF Settled, Saved, Return
<1>4. QED
  BY <1>2, <1>3

LEMMA RunTaskSettled ==
  ASSUME NEW s, Sound(s), NEW d, Fine(s, d, evidence), s.state.phase # "completed", RunTask(s, d)
  PROVE  Settled(s)
<1> DEFINE t == s.taskState.activeTaskId
           status == StatusOf(s, t)
           requeued == AutoRecovered(s, t)
<1>1. s \in Session /\ Tidy(s) /\ t = Active(s) /\ status = ActiveStatus(s)
      /\ t \in TaskIds \cup {NoTask}
  BY DEF Sound, Fine, Active, ActiveStatus, Session, TaskState
<1> HIDE DEF status
<1>2. CASE status = "todo" /\ StartTask(s, d)
  BY <1>1, <1>2, StartTaskSettled
<1>3. CASE Verify(s, d)
  BY <1>3, VerifySettled
<1>4. CASE Saved(Reviewed(s)) /\ evidence' = evidence
  BY <1>4, ReviewSettled
<1>5. CASE status = "done" /\ LeaveTask(s, d)
  BY <1>1, <1>5, LeaveTaskSettled
<1>6. CASE status = "blocked" /\ StartTask(requeued, requeued)
  <2>1. t \in TaskIds /\ t # NoTask
    BY <1>1, <1>6 DEF StatusOf, status
  <2>2. /\ requeued \in Session /\ Sound(requeued) /\ Tidy(requeued) /\ ~PassedReview(requeued)
        /\ \A u \in TaskIds : requeued.taskState.tasks[u] = "done" => s.taskState.tasks[u] = "done"
    <3>1. Sound(requeued)
      BY <1>1, <2>1, OverridesSound
    <3>2. QED
      BY <1>1, <2>1, <3>1, OverridesTidy DEF Sound
  <2>3. ActiveStatus(requeued) = "todo" /\ requeued.state.phase = "planning"
    <3>1. /\ requeued.state.phase = "planning"
          /\ requeued.taskState.tasks = [s.taskState.tasks EXCEPT ![t] = "todo"]
      BY <1>1, <2>1, MarkedTidy, Values DEF AutoRecovered
    <3>2. requeued.taskState.activeTaskId = t
      BY <1>1, <2>1, AutoRecoveredKeepsTask
    <3>3. requeued.taskState.tasks[t] = "todo"
      BY <1>1, <2>1, <3>1 DEF Session, TaskState
    <3> HIDE DEF requeued
    <3>4. QED
      BY <2>1, <3>1, <3>2, <3>3 DEF ActiveStatus, StatusOf, Active
  <2> HIDE DEF requeued
  <2>4. Fine(requeued, requeued, evidence)
    BY <2>2 DEF Fine, Vouched, Lasting
  <2>5. Settled(requeued)
    BY <1>6, <2>2, <2>3, <2>4, StartTaskSettled
  <2>6. QED
    BY <2>2, <2>5, SettledFrom
<1>7. CASE Unsaved(s, d, "refused") /\ evidence' = evidence
  BY <1>7, RefusedSettled
<1>8. QED
  BY <1>2, <1>3, <1>4, <1>5, <1>6, <1>7 DEF RunTask, status

LEMMA PickTaskSettled ==
  ASSUME NEW s, Sound(s), NEW d, Fine(s, d, evidence), s.state.phase # "completed", PickTask(s, d)
  PROVE  Settled(s)
<1> DEFINE first == FirstReadyTask(s)
           picked == InPhase(WithActiveTask(s, first), "planning")
<1>1. s \in Session /\ Tidy(s)
  BY DEF Sound, Fine
<1>2. CASE Active(s) = NoTask /\ first # NoTask /\ RunTask(picked, picked)
  <2>1. first \in TaskIds
    BY <1>2, NextTaskTypes
  <2>2. Sound(picked)
    BY <1>1, <2>1, PickedSound
  <2>3. ActiveStatus(s) \notin InWork
    BY <1>2 DEF ActiveStatus, StatusOf, InWork
  <2>4. /\ Tidy(picked) /\ ~PassedReview(picked) /\ picked.state.phase # "completed"
        /\ picked.taskState.tasks = s.taskState.tasks
    BY <1>1, <2>1, <2>3, OnTaskTidy
  <2> HIDE DEF picked
  <2>5. Fine(picked, picked, evidence)
    BY <2>4 DEF Fine, Vouched, Lasting
  <2>6. Settled(picked)
    BY <1>2, <2>2, <2>4, <2>5, RunTaskSettled
  <2>7. QED
    BY <2>4, <2>6, SettledFrom
<1>3. CASE RunTask(s, d)
  BY <1>3, RunTaskSettled
<1>4. QED
  BY <1>2, <1>3 DEF PickTask, Active

LEMMA ContinueTaskLoopSettled ==
  ASSUME NEW s, Sound(s), NEW d, Fine(s, d, evidence), ContinueTaskLoop(s, d)
  PROVE  Settled(s)
<1> DEFINE resumed == Resumed(s)
<1>1. s \in Session /\ Tidy(s) /\ PointersFromLedger(s) = s
  BY PointersFromLedgerSame DEF Sound, Fine
<1>2. CASE Unsaved(s, d, "refused") /\ evidence' = evidence
  BY <1>2, RefusedSettled
<1>3. CASE s.state.phase = "paused" /\ PickTask(resumed, resumed)
  <2>1. Sound(resumed)
    BY <1>1, <1>3, ResumedSound
  <2>2. /\ Tidy(resumed) /\ ~PassedReview(resumed) /\ resumed.state.phase # "completed"
        /\ resumed.taskState.tasks = s.taskState.tasks
    BY <1>1, <1>3, ResumedTidy
  <2> HIDE DEF resumed
  <2>3. Fine(resumed, resumed, evidence)
    BY <2>2 DEF Fine, Vouched, Lasting
  <2>4. Settled(resumed)
    BY <1>3, <2>1, <2>2, <2>3, PickTaskSettled
  <2>5. QED
    BY <2>2, <2>4, SettledFrom
<1>4. CASE s.state.phase # "completed" /\ PickTask(s, d)
  BY <1>4, PickTaskSettled
<1>5. QED
  BY <1>1, <1>2, <1>3, <1>4 DEF ContinueTaskLoop

-----------------------------------------------------------------------------
(* The commands. *)

InOrder == Fine(session, disk, evidence)

\* Text without a leading slash drops the run, and a dropped run refuses no request
\* that text makes.
LEMMA TextIsRouted ==
  ASSUME NEW c \in Classifications, NextPhase("auto", c) # "planning"
  PROVE  CanTransition("idle", NextPhase("auto", c))
  BY DEF NextPhase, DefaultPhaseForFlow, DefaultFlowForClass, CanTransition, AllowedTransitions,
     Phases

LEMMA RoutedPhases ==
  ASSUME NEW mode \in Modes, NEW c \in Classifications
  PROVE  NextPhase(mode, c) \in {"clarifying", "planning", "implementing", "verifying"}
         /\ (NextPhase(mode, c) = "verifying" => mode = "verify")
  BY DEF NextPhase, DefaultPhaseForFlow, DefaultFlowForClass, Modes

\* A run that a request is routed to.
LEMMA RoutedRunTidy ==
  ASSUME NEW s \in Session, Sound(s), Tidy(s), NEW flow \in Flows, "input" \in Commands
  PROVE  LET r == WithFlow(s, flow)
         IN  /\ Tidy(r) /\ PassedReview(r) = PassedReview(s)
             /\ Active(r) = Active(s) /\ r.taskState = s.taskState
             /\ r.state.phase = s.state.phase /\ r.state.activePlanPath = s.state.activePlanPath
             /\ r.state.activeTaskId = s.state.activeTaskId
<1> DEFINE r == WithFlow(s, flow)
<1>1. /\ r.taskState = s.taskState /\ r.state.phase = s.state.phase
      /\ r.state.activePlanPath = s.state.activePlanPath
      /\ r.state.lastVerificationPath = s.state.lastVerificationPath
      /\ r.state.lastVerificationStatus = s.state.lastVerificationStatus
      /\ r.state.activeTaskId = s.state.activeTaskId
  BY DEF WithFlow, Session, RunState
<1> HIDE DEF r
<1>2. Active(r) = Active(s) /\ PassedReview(r) = PassedReview(s)
  BY <1>1 DEF Active, PassedReview
<1>3. /\ OneAtWork(r) = OneAtWork(s) /\ CanAdvance(r) = CanAdvance(s)
      /\ \A m : NextMilestone(r, m) = NextMilestone(s, m)
  BY <1>1, <1>2 DEF OneAtWork, CanAdvance, Milestones, NextMilestone
<1>4. Tidy(r)
  BY <1>1, <1>2, <1>3 DEF Tidy
<1>5. QED
  BY <1>1, <1>2, <1>4 DEF r

\* The request enters its phase, and one that is to be carried out finds a task.
LEMMA EnteredRunTidy ==
  ASSUME NEW s \in Session, Sound(s), Tidy(s), "input" \in Commands, s.state.phase # "completed",
         NEW phase \in {"clarifying", "implementing", "verifying"}, NEW goal \in GoalSummaries,
         phase = "verifying" => s.state.activePlanPath \/ s.state.activeTaskId # NoTask
  PROVE  LET entered == WithGoal(InPhase(s, phase), goal)
             r == IF phase = "implementing" /\ entered.state.activeTaskId = NoTask
                  THEN Started(WithActiveTask(entered, 1), 1) ELSE entered
         IN  /\ Tidy(r) /\ ~PassedReview(r)
             /\ \A t \in TaskIds : r.taskState.tasks[t] = "done" => s.taskState.tasks[t] = "done"
<1> DEFINE entered == WithGoal(InPhase(s, phase), goal)
           onTask == WithActiveTask(entered, 1)
           r == Started(onTask, 1)
<1>1. s.state.activeTaskId = Active(s)
  BY DEF Sound, Agree, Active
<1>2. /\ entered \in Session /\ entered.taskState = s.taskState /\ entered.state.phase = phase
      /\ entered.state.activeTaskId = s.state.activeTaskId
      /\ entered.state.activePlanPath = s.state.activePlanPath
  BY Values DEF WithGoal, InPhase, Session, RunState, Phases
<1> HIDE DEF entered
<1>3. ~PassedReview(entered) /\ Active(entered) = Active(s)
  BY <1>2 DEF PassedReview, Active
<1>4. /\ OneAtWork(entered) = OneAtWork(s) /\ CanAdvance(entered) = CanAdvance(s)
      /\ \A m : NextMilestone(entered, m) = NextMilestone(s, m)
  BY <1>2, <1>3 DEF OneAtWork, CanAdvance, Milestones, NextMilestone
<1>5. CASE ~(phase = "implementing" /\ entered.state.activeTaskId = NoTask)
  <2>1. phase # "clarifying" => Active(entered) # NoTask
    BY <1>1, <1>2, <1>3, <1>5 DEF Tidy
  <2>2. s.state.activePlanPath => Active(entered) # NoTask
    BY <1>3 DEF Tidy
  <2>3. Tidy(entered)
    BY <1>2, <1>3, <1>4, <2>1, <2>2 DEF Tidy
  <2>4. QED
    BY <1>2, <1>3, <1>5, <2>3 DEF entered
<1>6. CASE phase = "implementing" /\ entered.state.activeTaskId = NoTask
  <2>1. 1 \in TaskIds
    BY Values
  <2>2. /\ onTask \in Session /\ onTask.taskState.tasks = s.taskState.tasks
        /\ onTask.state.phase = phase /\ onTask.taskState.activeTaskId = 1
    BY <1>2, <2>1 DEF WithActiveTask, Session, RunState, TaskState
  <2> HIDE DEF onTask
  <2>3. /\ r \in Session /\ r.taskState.tasks = [s.taskState.tasks EXCEPT ![1] = "in_progress"]
        /\ r.state = onTask.state /\ Active(r) = 1
    BY <2>1, <2>2, Values DEF Started, WithStatus, Active, Session, TaskState
  <2> HIDE DEF r
  <2>4. OthersKept(s, r, 1) /\ r.taskState.tasks[1] = "in_progress"
    BY <2>1, <2>3 DEF OthersKept, Session, TaskState
  <2>5. ActiveStatus(s) \notin InWork
    BY <1>1, <1>2, <1>6 DEF ActiveStatus, StatusOf, InWork
  <2>6. Tidy(r)
    BY <2>1, <2>3, <2>4, <2>5, TurnedTidy
  <2>7. ~PassedReview(r)
    BY <1>6, <2>2, <2>3 DEF PassedReview
  <2>8. QED
    BY <1>6, <2>4, <2>6, <2>7 DEF r, onTask, entered, OthersKept
<1>7. QED
  BY <1>5, <1>6

\* A refused request has changed the flow in memory, or reopened a finished run.
LEMMA RefusedRequestSettled ==
  ASSUME Safe, InOrder, "input" \in Commands, NEW flow \in Flows, NEW o,
         Unsaved(WithFlow(Reopened(session), flow), disk, o),
         evidence' = StillKnown(WithFlow(Reopened(session), flow))
  PROVE  Settled(session)
<1> DEFINE opened == Reopened(session)
           routed == WithFlow(opened, flow)
<1>1. session \in Session /\ Sound(session) /\ Tidy(session) /\ Tidy(disk)
  BY SafeMeans DEF InOrder, Fine
<1>2. /\ opened \in Session /\ Sound(opened) /\ Tidy(opened)
      /\ session.state.phase # "completed" => opened = session
      /\ PassedReview(opened) => PassedReview(session)
      /\ \A t \in TaskIds : opened.taskState.tasks[t] \in {session.taskState.tasks[t], "absent"}
  BY <1>1, ReopenedTidy
<1> HIDE DEF opened
<1>3. /\ Tidy(routed) /\ PassedReview(routed) = PassedReview(opened)
      /\ Active(routed) = Active(opened) /\ routed.taskState = opened.taskState
  BY <1>2, RoutedRunTidy
<1>4. Unsaved(routed, disk, o) /\ evidence' = StillKnown(routed)
  BY DEF opened
<1> HIDE DEF routed
<1>5. \A t \in TaskIds : routed.taskState.tasks[t] = "done" => session.taskState.tasks[t] = "done"
  BY <1>2, <1>3
<1>6. CASE session.state.phase = "completed"
  <2>1. ~PassedReview(session)
    BY <1>6 DEF PassedReview
  <2>2. ~PassedReview(routed) /\ (NoThrow => ~PassedReview(disk))
    BY <1>2, <1>3, <2>1 DEF InOrder, Fine, Lasting
  <2>3. QED
    BY <1>1, <1>3, <1>4, <1>5, <2>2, FailedSettled
<1>7. CASE session.state.phase # "completed"
  <2>1. Fine(session, disk, StillKnown(session))
    <3>1. Active(session) \in TaskIds \cup {NoTask}
      BY <1>1 DEF Active, Session, TaskState
    <3>2. QED
      BY <1>1, <3>1, StillVouched DEF InOrder
  <2>2. /\ PassedReview(routed) = PassedReview(session) /\ Active(routed) = Active(session)
        /\ routed.taskState = session.taskState
    BY <1>2, <1>3, <1>7
  <2>3. StillKnown(routed) = StillKnown(session) /\ ActiveStatus(routed) = ActiveStatus(session)
    BY <2>2 DEF StillKnown, ActiveStatus, StatusOf
  <2>4. Fine(routed, disk, StillKnown(routed))
    BY <1>3, <2>1, <2>2, <2>3 DEF Fine, Vouched, Lasting
  <2>5. QED
    BY <1>4, <1>5, <2>4 DEF Settled, Unsaved, Return
<1>8. QED
  BY <1>6, <1>7

LEMMA HandleInputSettled ==
  ASSUME Safe, InOrder, HandleInput
  PROVE  Settled(session)
<1>1. PICK slash \in BOOLEAN, mode \in Modes, c \in Classifications, text \in Goals :
        LET opened == IF slash THEN Reopened(session) ELSE Cleared(session)
            flow == SelectedFlow(mode, c)
            phase == NextPhase(mode, c)
            hasPlan == opened.state.activePlanPath
            blocked == Blocked(mode, c, hasPlan, hasPlan \/ opened.state.activeTaskId # NoTask)
            routed == WithFlow(opened, flow)
            planned == Planned(routed, IF c.empty THEN EmptyRequest ELSE text, flow = "milestone")
            entered == WithGoal(InPhase(routed, phase),
                                IF c.empty THEN routed.state.goalSummary ELSE text)
        IN  /\ slash \/ mode = "auto"
            /\ \/ /\ blocked
                  /\ Unsaved(routed, disk, "refused")
                  /\ evidence' = StillKnown(routed)
               \/ Saved(IF flow = "worker_validator" THEN WithFlow(planned, flow) ELSE planned)
               \/ /\ ~blocked /\ phase # "planning"
                  /\ Saved(IF phase = "implementing" /\ entered.state.activeTaskId = NoTask
                           THEN Started(WithActiveTask(entered, 1), 1) ELSE entered)
               \/ /\ phase # "planning" /\ ~CanTransition(routed.state.phase, phase)
                  /\ Unsaved(routed, disk, "invalid_transition")
                  /\ evidence' = StillKnown(routed)
  BY DEF HandleInput
<1> DEFINE opened == IF slash THEN Reopened(session) ELSE Cleared(session)
           flow == SelectedFlow(mode, c)
           phase == NextPhase(mode, c)
           hasPlan == opened.state.activePlanPath
           blocked == Blocked(mode, c, hasPlan, hasPlan \/ opened.state.activeTaskId # NoTask)
           routed == WithFlow(opened, flow)
           request == IF c.empty THEN EmptyRequest ELSE text
           planned == Planned(routed, request, flow = "milestone")
           goal == IF c.empty THEN routed.state.goalSummary ELSE text
           entered == WithGoal(InPhase(routed, phase), goal)
           carried == IF phase = "implementing" /\ entered.state.activeTaskId = NoTask
                      THEN Started(WithActiveTask(entered, 1), 1) ELSE entered
<1>2. session \in Session /\ Sound(session) /\ Tidy(session) /\ "input" \in Commands
  BY SafeMeans DEF InOrder, Fine, HandleInput, Issued
<1>3. flow \in Flows /\ phase \in {"clarifying", "planning", "implementing", "verifying"}
      /\ (phase = "verifying" => mode = "verify")
  BY RouteTypes, RoutedPhases
<1>4. /\ opened \in Session /\ Sound(opened) /\ Tidy(opened) /\ opened.state.phase # "completed"
      /\ ~slash => opened.state.phase = "idle"
      /\ \A t \in TaskIds : opened.taskState.tasks[t] = "done" => session.taskState.tasks[t] = "done"
  <2>1. CASE slash
    BY <1>2, <2>1, ReopenedTidy
  <2>2. CASE ~slash
    BY <1>2, <2>2, ClearedTidy, ClearedSound DEF Sound
  <2>3. QED
    BY <2>1, <2>2
<1>5. ~slash => ~blocked /\ (phase # "planning" => CanTransition(opened.state.phase, phase))
  BY <1>1, <1>4, TextIsRouted DEF Blocked
<1>6. slash => opened = Reopened(session)
  OBVIOUS
<1>7. (phase = "verifying" /\ ~blocked) => hasPlan \/ opened.state.activeTaskId # NoTask
  BY <1>3 DEF Blocked
<1> HIDE DEF opened, flow, phase, blocked
<1>8. /\ routed \in Session /\ Sound(routed) /\ Tidy(routed)
      /\ routed.taskState = opened.taskState /\ routed.state.phase = opened.state.phase
      /\ routed.state.activePlanPath = opened.state.activePlanPath
      /\ routed.state.activeTaskId = opened.state.activeTaskId
  <2>1. routed \in Session /\ Sound(routed)
    BY <1>3, <1>4, WithFlowSound DEF Sound
  <2>2. QED
    BY <1>2, <1>3, <1>4, <2>1, RoutedRunTidy
<1>9. \A t \in TaskIds : routed.taskState.tasks[t] = "done" => session.taskState.tasks[t] = "done"
  BY <1>4, <1>8
<1>10. ASSUME NEW o, Unsaved(routed, disk, o), evidence' = StillKnown(routed), slash
       PROVE  Settled(session)
  BY <1>2, <1>3, <1>6, <1>10, RefusedRequestSettled
<1> HIDE DEF routed
<1>11. request \in GoalSummaries /\ goal \in GoalSummaries
  BY <1>8, GoalTypes DEF Session, RunState
<1> HIDE DEF request, goal
<1>12. /\ planned \in Session /\ Sound(planned) /\ Tidy(planned) /\ ~PassedReview(planned)
       /\ planned.taskState.tasks = [t \in TaskIds |-> "todo"]
  BY <1>8, <1>11, PlannedSound, PlannedTidy DEF Sound
<1> HIDE DEF planned
<1>13. ASSUME Saved(IF flow = "worker_validator" THEN WithFlow(planned, flow) ELSE planned)
       PROVE  Settled(session)
  <2>1. \A r \in {planned, WithFlow(planned, flow)} :
          Tidy(r) /\ ~PassedReview(r) /\ r.taskState.tasks = [t \in TaskIds |-> "todo"]
    BY <1>2, <1>3, <1>12, RoutedRunTidy
  <2>2. \A r \in {planned, WithFlow(planned, flow)} : Saved(r) => Settled(session)
    BY <2>1, SavedSettled
  <2>3. QED
    BY <1>13, <2>2
<1>14. ASSUME Saved(carried), ~blocked, phase # "planning"
       PROVE  Settled(session)
  <2>1. phase = "verifying" => routed.state.activePlanPath \/ routed.state.activeTaskId # NoTask
    BY <1>7, <1>8, <1>14
  <2>2. /\ Tidy(carried) /\ ~PassedReview(carried)
        /\ \A t \in TaskIds : carried.taskState.tasks[t] = "done" => routed.taskState.tasks[t] = "done"
    BY <1>2, <1>3, <1>4, <1>8, <1>11, <1>14, <2>1, EnteredRunTidy
  <2> HIDE DEF carried
  <2>3. QED
    BY <1>9, <1>14, <2>2, SavedSettled
<1>15. /\ slash \/ mode = "auto"
       /\ \/ blocked /\ Unsaved(routed, disk, "refused") /\ evidence' = StillKnown(routed)
          \/ Saved(IF flow = "worker_validator" THEN WithFlow(planned, flow) ELSE planned)
          \/ ~blocked /\ phase # "planning" /\ Saved(carried)
          \/ /\ phase # "planning" /\ ~CanTransition(routed.state.phase, phase)
             /\ Unsaved(routed, disk, "invalid_transition") /\ evidence' = StillKnown(routed)
  BY <1>1 DEF opened, flow, phase, blocked, routed, request, planned, goal
<1> HIDE DEF carried, entered
<1>16. QED
  BY <1>5, <1>8, <1>10, <1>13, <1>14, <1>15

LEMMA PlanSettled ==
  ASSUME Safe, NEW goal \in GoalSummaries, NEW longRunning \in BOOLEAN,
         Saved(Planned(session, goal, longRunning))
  PROVE  Settled(session)
<1> DEFINE r == Planned(session, goal, longRunning)
<1>1. Tidy(r) /\ ~PassedReview(r) /\ r.taskState.tasks = [t \in TaskIds |-> "todo"]
  BY SafeMeans, PlannedTidy
<1>2. Saved(r)
  OBVIOUS
<1> HIDE DEF r
<1>3. QED
  BY <1>1, <1>2, SavedSettled

\* The handoff pointer is no part of the run.
LEMMA HandoffSettled ==
  ASSUME Safe, InOrder, CreateHandoff \/ ClearHandoff
  PROVE  Settled(session)
<1>1. session \in Session /\ Sound(session) /\ Tidy(session)
  BY SafeMeans DEF InOrder, Fine
<1>2. PICK h \in Handoffs : \/ Saved(WithHandoff(session, h))
                            \/ Unsaved(session, disk, "refused")
  BY <1>1, HandoffTypes DEF CreateHandoff, ClearHandoff
<1> DEFINE r == WithHandoff(session, h)
<1>3. r \in Session /\ Sound(r)
  BY <1>1, WithHandoffSound DEF Sound
<1>4. SameRun(session, r)
  BY <1>1 DEF SameRun, WithHandoff, Session, RunState, TaskState
<1> HIDE DEF r
<1>5. /\ Tidy(r) /\ PassedReview(r) = PassedReview(session) /\ Active(r) = Active(session)
      /\ ActiveStatus(r) = ActiveStatus(session) /\ r.taskState.tasks = session.taskState.tasks
  BY <1>1, <1>3, <1>4, SameRunTidy
<1>6. evidence' = evidence
  BY DEF CreateHandoff, ClearHandoff
<1>7. CASE Saved(r)
  <2>1. NoThrow => Vouched(r, evidence')
    BY <1>5, <1>6 DEF InOrder, Fine, Vouched
  <2>2. QED
    BY <1>5, <1>7, <2>1 DEF Settled, Fine, Lasting, Saved, Return
<1>8. QED
  BY <1>2, <1>6, <1>7, RefusedSettled DEF InOrder, r

\* A new process finds the run of the files.
LEMMA CreateFine ==
  ASSUME Safe, InOrder, Create
  PROVE  Fine(session', disk', evidence') /\ session'.taskState.tasks = disk.taskState.tasks
<1>1. disk \in Session /\ Sound(disk) /\ Tidy(disk)
  BY SafeMeans DEF InOrder, Fine
<1> DEFINE r == Loaded(disk)
<1>2. r \in Session /\ Sound(r)
  BY <1>1, LoadedSound DEF Sound
<1>3. SameRun(disk, r)
  BY <1>1, LoadedSame
<1>4. session' = r /\ disk' = r /\ evidence' = evidence
  BY DEF Create, Saved, Return
<1> HIDE DEF r
<1>5. /\ Tidy(r) /\ PassedReview(r) = PassedReview(disk) /\ Active(r) = Active(disk)
      /\ ActiveStatus(r) = ActiveStatus(disk) /\ r.taskState.tasks = disk.taskState.tasks
  BY <1>1, <1>2, <1>3, SameRunTidy
<1>6. NoThrow => Vouched(r, evidence')
  BY <1>4, <1>5 DEF InOrder, Fine, Vouched
<1>7. QED
  BY <1>4, <1>5, <1>6 DEF Fine, Lasting

\* Only the operator calls a task done that nothing has verified.
LEMMA OverrideSettled ==
  ASSUME Safe, InOrder
  PROVE  /\ CompleteCurrentTask => Fine(session', disk', evidence')
         /\ BlockCurrentTask \/ UnblockCurrentTask => Settled(session)
<1> DEFINE t == session.taskState.activeTaskId
<1>1. session \in Session /\ Tidy(session) /\ t \in TaskIds \cup {NoTask} /\ t = Active(session)
  BY SafeMeans DEF InOrder, Fine, Active, Session, TaskState
<1>2. ASSUME t # NoTask
      PROVE  /\ Tidy(TaskBlocked(session, t)) /\ ~PassedReview(TaskBlocked(session, t))
             /\ Tidy(TaskUnblocked(session, t)) /\ ~PassedReview(TaskUnblocked(session, t))
             /\ \A r \in {TaskBlocked(session, t), TaskUnblocked(session, t)}, u \in TaskIds :
                  r.taskState.tasks[u] = "done" => session.taskState.tasks[u] = "done"
             /\ Tidy(TaskDone(session, t)) /\ ActiveStatus(TaskDone(session, t)) = "done"
  BY <1>1, <1>2, OverridesTidy
<1>3. ASSUME CompleteCurrentTask
      PROVE  Fine(session', disk', evidence')
  <2>1. \/ t # NoTask /\ Saved(TaskDone(session, t))
        \/ Unsaved(session, disk, "refused") /\ evidence' = evidence
    BY <1>3 DEF CompleteCurrentTask, OnActiveTask
  <2>2. t # NoTask => Vouched(TaskDone(session, t), evidence')
    BY <1>2 DEF Vouched
  <2>3. CASE t # NoTask /\ Saved(TaskDone(session, t))
    BY <1>2, <2>2, <2>3, SavedFine
  <2>4. CASE Unsaved(session, disk, "refused") /\ evidence' = evidence
    BY <2>4 DEF Unsaved, Return, InOrder
  <2>5. QED
    BY <1>3, <2>1, <2>3, <2>4
<1>4. ASSUME BlockCurrentTask \/ UnblockCurrentTask
      PROVE  Settled(session)
  <2>1. \/ /\ t # NoTask
           /\ \E r \in {TaskBlocked(session, t), TaskUnblocked(session, t)} : Saved(r)
        \/ Unsaved(session, disk, "refused") /\ evidence' = evidence
    BY <1>4 DEF BlockCurrentTask, UnblockCurrentTask, OnActiveTask
  <2>2. ASSUME t # NoTask, NEW r \in {TaskBlocked(session, t), TaskUnblocked(session, t)}, Saved(r)
        PROVE  Settled(session)
    BY <1>2, <2>2, SavedSettled
  <2>3. CASE Unsaved(session, disk, "refused") /\ evidence' = evidence
    BY <2>3, RefusedSettled DEF InOrder
  <2>4. QED
    BY <1>4, <2>1, <2>2, <2>3
<1>5. QED
  BY <1>3, <1>4

\* Every command but /task-done and create.
LEMMA CommandSettled ==
  ASSUME Safe, InOrder, Command
  PROVE  Fine(session', disk', evidence') /\ (CompleteCurrentTask \/ Settled(session))
<1>1. /\ session \in Session /\ Sound(session) /\ disk \in Session /\ Sound(disk)
      /\ Tidy(session) /\ Tidy(disk) /\ Fine(session, disk, evidence)
  BY SafeMeans DEF InOrder, Fine
<1>2. CASE Plan
  BY <1>2, PlanSettled, GoalTypes DEF Plan, Settled
<1>3. CASE VerifyCommand
  BY <1>1, <1>3, VerifySettled DEF VerifyCommand, Settled
<1>4. CASE Review
  BY <1>1, <1>4, ReviewSettled DEF Review, Settled
<1>5. CASE AdvanceMilestone
  <2>1. CASE CanAdvance(session) /\ Saved(Advanced(session))
    <3>1. "advance" \in Commands
      BY <1>5 DEF AdvanceMilestone, Issued
    <3>2. QED
      BY <1>1, <2>1, <3>1, AdvancedTidy, SavedSettled DEF Settled
  <2>2. CASE Unsaved(session, disk, "refused") /\ evidence' = evidence
    BY <1>1, <2>2, RefusedSettled DEF Settled
  <2>3. QED
    BY <1>5, <2>1, <2>2 DEF AdvanceMilestone
<1>6. CASE Continue \/ LoopStep
  BY <1>1, <1>6, ContinueTaskLoopSettled DEF Continue, LoopStep, Settled
<1>7. CASE ExecuteCurrentTask
  <2>1. Execute(session, disk) /\ ~(NoThrow /\ MayFail)
    BY <1>7 DEF ExecuteCurrentTask, Issued, NoThrow
  <2>2. QED
    BY <1>1, <2>1, ExecuteSettled DEF Settled
<1>8. CASE EnterWorkerValidator
  <2>1. Saved(WorkerValidatorEntered(session)) /\ session.state.currentFlow = "worker_validator"
    BY <1>8 DEF EnterWorkerValidator
  <2>2. "input" \in Commands
    BY <1>1, <2>1 DEF Tidy
  <2>3. QED
    BY <1>1, <2>1, <2>2, WorkerValidatorEnteredTidy, SavedSettled DEF Settled
<1>9. CASE CompleteCurrentTask \/ BlockCurrentTask \/ UnblockCurrentTask
  BY <1>9, OverrideSettled DEF Settled
<1>10. CASE Resume
  <2>1. CASE session.state.phase = "paused" /\ Saved(Resumed(session))
    BY <1>1, <2>1, ResumedTidy, SavedSettled DEF Settled
  <2>2. CASE Unsaved(session, disk, "refused") /\ evidence' = evidence
    BY <1>1, <2>2, RefusedSettled DEF Settled
  <2>3. QED
    BY <1>10, <2>1, <2>2 DEF Resume
<1>11. CASE CreateHandoff \/ ClearHandoff
  BY <1>11, HandoffSettled DEF Settled
<1>12. CASE ResetSession
  <2>1. CASE Saved(Reset(session))
    <3>1. /\ Tidy(Reset(session)) /\ ~PassedReview(Reset(session))
          /\ Reset(session).taskState.tasks = [t \in TaskIds |-> "absent"]
      BY <1>1, ResetTidy
    <3>2. QED
      BY <2>1, <3>1, SavedSettled DEF Settled
  <2>2. CASE Unsaved(session, disk, "refused") /\ evidence' = evidence
    BY <1>1, <2>2, RefusedSettled DEF Settled
  <2>3. QED
    BY <1>12, <2>1, <2>2 DEF ResetSession
<1>13. CASE HandleInput
  BY <1>13, HandleInputSettled DEF Settled
<1>14. CASE UNCHANGED <<session, disk, evidence>>
  BY <1>1, <1>14 DEF Settled
<1>15. CASE RunCompletionLoop \/ LoopStop
  BY <1>14, <1>15 DEF RunCompletionLoop, LoopStop
<1>16. CASE RunAuto
  <2>1. PICK goal \in Goals \cup {NoGoal} :
          \/ Unsaved(session, disk, "refused") /\ evidence' = evidence
          \/ Saved(Planned(session, goal, TRUE))
          \/ UNCHANGED <<session, disk, evidence>>
    BY <1>16 DEF RunAuto
  <2>2. Saved(Planned(session, goal, TRUE)) => Settled(session)
    BY PlanSettled, GoalTypes
  <2>3. QED
    BY <1>1, <1>14, <2>1, <2>2, RefusedSettled DEF Settled
<1>17. QED
  BY <1>2, <1>3, <1>4, <1>5, <1>6, <1>7, <1>8, <1>9, <1>10, <1>11, <1>12, <1>13, <1>15, <1>16
     DEF Command

LEMMA InitInOrder == Init => InOrder
<1> SUFFICES ASSUME Init PROVE InOrder
  OBVIOUS
<1> DEFINE s == InitialSession
<1>1. /\ s.taskState.tasks = [t \in TaskIds |-> "absent"] /\ Active(s) = NoTask
      /\ s.state.phase = "idle" /\ s.state.currentFlow = "auto"
      /\ ~s.state.activePlanPath /\ ~CanAdvance(s)
  BY DEF InitialSession, InitialRunState, InitialTaskState, Active, CanAdvance
<1>2. session = s /\ disk = s
  BY DEF Init
<1> HIDE DEF s
<1>3. Tidy(s) /\ ~PassedReview(s)
  BY <1>1 DEF Tidy, OneAtWork, InWork, PassedReview
<1>4. QED
  BY <1>2, <1>3 DEF InOrder, Fine, Vouched, Lasting

LEMMA NextInOrder == Safe /\ InOrder /\ [Next]_vars => InOrder'
<1> SUFFICES ASSUME Safe, InOrder, [Next]_vars PROVE InOrder'
  OBVIOUS
<1>1. CASE Command
  BY <1>1, CommandSettled DEF InOrder, Fine, Vouched, Lasting
<1>2. CASE Create
  BY <1>2, CreateFine DEF InOrder
<1>3. CASE UNCHANGED vars
  BY <1>3 DEF vars, InOrder
<1>4. QED
  BY <1>1, <1>2, <1>3 DEF Next

LEMMA SpecInOrder == Spec => []InOrder
  BY SpecSafe, InitInOrder, NextInOrder, PTL DEF Spec

-----------------------------------------------------------------------------
(* What the invariant says of every run. *)

\* A run at work has a task to work on, whatever commands came before: verify,
\* executeCurrentTask and handleInput name T1 when there is none, and only a run
\* without further milestones loses its task.
THEOREM ActiveWorkAlwaysHasTask == Spec => []ActiveWorkHasTask
<1>1. InOrder => ActiveWorkHasTask
  BY DEF InOrder, Fine, Tidy, Active, ActiveWorkHasTask
<1>2. QED
  BY <1>1, SpecInOrder, PTL

\* As long as nobody calls /advance, which leaves a milestone whose tasks are not
\* done, every task that is started, validated or blocked is the active one.
THEOREM WorkIsAlwaysActive ==
  ASSUME "advance" \notin Commands
  PROVE  Spec => []AllWorkIsActive
<1>1. InOrder => AllWorkIsActive
  BY DEF InOrder, Fine, Tidy, OneAtWork, InWork, Active, AllWorkIsActive
<1>2. QED
  BY <1>1, SpecInOrder, PTL

\* As long as no request is routed, after which the worker-validator flow may start a
\* task of a finished run, a run that reports completion has no task unfinished.
THEOREM CompletedAlwaysSettled ==
  ASSUME "input" \notin Commands
  PROVE  Spec => []CompletedIsSettled
<1>1. InOrder => CompletedIsSettled
  BY DEF InOrder, Fine, Tidy, ActiveStatus, Active, CompletedIsSettled
<1>2. QED
  BY <1>1, SpecInOrder, PTL

\* As long as /execute does not throw, which leaves a started task next to the verdict
\* of its last execution, a review accepts no task that was not verified after it was
\* last executed.
THEOREM EvidenceAlwaysGates ==
  ASSUME "execute" \notin Commands \/ ~MayFail
  PROVE  Spec => EvidenceGate
<1> DEFINE Earned ==
      \A t \in TaskIds :
        /\ session.taskState.tasks[t] # "done"
        /\ session'.taskState.tasks[t] = "done"
        /\ disk.taskState.tasks[t] # "done"
        /\ t \notin evidence
        => CompleteCurrentTask
<1>1. Safe /\ InOrder /\ [Next]_vars => [Earned]_vars
  <2> SUFFICES ASSUME Safe, InOrder, Next
               PROVE  Earned
    OBVIOUS
  <2>1. NoThrow
    BY DEF NoThrow
  <2>2. CASE Command
    BY <2>1, <2>2, CommandSettled DEF Settled
  <2>3. CASE Create
    BY <2>3, CreateFine
  <2>4. QED
    BY <2>2, <2>3 DEF Next
<1>2. QED
  BY <1>1, SpecSafe, SpecInOrder, PTL DEF EvidenceGate, Spec
=============================================================================
