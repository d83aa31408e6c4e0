--------------------------- MODULE HarnessSession ---------------------------
(***************************************************************************)
(* The session a HarnessRuntime keeps in memory and persists: the run      *)
(* state (run-state.json) and the task ledger (task-state.json), and what  *)
(* each method of the runtime makes of them.  Every operator maps a        *)
(* session to the session the method leaves behind; HarnessRuntime turns   *)
(* them into actions, with the conditions, failures and persistence.       *)
(*                                                                         *)
(* Left out because no method that changes the session reads them: texts,  *)
(* artifact paths of single tasks, review paths, questions, timestamps,    *)
(* and the blockers list, which only repeats the blockers for display.     *)
(***************************************************************************)
EXTENDS Naturals, PhaseMachine

CONSTANTS
  NumTasks,         \* tasks of a plan, T1 to T<NumTasks>
  NumMilestones,    \* milestones of a long-running plan, M1 to M<NumMilestones>
  PlanMilestone,    \* milestone= of each plan line, NoMilestone when it has none
  PlanKind,         \* kind= of each plan line; the owner goes with the kind
  PlanDeps,         \* dependsOn= of each plan line
  PlanVerify,       \* verify= of each plan line: manual reviews and/or commands
  MilestoneDeps,    \* dependsOn= of each milestone line
  Goals,            \* goals a caller may name
  EmptyRequest,     \* the text that stands for an empty request
  NoGoal,           \* goalSummary = null
  NoChangeBlocks    \* workers run as in-process agents of a non-local provider

TaskIds == 1..NumTasks
NoTask == 0
MilestoneIds == 1..NumMilestones
NoMilestone == 0

NoHandoff == [goal |-> "none"]

Kinds == {"analysis", "implementation", "verification"}

ASSUME PlanShape ==
  /\ NumMilestones \in Nat \ {0}
  /\ NumTasks \in Nat \ {0}
  /\ NumMilestones <= NumTasks      \* advanceMilestone falls back on T<index + 2>
  /\ PlanMilestone \in [TaskIds -> MilestoneIds \cup {NoMilestone}]
  /\ PlanKind \in [TaskIds -> Kinds]
  /\ PlanDeps \in [TaskIds -> SUBSET TaskIds]
  /\ PlanVerify \in [TaskIds -> SUBSET {"manual", "command"}]
  /\ MilestoneDeps \in [MilestoneIds -> SUBSET MilestoneIds]
  /\ NoGoal \notin Goals
  /\ EmptyRequest \notin Goals \cup {NoGoal}
  /\ NoChangeBlocks \in BOOLEAN

-----------------------------------------------------------------------------
(* Types.  "none" and "absent" stand for null and for a missing key. *)

Flows == {"auto", "direct", "disciplined_single", "worker_validator", "milestone"}
TaskStatuses == {"absent", "todo", "in_progress", "validated", "done", "blocked"}
MilestoneStatuses == {"absent", "todo", "in_progress", "done"}
VerificationStatuses == {"none", "pass", "fail", "blocked"}
Hints == {"none", "manual_output_required", "implementation_no_changes",
          "implementation_fix_required"}
\* What a blocker text says: the user's words, a manual check without task
\* output, another failed check, no file changes, a milestone dependency.
Blockers == {"none", "user", "manual_output", "checks_failed", "no_changes",
             "milestone_wait"}
GoalSummaries == Goals \cup {EmptyRequest, NoGoal}
\* A handoff document is told from another by the goal it records.
Handoffs == [goal : GoalSummaries] \cup {NoHandoff}

RunState ==
  [phase : Phases,
   currentFlow : Flows,
   goalSummary : GoalSummaries,
   activePlanPath : BOOLEAN,
   activeMilestoneId : MilestoneIds \cup {NoMilestone},
   activeTaskId : TaskIds \cup {NoTask},
   lastVerificationStatus : VerificationStatuses,
   lastVerificationPath : BOOLEAN,
   lastHandoffPath : Handoffs,
   blocker : Blockers]

\* "planned" stands for the plan's metadata in the ledger (taskKinds,
\* taskOwners, taskVerificationCommands, taskDependencies), which every method
\* fills and empties together.
TaskState ==
  [activeMilestoneId : MilestoneIds \cup {NoMilestone},
   activeTaskId : TaskIds \cup {NoTask},
   milestones : [MilestoneIds -> MilestoneStatuses],
   tasks : [TaskIds -> TaskStatuses],
   taskMilestones : [TaskIds -> MilestoneIds \cup {NoMilestone}],
   planned : BOOLEAN,
   taskOutputs : SUBSET TaskIds,
   taskBlockers : [TaskIds -> Blockers],
   taskRecoveryHints : [TaskIds -> Hints],
   resumePhase : Phases \cup {"none"},
   lastVerificationStatus : VerificationStatuses,
   lastVerificationPath : BOOLEAN,
   lastHandoffPath : Handoffs]

Session == [state : RunState, taskState : TaskState]

InitialRunState ==
  [phase |-> "idle", currentFlow |-> "auto", goalSummary |-> NoGoal,
   activePlanPath |-> FALSE, activeMilestoneId |-> NoMilestone,
   activeTaskId |-> NoTask, lastVerificationStatus |-> "none",
   lastVerificationPath |-> FALSE, lastHandoffPath |-> NoHandoff, blocker |-> "none"]

InitialTaskState ==
  [activeMilestoneId |-> NoMilestone, activeTaskId |-> NoTask,
   milestones |-> [m \in MilestoneIds |-> "absent"],
   tasks |-> [t \in TaskIds |-> "absent"],
   taskMilestones |-> [t \in TaskIds |-> NoMilestone],
   planned |-> FALSE, taskOutputs |-> {},
   taskBlockers |-> [t \in TaskIds |-> "none"],
   taskRecoveryHints |-> [t \in TaskIds |-> "none"],
   resumePhase |-> "none", lastVerificationStatus |-> "none",
   lastVerificationPath |-> FALSE, lastHandoffPath |-> NoHandoff]

InitialSession == [state |-> InitialRunState, taskState |-> InitialTaskState]

-----------------------------------------------------------------------------
(* Reading the session. *)

\* a ?? b for identifiers, whose null is 0.
OrElse(a, b) == IF a # 0 THEN a ELSE b

\* Faulty: the run state's pointer wins.
ActiveTask_OfRunState(s) == OrElse(s.state.activeTaskId, s.taskState.activeTaskId)

ActiveTask(s) == OrElse(s.taskState.activeTaskId, s.state.activeTaskId)

StatusOf(s, t) == IF t = NoTask THEN "absent" ELSE s.taskState.tasks[t]
BlockerOf(s, t) == IF t = NoTask THEN "none" ELSE s.taskState.taskBlockers[t]

\* taskKinds[t], which also decides the role (resolveExecutionRole): analysis is
\* the planner's, implementation the worker's, verification the validator's.
TaskKind(s, t) == IF s.taskState.planned /\ t # NoTask THEN PlanKind[t] ELSE "none"
VerifyCommands(s, t) == IF s.taskState.planned /\ t # NoTask THEN PlanVerify[t] ELSE {}

\* Faulty: dependencies are never looked up.
UnsatisfiedDependencies_Ignored(s, t) == {}

UnsatisfiedDependencies(s, t) ==
  IF s.taskState.planned THEN {d \in PlanDeps[t] : s.taskState.tasks[d] # "done"} ELSE {}

UnsatisfiedMilestoneDependencies(s, m) ==
  {d \in MilestoneDeps[m] : s.taskState.milestones[d] # "done"}

IsFirst(x, S) == x \in S /\ \A y \in S : x <= y
\* The first element in id order, 0 when there is none.
FirstOf(S) == IF \E x \in S : IsFirst(x, S) THEN CHOOSE x \in S : IsFirst(x, S) ELSE 0

\* Todo tasks the active milestone allows; with no active milestone, those
\* that belong to none.
OpenTasks(s) ==
  {t \in TaskIds : /\ s.taskState.tasks[t] = "todo"
                   /\ s.taskState.taskMilestones[t] \in {NoMilestone, s.taskState.activeMilestoneId}}

Ready(s, S) == {t \in S : UnsatisfiedDependencies(s, t) = {}}

FirstReadyTask(s) == FirstOf(Ready(s, OpenTasks(s)))
FirstReadyTaskForMilestone(s, m) ==
  FirstOf(Ready(s, {t \in TaskIds : /\ s.taskState.tasks[t] = "todo"
                                    /\ s.taskState.taskMilestones[t] = m}))
After(t, S) == {u \in S : t < u}
NextTodoTask(s, t) == FirstOf(Ready(s, After(t, OpenTasks(s))))
NextPendingTask(s, t) == FirstOf(After(t, OpenTasks(s)))

Milestones(s) == {m \in MilestoneIds : s.taskState.milestones[m] # "absent"}

\* isLegacyImplementationVerificationRecovery
IsLegacyImplementationFix(s, t) ==
  /\ TaskKind(s, t) = "implementation"
  /\ s.state.lastVerificationStatus = "fail"
  /\ StatusOf(s, t) = "blocked"
  /\ VerifyCommands(s, t) # {}

IsAutoRecoverable(s, t) ==
  LET blocker == IF BlockerOf(s, t) # "none" THEN BlockerOf(s, t)
                 ELSE IF s.taskState.activeTaskId = t THEN s.state.blocker
                 ELSE "none"
  IN  /\ t # NoTask
      /\ \/ s.taskState.taskRecoveryHints[t] # "none"
         \/ /\ blocker = "manual_output"
            /\ "manual" \in VerifyCommands(s, t)
            /\ t \notin s.taskState.taskOutputs
         \/ blocker = "no_changes"
         \/ IsLegacyImplementationFix(s, t)

\* The condition under which the completion loop gives up on a blocker.
StoppedOnBlocker(s) ==
  s.state.phase = "paused" /\ s.state.blocker # "none" /\ ~IsAutoRecoverable(s, ActiveTask(s))

\* getAllowedToolNamesForPhase: write and edit are granted in one case only.
MayWrite(s, t) ==
  /\ s.state.phase = "implementing"
  /\ t # NoTask
  /\ TaskKind(s, t) \in {"none", "implementation"}
  /\ StatusOf(s, t) \notin {"validated", "done", "blocked"}
  /\ s.state.blocker = "none"
  /\ BlockerOf(s, t) = "none"

-----------------------------------------------------------------------------
(* reopenForNewWork, plan, reset.  Reopening keeps the handoff pointer and   *)
(* the ledger's task-to-milestone tags.                                      *)

Cleared(s) ==
  [state |-> [InitialRunState EXCEPT !.lastHandoffPath = s.state.lastHandoffPath],
   taskState |-> [InitialTaskState EXCEPT !.taskMilestones = s.taskState.taskMilestones,
                                          !.lastHandoffPath = s.state.lastHandoffPath]]

\* Faulty: any run counts as finished.
Reopened_Always(s) == Cleared(s)

Reopened(s) == IF s.state.phase \in {"completed", "cancelled"} THEN Cleared(s) ELSE s

Planned(s, goal, longRunning) ==
  LET first == IF longRunning THEN 1 ELSE NoMilestone
  IN  [state |-> [Cleared(s).state EXCEPT
         !.phase = "planning",
         !.currentFlow = IF longRunning THEN "milestone" ELSE "disciplined_single",
         !.goalSummary = goal,
         !.activePlanPath = TRUE,
         !.activeTaskId = 1,
         !.activeMilestoneId = first],
       taskState |-> [Cleared(s).taskState EXCEPT
         !.tasks = [t \in TaskIds |-> "todo"],
         !.taskMilestones = [t \in TaskIds |-> OrElse(PlanMilestone[t], @[t])],
         !.planned = TRUE,
         !.activeTaskId = 1,
         !.activeMilestoneId = first,
         !.milestones = [m \in MilestoneIds |->
            IF ~longRunning THEN "absent" ELSE IF m = 1 THEN "in_progress" ELSE "todo"]]]

Reset(s) ==
  [state |-> [InitialRunState EXCEPT !.lastHandoffPath = s.state.lastHandoffPath],
   taskState |-> [InitialTaskState EXCEPT !.lastHandoffPath = s.state.lastHandoffPath]]

-----------------------------------------------------------------------------
(* Assignments the methods share. *)

InPhase(s, phase) == [s EXCEPT !.state.phase = phase]

\* The phase, with the one a later resume goes to.
Entered(s, phase, resumePhase) ==
  [s EXCEPT !.state.phase = phase, !.taskState.resumePhase = resumePhase]

ResumingInto(s, phase) == [s EXCEPT !.taskState.resumePhase = phase]
WithFlow(s, flow) == [s EXCEPT !.state.currentFlow = flow]
WithGoal(s, goal) == [s EXCEPT !.state.goalSummary = goal]
WithBlocker(s, blocker) == [s EXCEPT !.state.blocker = blocker]

\* Faulty: only the ledger learns of a report.
WithReport_InLedger(s, status, path) ==
  [s EXCEPT !.taskState.lastVerificationStatus = status,
            !.taskState.lastVerificationPath = path]

WithReport(s, status, path) ==
  [s EXCEPT !.state.lastVerificationStatus = status,
            !.state.lastVerificationPath = path,
            !.taskState.lastVerificationStatus = status,
            !.taskState.lastVerificationPath = path]

\* Faulty: an old report stays in force.
Invalidated_Not(s) == s

\* invalidateVerificationState
Invalidated(s) == WithReport(s, "none", FALSE)

\* Faulty: only the ledger learns of the new task.
WithActiveTask_InLedger(s, t) == [s EXCEPT !.taskState.activeTaskId = t]

WithActiveTask(s, t) == [s EXCEPT !.state.activeTaskId = t, !.taskState.activeTaskId = t]

WithMilestone(s, m) ==
  [s EXCEPT !.state.activeMilestoneId = m, !.taskState.activeMilestoneId = m]

WithHandoff(s, handoff) ==
  [s EXCEPT !.state.lastHandoffPath = handoff, !.taskState.lastHandoffPath = handoff]

WithMilestoneStatus(s, m, status) == [s EXCEPT !.taskState.milestones[m] = status]
WithStatus(s, t, status) == [s EXCEPT !.taskState.tasks[t] = status]
WithTaskBlocker(s, t, blocker) == [s EXCEPT !.taskState.taskBlockers[t] = blocker]
WithHint(s, t, hint) == [s EXCEPT !.taskState.taskRecoveryHints[t] = hint]
WithOutput(s, t) == [s EXCEPT !.taskState.taskOutputs = @ \cup {t}]

\* A task with its blocker and recovery hint; the blocker is the run's, too.
Marked(s, t, status, blocker, hint) ==
  WithHint(WithTaskBlocker(WithStatus(WithBlocker(s, blocker), t, status), t, blocker), t, hint)

\* Faulty: nobody names a task.
WithSomeTask_None(s) == s

\* executeCurrentTask, verify, enterWorkerValidator and handleInput name T1
\* when the run state has no active task.
WithSomeTask(s) == IF s.state.activeTaskId = NoTask THEN WithActiveTask(s, 1) ELSE s

Started(s, t) == WithStatus(s, t, "in_progress")

-----------------------------------------------------------------------------
(* executeCurrentTask: up to the await on the agent or executor, and from it  *)
(* to the end.  The worker's agent gets its tools in between.                  *)

\* A run without flow gets the one its milestone asks for.
Routed(s) ==
  IF s.state.currentFlow # "auto" THEN s
  ELSE WithFlow(s, IF s.state.activeMilestoneId # NoMilestone
                   THEN "milestone" ELSE "disciplined_single")

ExecutionStarted(s) ==
  LET routed == Routed(Reopened(s))
      chosen == WithSomeTask(IF routed.state.phase \in {"planning", "paused"}
                             THEN InPhase(routed, "implementing") ELSE routed)
  IN  ResumingInto(Started(chosen, chosen.state.activeTaskId), "implementing")

\* A worker agent of a remote provider has to change files.
MustChangeFiles(s, t) == NoChangeBlocks /\ TaskKind(s, t) = "implementation"

\* One that did not, the automatic retry included, blocks its task.
ExecutionEnded(s, t, satisfied) ==
  LET noted == WithHint(WithOutput(Invalidated(s), t), t, "none")
  IN  IF satisfied THEN noted
      ELSE InPhase(Marked(noted, t, "blocked", "no_changes", "implementation_no_changes"), "paused")

\* enterWorkerValidator
WorkerValidatorEntered(s) ==
  LET routed == WithFlow(s, "worker_validator")
      chosen == WithSomeTask(IF routed.state.phase = "idle"
                             THEN InPhase(routed, "planning") ELSE routed)
      t == chosen.state.activeTaskId
  IN  WithOutput(Invalidated(ResumingInto(Started(chosen, t), "implementing")), t)

-----------------------------------------------------------------------------
(* verify: what it does before it asks for the verifying phase, the checks,   *)
(* and what it records.  The target is the run state's active task, the       *)
(* ledger entry written is that of the ledger's active task.                  *)

\* Faulty: a verification task starts without passing through implementing.
VerificationStarted_InPlace(s) ==
  IF s.state.phase = "completed"
  THEN InPhase(Started(WithSomeTask(Cleared(s)), 1), "implementing") ELSE s

VerificationStarted(s) ==
  CASE s.state.phase = "completed" -> InPhase(Started(WithSomeTask(Cleared(s)), 1), "implementing")
    [] s.state.phase = "planning"  -> InPhase(s, "implementing")
    [] OTHER -> s

Checks(s, t) ==
  IF s.state.currentFlow = "worker_validator" THEN {} ELSE VerifyCommands(s, t)

\* Checks of t that fail when the commands exit with success or not.
FailedChecks(s, t, commandsPass) ==
  {c \in Checks(s, t) : \/ c = "manual" /\ t \notin s.taskState.taskOutputs
                        \/ c = "command" /\ ~commandsPass}

VerificationStatus(s, failed) ==
  IF s.state.activeTaskId = NoTask THEN "blocked" ELSE IF failed # {} THEN "fail" ELSE "pass"

RecoveryHint(s, failed) ==
  LET t == s.state.activeTaskId
  IN  IF "manual" \in failed /\ t # NoTask /\ t \notin s.taskState.taskOutputs
      THEN "manual_output_required"
      ELSE IF TaskKind(s, t) = "implementation" THEN "implementation_fix_required" ELSE "none"

FailureText(failed) == IF "manual" \in failed THEN "manual_output" ELSE "checks_failed"

\* The report of the failed checks, and what it makes of the task.
VerdictRecorded(s, failed) ==
  LET t == s.taskState.activeTaskId
      status == VerificationStatus(s, failed)
      text == FailureText(failed)
      reported == WithReport(s, status, TRUE)
  IN  CASE t = NoTask -> IF failed # {} THEN WithBlocker(reported, text) ELSE reported
        [] t # NoTask /\ failed # {} ->
             Marked(reported, t, "blocked", text, RecoveryHint(s, failed))
        [] t # NoTask /\ failed = {} /\ status = "pass" ->
             WithHint(WithStatus(reported, t, "validated"), t, "none")
        [] OTHER -> WithStatus(reported, t, "blocked")

\* The phase a verdict sends the run to.
VerdictPhase(s, failed) == IF VerificationStatus(s, failed) = "pass" THEN "reviewing" ELSE "paused"

VerificationEnded(s, failed) ==
  LET phase == VerdictPhase(s, failed)
  IN  Entered(VerdictRecorded(s, failed), phase,
              IF phase = "paused" THEN "implementing" ELSE "reviewing")

-----------------------------------------------------------------------------
(* review, advanceMilestone, resume, autoRecoverBlockedTask. *)

\* Faulty: a passing report is all a review asks for.
PassedReview_AnyPhase(s) ==
  s.state.lastVerificationStatus = "pass" /\ s.state.lastVerificationPath

PassedReview(s) ==
  /\ s.state.phase = "reviewing"
  /\ s.state.lastVerificationStatus = "pass"
  /\ s.state.lastVerificationPath

\* Faulty: untouched milestones are not counted.
HasNextMilestone_Started(s, m) ==
  \E n \in MilestoneIds : n > m /\ s.taskState.milestones[n] = "in_progress"

HasNextMilestone(s, m) ==
  \E n \in MilestoneIds : n > m /\ s.taskState.milestones[n] \in {"todo", "in_progress"}

\* A review whose conditions do not hold only writes its report.
Reviewed(s) ==
  LET t == s.taskState.activeTaskId
      m == s.taskState.activeMilestoneId
      accepted == IF t = NoTask THEN s ELSE WithStatus(s, t, "done")
      finished == Entered(accepted, "completed", "none")
  IN  IF ~PassedReview(s) THEN s
      ELSE IF s.state.currentFlow # "milestone" \/ m = NoMilestone THEN finished
      ELSE WithMilestoneStatus(IF HasNextMilestone(s, m) THEN Entered(accepted, "paused", "planning")
                               ELSE finished, m, "done")

\* Faulty: a milestone review has closed cannot be advanced.
CanAdvance_Unreviewed(s) ==
  /\ s.taskState.activeMilestoneId \in Milestones(s)
  /\ s.taskState.milestones[s.taskState.activeMilestoneId] # "done"

CanAdvance(s) ==
  s.taskState.activeMilestoneId # NoMilestone /\ s.taskState.activeMilestoneId \in Milestones(s)

\* Faulty: the next milestone is any other one.
NextMilestone_Cyclic(s, m) == FirstOf(Milestones(s) \ {m})

NextMilestone(s, m) == FirstOf({n \in Milestones(s) : n > m})

\* The milestone after m is M<index + 2>, and so is the task taken without looking.
FallbackTask(m) == m + 1

\* Faulty: the last task stays active.
Concluded_WithTask(s, m) == InPhase(WithMilestone(s, m), "completed")

Concluded(s, m) == InPhase(WithMilestone(WithActiveTask(s, NoTask), m), "completed")

WaitingForMilestone(s) == WithBlocker(Entered(s, "paused", "planning"), "milestone_wait")

\* Faulty: the ledger does not show the milestone as started.
Activated_Silently(s, m, t) ==
  Invalidated(InPhase(WithMilestone(WithStatus(WithActiveTask(s, t), t, "todo"), m), "planning"))

Activated(s, m, t) ==
  LET onTask == WithStatus(WithActiveTask(s, t), t, "todo")
      onMilestone == WithMilestoneStatus(WithMilestone(onTask, m), m, "in_progress")
  IN  Invalidated(WithFlow(InPhase(onMilestone, "planning"), "milestone"))

\* advanceMilestone of a known active milestone.  It does not ask whether the
\* milestone's tasks are done.
Advanced(s) ==
  LET m == s.taskState.activeMilestoneId
      closed == WithMilestoneStatus(s, m, "done")
      next == NextMilestone(s, m)
  IN  IF next = NoMilestone THEN Concluded(closed, m)
      ELSE IF UnsatisfiedMilestoneDependencies(closed, next) # {} THEN WaitingForMilestone(closed)
      ELSE Activated(closed, next,
                     OrElse(FirstReadyTaskForMilestone(closed, next), FallbackTask(m)))

\* resume of a paused run.  Every phase the runtime stores as resumePhase can be
\* entered from paused, so the transition is never refused (PausedIsResumable).
ResumeTarget(s) ==
  IF s.taskState.resumePhase # "none" THEN s.taskState.resumePhase
  ELSE IF s.state.activePlanPath THEN "planning" ELSE "implementing"

Resumed(s) == WithBlocker(Entered(s, ResumeTarget(s), ResumeTarget(s)), "none")

\* Faulty: the task is queued again, its blocker stays.
AutoRecovered_StillBlocked(s, t) ==
  Entered(WithStatus(s, t, "todo"), "planning", "implementing")

AutoRecovered(s, t) == Entered(Marked(s, t, "todo", "none", "none"), "planning", "implementing")

\* A pause of continueTaskLoop on a task whose dependencies are not done.
PausedOn(s, t) == Entered(WithActiveTask(s, t), "paused", "planning")

\* continueTaskLoop starts by copying the ledger's pointers to the run state.
PointersFromLedger(s) ==
  [s EXCEPT !.state.activeTaskId = s.taskState.activeTaskId,
            !.state.activeMilestoneId = s.taskState.activeMilestoneId]

-----------------------------------------------------------------------------
(* The operator's overrides: /task-done, /block, /unblock. *)

TaskDone(s, t) == InPhase(WithStatus(s, t, "done"), "reviewing")

\* Faulty: the run knows the blocker, the task does not.
TaskBlocked_Silently(s, t) ==
  Entered(WithBlocker(WithStatus(s, t, "blocked"), "user"), "paused", "implementing")

\* Faulty: the phase to resume into is left from before.
TaskBlocked_Resumable(s, t) == InPhase(Marked(s, t, "blocked", "user", "none"), "paused")

TaskBlocked(s, t) == Entered(Marked(s, t, "blocked", "user", "none"), "paused", "implementing")

\* Faulty: the run keeps the blocker it told the operator to resolve.
TaskUnblocked_StillBlocked(s, t) == Entered(WithStatus(s, t, "todo"), "paused", "implementing")

\* Faulty: the recovery hint survives.
TaskUnblocked_WithHint(s, t) ==
  Entered(WithTaskBlocker(WithStatus(WithBlocker(s, "none"), t, "todo"), t, "none"),
          "paused", "implementing")

TaskUnblocked(s, t) == Entered(Marked(s, t, "todo", "none", "none"), "paused", "implementing")

-----------------------------------------------------------------------------
(* create: what a new process makes of the two files.  reconcileSession      *)
(* prefers the ledger's pointers, except that the active task's tag decides  *)
(* the milestone, and the run state's report; hydrateSessionMetadata refills *)
(* missing metadata from the plan; an untagged task gets the milestone at    *)
(* its own position.                                                         *)

InferredVerdict(status) ==
  CASE status = "blocked" -> "fail"
    [] status \in {"validated", "done"} -> "pass"
    [] OTHER -> "none"

\* Faulty: the ledger keeps its own report.
Agreed_ButReport(s, t, m, status, path, handoff) ==
  LET agreed == WithHandoff(WithReport(WithMilestone(WithActiveTask(s, t), m), status, path), handoff)
  IN  [agreed EXCEPT !.taskState.lastVerificationStatus = s.taskState.lastVerificationStatus]

\* Both halves with the same pointers and the same report.
Agreed(s, t, m, status, path, handoff) ==
  WithHandoff(WithReport(WithMilestone(WithActiveTask(s, t), m), status, path), handoff)

\* Faulty: what the run state says, or fails to say, wins.
WithKnownBlocker_OfRunState(s, t) ==
  IF t # NoTask /\ StatusOf(s, t) = "blocked" THEN WithTaskBlocker(s, t, s.state.blocker)
  ELSE WithBlocker(s, "none")

\* Blockers that are not the active task's are dropped; a blocked task and the run
\* tell each other the blocker the other one misses.
WithKnownBlocker(s, t) ==
  CASE t = NoTask -> WithBlocker(s, "none")
    [] t # NoTask /\ StatusOf(s, t) # "blocked" ->
         WithHint(WithTaskBlocker(WithBlocker(s, "none"), t, "none"), t, "none")
    [] StatusOf(s, t) = "blocked" /\ s.state.blocker = "none" -> WithBlocker(s, BlockerOf(s, t))
    [] StatusOf(s, t) = "blocked" /\ s.state.blocker # "none" /\ BlockerOf(s, t) = "none" ->
         WithTaskBlocker(s, t, s.state.blocker)
    [] OTHER -> s

Reconciled(s) ==
  LET t == ActiveTask(s)
      tag == IF t = NoTask THEN NoMilestone ELSE s.taskState.taskMilestones[t]
      m == OrElse(tag, OrElse(s.taskState.activeMilestoneId, s.state.activeMilestoneId))
      path == s.state.lastVerificationPath \/ s.taskState.lastVerificationPath
      recorded == IF s.state.lastVerificationStatus # "none"
                  THEN s.state.lastVerificationStatus ELSE s.taskState.lastVerificationStatus
      verdict == IF recorded = "none" /\ path THEN InferredVerdict(StatusOf(s, t)) ELSE recorded
      handoff == IF s.state.lastHandoffPath # NoHandoff
                 THEN s.state.lastHandoffPath ELSE s.taskState.lastHandoffPath
  IN  WithKnownBlocker(Agreed(s, t, m, verdict, path, handoff), t)

Hydrated(s) ==
  IF ~s.state.activePlanPath THEN s
  ELSE [s EXCEPT !.taskState.planned = TRUE,
                 !.taskState.taskMilestones =
                   [t \in TaskIds |-> OrElse(@[t], OrElse(PlanMilestone[t],
                      IF t \in Milestones(s) THEN t ELSE NoMilestone))]]

\* Faulty: a new process takes a finished run for new work.
Loaded_Reopened(s) == Reopened(Hydrated(Reconciled(s)))

Loaded(s) == Hydrated(Reconciled(s))
=============================================================================
