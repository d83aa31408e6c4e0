---------------------------- MODULE StatusViews ----------------------------
(***************************************************************************)
(* What the runtime tells people and hosts about a session: getStatus, the *)
(* next action it suggests, the pickup, blocked, queue and timeline        *)
(* payloads, and the dashboard and handoff views the command handlers      *)
(* build from them.  None changes the session; each is a function of it.   *)
(* Texts are abstracted to what they tell the reader to do.                *)
(*                                                                         *)
(* The properties ask whether the advice is one the runtime takes.         *)
(***************************************************************************)
EXTENDS HarnessRuntime, FiniteSets

\* What a suggested next action names: a new task, /continue, /unblock, tasks to
\* finish first, /continue or /resume, or /status, /continue and /plan at once.
Advices == {"new_task", "continue", "unblock", "wait", "continue_or_resume", "look_around"}

-----------------------------------------------------------------------------
(* getStatus *)

ReadyTasks(s) == Ready(s, OpenTasks(s))
WaitingTasks(s) == OpenTasks(s) \ ReadyTasks(s)

\* getNextMilestoneId, whatever the next milestone's status.
NextMilestoneInOrder(s) ==
  LET m == s.taskState.activeMilestoneId
  IN  IF m \in Milestones(s) THEN NextMilestone(s, m) ELSE NoMilestone

TaskProgress(s) ==
  [done |-> Cardinality({t \in TaskIds : s.taskState.tasks[t] = "done"}),
   all  |-> Cardinality({t \in TaskIds : s.taskState.tasks[t] # "absent"})]

MilestoneProgress(s) ==
  [done |-> Cardinality({m \in MilestoneIds : s.taskState.milestones[m] = "done"}),
   all  |-> Cardinality(Milestones(s))]

\* Advice on the active task of a run that is neither completed nor blocked.
AdviceOnDone(s, t) ==
  IF NextTodoTask(s, t) = NoTask /\ NextPendingTask(s, t) # NoTask THEN "wait" ELSE "continue"

\* Faulty: every blocked task is taken for one the runtime recovers itself.
SuggestedNextAction_Recovering(s) ==
  IF s.state.phase = "completed" THEN "new_task" ELSE "continue"

\* getSuggestedNextAction
SuggestedNextAction(s) ==
  LET t == ActiveTask(s)
      status == StatusOf(s, t)
  IN  IF s.state.phase = "completed" THEN "new_task"
      ELSE IF s.state.blocker # "none" \/ status = "blocked"
           THEN IF IsAutoRecoverable(s, t) THEN "continue" ELSE "unblock"
      ELSE CASE status = "todo" -> IF UnsatisfiedDependencies(s, t) = {} THEN "continue" ELSE "wait"
             [] status \in {"in_progress", "validated"} -> "continue"
             [] status = "done" -> AdviceOnDone(s, t)
             [] status = "absent" /\ s.state.phase = "paused" /\ s.taskState.resumePhase # "none" ->
                  "continue_or_resume"
             [] OTHER -> "look_around"

\* What the other views read of getStatus.
Status(s) ==
  LET t == ActiveTask(s)
  IN  [phase |-> s.state.phase,
       flow |-> s.state.currentFlow,
       goalSummary |-> s.state.goalSummary,
       activeMilestoneId |-> OrElse(s.taskState.activeMilestoneId, s.state.activeMilestoneId),
       nextMilestoneId |-> NextMilestoneInOrder(s),
       milestoneProgress |-> MilestoneProgress(s),
       taskProgress |-> TaskProgress(s),
       activeTaskId |-> t,
       activeTaskStatus |-> StatusOf(s, t),
       activeTaskKind |-> TaskKind(s, t),
       activeTaskRecoveryHint |-> IF t = NoTask THEN "none" ELSE s.taskState.taskRecoveryHints[t],
       lastVerificationStatus |-> s.state.lastVerificationStatus,
       lastHandoffPath |-> s.state.lastHandoffPath,
       blocker |-> s.state.blocker,
       resumePhase |-> s.taskState.resumePhase,
       readyTasks |-> ReadyTasks(s),
       pendingDependencies |-> WaitingTasks(s),
       mayWrite |-> MayWrite(s, t),
       nextAction |-> SuggestedNextAction(s)]

-----------------------------------------------------------------------------
(* The payloads of the runtime. *)

\* getBlockedPayload: every blocked task with its blocker and what to do about it.
RecoveryRecommendation(hint) ==
  CASE hint = "manual_output_required"    -> "generate_output"
    [] hint = "implementation_no_changes" -> "change_files"
    [] OTHER                              -> "continue_or_unblock"

BlockedItems(s) ==
  {[taskId |-> t,
    blocker |-> s.taskState.taskBlockers[t],
    recommendation |-> RecoveryRecommendation(s.taskState.taskRecoveryHints[t])] :
     t \in {u \in TaskIds : s.taskState.tasks[u] = "blocked"}}

\* getReviewQueuePayload, as far as tasks are concerned: the active task when it
\* is validated or the run is reviewing, then every other validated task.
QueueScore(s, t) ==
  CASE t = ActiveTask(s) /\ s.taskState.tasks[t] = "validated" -> 100
    [] t = ActiveTask(s) /\ s.taskState.tasks[t] # "validated" /\ s.state.phase = "reviewing" -> 95
    [] t # ActiveTask(s) /\ s.taskState.tasks[t] = "validated" -> 85
    [] OTHER -> 0

ReviewQueue(s) ==
  {[taskId |-> t, score |-> QueueScore(s, t)] : t \in {u \in TaskIds : QueueScore(s, u) > 0}}

\* getPickupPayload
PickupKind(st) ==
  CASE st.blocker # "none" -> "blocked"
    [] st.blocker = "none" /\ st.activeTaskId # NoTask -> "active-task"
    [] st.blocker = "none" /\ st.activeTaskId = NoTask /\ st.readyTasks # {} -> "ready-task"
    [] st.blocker = "none" /\ st.activeTaskId = NoTask /\ st.readyTasks = {}
       /\ st.pendingDependencies # {} -> "waiting"
    [] OTHER -> "idle"

PickupTarget(st) ==
  CASE PickupKind(st) \in {"blocked", "active-task"} -> st.activeTaskId
    [] PickupKind(st) = "ready-task" -> FirstOf(st.readyTasks)
    [] PickupKind(st) = "waiting"    -> FirstOf(st.pendingDependencies)
    [] OTHER -> NoTask

\* buildPickupRecommendation
PickupCommand(s) ==
  LET st == Status(s)
      kind == PickupKind(st)
  IN  CASE kind = "blocked" ->
             IF IsAutoRecoverable(s, st.activeTaskId) THEN "continue" ELSE "blocked"
        [] kind = "active-task" ->
             IF st.activeTaskStatus \in {"todo", "in_progress", "validated", "done"}
             THEN "continue" ELSE "status"
        [] kind = "ready-task" -> "continue"
        [] kind = "waiting"    -> "status_dashboard"
        [] kind = "idle"       -> IF st.goalSummary # NoGoal THEN "auto" ELSE "auto_goal"

\* The recovery section of getTimelinePayload: the active task's recovery hint,
\* else the first one recorded.
RecoveryTask(s) ==
  LET t == ActiveTask(s)
      hinted == {u \in TaskIds : s.taskState.taskRecoveryHints[u] # "none"}
  IN  IF t \in hinted THEN t ELSE FirstOf(hinted)

TimelineRecovery(s) ==
  LET st == Status(s)
      t == RecoveryTask(s)
  IN  [latestPass |-> s.state.lastVerificationPath /\ st.lastVerificationStatus = "pass",
       blocker |-> st.blocker,
       recoveryHint |-> IF t = NoTask THEN "none" ELSE s.taskState.taskRecoveryHints[t],
       recommendation |-> st.nextAction]

-----------------------------------------------------------------------------
(* The views of the command handlers, built from the status. *)

PreservedHandoff(st) == st.lastHandoffPath # NoHandoff /\ st.phase \in InactivePhases

\* buildDashboardStatusView: the command of its "Auto" line.
DashboardAuto(st) ==
  CASE PreservedHandoff(st) -> "handoff_inspect"
    [] ~PreservedHandoff(st) /\ st.goalSummary # NoGoal
       /\ st.phase \notin {"completed", "cancelled"} -> "auto"
    [] OTHER -> "auto_goal"

\* Faulty: the run may still be active.
CleanupEligible_Active(st) == st.lastHandoffPath # NoHandoff

\* buildHandoffInspectPayload
CleanupEligible(st) == PreservedHandoff(st)

-----------------------------------------------------------------------------
(* Properties. *)

SaysContinue(s) ==
  \/ SuggestedNextAction(s) = "continue"
  \/ PickupCommand(s) = "continue" /\ s.state.phase # "completed"

\* When the next action of getStatus or, for a run that is not completed, the pickup
\* tells the operator to use /continue, the call is not refused: it moves the run,
\* or it gives a worker another turn on a task that ends where it was.
ContinueAdviceHelps ==
  [][Continue /\ SaysContinue(session) =>
       \/ reply'.outcome \in Failures
       \/ /\ reply'.outcome = "ok"
          /\ ProgressKey(session') # ProgressKey(session) \/ reply'.tools # "none"]_vars

\* When it says that a blocker has to be resolved and to use /unblock then, the
\* command is accepted and the run can be continued afterwards.
UnblockAdviceHelps ==
  [][UnblockCurrentTask /\ SuggestedNextAction(session) = "unblock" =>
       /\ reply'.outcome = "ok"
       /\ SuggestedNextAction(session') = "continue"]_vars

\* The review that the review queue recommends for a task closes that task.
QueuedReviewCloses ==
  [][Review => \A item \in ReviewQueue(session) :
       session'.taskState.tasks[item.taskId] = "done"]_vars

\* The blocker that status, pickup, dashboard and timeline show for the run is the
\* blocker of a task on the blocked list, which tells how to get over it.
BlockerIsListed ==
  session.state.blocker # "none" =>
    \E item \in BlockedItems(session) :
      /\ item.taskId = PickupTarget(Status(session))
      /\ item.blocker = session.state.blocker

\* A recovery hint, which the timeline shows and which makes continueTaskLoop
\* requeue a task without asking, is that of a task that is blocked now.
HintIsCurrent ==
  TimelineRecovery(session).recoveryHint # "none" =>
    StatusOf(session, RecoveryTask(session)) = "blocked"

\* The dashboard points to a preserved handoff, and handoff inspect calls it eligible
\* for cleanup, exactly when clearHandoff accepts to clear it, although clearHandoff
\* looks at the pointers of both files.
CleanupAdviceIsRight ==
  [][ClearHandoff =>
       /\ CleanupEligible(Status(session)) <=> reply'.outcome = "ok"
       /\ DashboardAuto(Status(session)) = "handoff_inspect" <=> reply'.outcome = "ok"]_vars
=============================================================================
