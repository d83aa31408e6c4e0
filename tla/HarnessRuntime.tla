--------------------------- MODULE HarnessRuntime ---------------------------
(***************************************************************************)
(* The HarnessRuntime API: one process holds a session in memory, every    *)
(* command of its single caller runs to its end before the next one, and   *)
(* a command that completes has persisted the session.  A new process      *)
(* (Create) starts from the two files.                                     *)
(*                                                                         *)
(* A command may fail where it awaits an agent, an executor or a check: it *)
(* then throws, its earlier assignments stay in memory, and the files hold *)
(* what was last persisted.  Killing the process at that await is the same *)
(* failure followed by Create.  Writing an artifact or a state file is     *)
(* taken to succeed.                                                       *)
(***************************************************************************)
EXTENDS HarnessSession, RouteFlow

CONSTANTS
  Commands,   \* the commands callers issue
  MaxSteps,   \* bound on the step budget of a completion loop
  MayFail     \* awaited work may reject

CommandNames ==
  {"create", "plan", "verify", "review", "advance", "continue", "loop", "auto",
   "execute", "task_done", "block", "unblock", "resume",
   "handoff", "clear_handoff", "reset", "input"}

ASSUME CommandAssumption ==
  /\ Commands \subseteq CommandNames
  /\ MaxSteps \in Nat \ {0}
  /\ MayFail \in BOOLEAN

VARIABLES
  session,    \* the session in memory
  disk,       \* the session run-state.json and task-state.json hold
  loop,       \* runCompletionLoopDetailed: is it running, its budget, its stop reason
  reply,      \* what the last call returned, and the tools its worker agent got
  evidence    \* history: tasks whose last passing report covers their last execution

vars == <<session, disk, loop, reply, evidence>>

\* "agent_failed" and "checks_failed": awaited work rejected.
Failures == {"agent_failed", "checks_failed"}
Outcomes == {"none", "ok", "refused", "invalid_transition", "hung"} \cup Failures
ToolGrants == {"none", "read_only", "write"}
StopReasons == {"none", "max_steps", "completed", "blocked", "no_progress", "threw"}

TypeOK ==
  /\ session \in Session
  /\ disk \in Session
  /\ loop \in [running : BOOLEAN, left : 0..MaxSteps, stopReason : StopReasons]
  /\ reply \in [outcome : Outcomes, tools : ToolGrants]
  /\ evidence \subseteq TaskIds

Replied(outcome) == [outcome |-> outcome, tools |-> "none"]
NoLoop == [running |-> FALSE, left |-> 0, stopReason |-> "none"]

Init ==
  /\ session = InitialSession
  /\ disk = InitialSession
  /\ loop = NoLoop
  /\ reply = Replied("none")
  /\ evidence = {}

-----------------------------------------------------------------------------
(* How a call ends.  s is the session it leaves in memory, d the one on disk. *)

Return(s, d, r) == session' = s /\ disk' = d /\ reply' = r
Saved(s) == Return(s, s, Replied("ok"))
Unsaved(s, d, outcome) == Return(s, d, Replied(outcome))

\* Reopening a run drops its tasks, and what was known about them.
StillKnown(s) == {t \in evidence : s.taskState.tasks[t] # "absent"}

-----------------------------------------------------------------------------
(* The parts of continueTaskLoop, from the innermost call out.  They act on  *)
(* the session s the call has reached and the session d last persisted.      *)

\* An in-process agent is created with the tools the policy allows now; executors
\* take none.  In the worker_validator flow an executor works first, and only the
\* retry of a worker that changed no file is an agent.
UsesAgent(s, t) ==
  CASE TaskKind(s, t) = "implementation" -> NoChangeBlocks \/ s.state.currentFlow # "worker_validator"
    [] TaskKind(s, t) = "none"           -> s.state.currentFlow # "worker_validator"
    [] OTHER                             -> FALSE

GrantedTools(s, t) ==
  IF ~UsesAgent(s, t) THEN "none" ELSE IF MayWrite(s, t) THEN "write" ELSE "read_only"

\* executeCurrentTask
Execute(s, d) ==
  LET begun == ExecutionStarted(s)
      t == begun.state.activeTaskId
      tools == GrantedTools(begun, t)
  IN  /\ evidence' = StillKnown(begun) \ {t}
      /\ \/ \E satisfied \in BOOLEAN :
              LET ended == ExecutionEnded(begun, t, satisfied)
              IN  /\ satisfied \/ MustChangeFiles(begun, t)
                  /\ Return(ended, ended, [outcome |-> "ok", tools |-> tools])
         \/ MayFail /\ Return(begun, d, [outcome |-> "agent_failed", tools |-> tools])

\* verify
Verify(s, d) ==
  LET opened == VerificationStarted(s)
      checked == InPhase(opened, "verifying")
      target == checked.state.activeTaskId
  IN  \/ /\ ~CanTransition(opened.state.phase, "verifying")
         /\ Unsaved(opened, d, "invalid_transition")
         /\ evidence' = StillKnown(opened)
      \/ /\ CanTransition(opened.state.phase, "verifying")
         /\ \E commandsPass \in BOOLEAN :
              LET failed == FailedChecks(checked, target, commandsPass)
              IN  /\ Saved(VerificationEnded(checked, failed))
                  /\ evidence' = IF VerificationStatus(checked, failed) = "pass"
                                 THEN StillKnown(checked) \cup {target}
                                 ELSE StillKnown(checked) \ {target}
      \/ /\ CanTransition(opened.state.phase, "verifying")
         /\ MayFail
         /\ Unsaved(checked, d, "checks_failed")
         /\ evidence' = StillKnown(checked)

\* The branches of continueTaskLoop for a todo task.
StartTask(s, d) ==
  LET t == s.taskState.activeTaskId
      begun == Started(s, t)
  IN  \/ /\ UnsatisfiedDependencies(s, t) # {}
         /\ Saved(PausedOn(s, t))
         /\ UNCHANGED evidence
      \/ /\ UnsatisfiedDependencies(s, t) = {}
         /\ TaskKind(s, t) = "verification"
         /\ Verify(begun, begun)
      \/ /\ UnsatisfiedDependencies(s, t) = {}
         /\ TaskKind(s, t) # "verification"
         /\ Execute(s, d)

\* ... for a done task: the next task, else the next milestone.  When
\* advanceMilestone refuses and nothing changed, a planning run without blocker
\* makes continueTaskLoop call itself on the same session, for ever.
LeaveTask(s, d) ==
  LET t == s.taskState.activeTaskId
      next == NextTodoTask(s, t)
      pending == NextPendingTask(s, t)
      advanced == Advanced(s)
      onward == advanced.state.phase = "planning" /\ advanced.state.blocker = "none"
  IN  \/ /\ next # NoTask
         /\ Saved(InPhase(WithActiveTask(s, next), "planning"))
         /\ UNCHANGED evidence
      \/ /\ next = NoTask /\ pending # NoTask
         /\ Saved(PausedOn(s, pending))
         /\ UNCHANGED evidence
      \/ /\ next = NoTask /\ pending = NoTask
         /\ ~CanAdvance(s)
         /\ Unsaved(s, d, IF s.state.phase = "planning" /\ s.state.blocker = "none"
                          THEN "hung" ELSE "refused")
         /\ UNCHANGED evidence
      \/ /\ next = NoTask /\ pending = NoTask /\ CanAdvance(s)
         /\ ~onward
         /\ Saved(advanced)
         /\ UNCHANGED evidence
      \/ /\ next = NoTask /\ pending = NoTask /\ CanAdvance(s)
         /\ onward
         /\ StartTask(advanced, advanced)

\* Faulty: a blocked task is passed over.
RunTask_SkippingBlocked(s, d) ==
  LET status == StatusOf(s, s.taskState.activeTaskId)
  IN  \/ status = "todo" /\ StartTask(s, d)
      \/ status = "in_progress" /\ Verify(s, d)
      \/ status \in {"done", "blocked"} /\ LeaveTask(s, d)
      \/ status \in {"validated", "absent"} /\ Unsaved(s, d, "refused") /\ UNCHANGED evidence

\* continueTaskLoop once it knows the active task.
RunTask(s, d) ==
  LET t == s.taskState.activeTaskId
      status == StatusOf(s, t)
      requeued == AutoRecovered(s, t)
  IN  \/ status = "todo" /\ StartTask(s, d)
      \/ status = "in_progress" /\ Verify(s, d)
      \/ status = "validated" /\ Saved(Reviewed(s)) /\ UNCHANGED evidence
      \/ status = "done" /\ LeaveTask(s, d)
      \/ /\ status = "blocked" /\ IsAutoRecoverable(s, t)
         /\ StartTask(requeued, requeued)
      \/ /\ \/ status = "blocked" /\ ~IsAutoRecoverable(s, t)
            \/ status = "absent"
         /\ Unsaved(s, d, "refused")
         /\ UNCHANGED evidence

\* Without an active task the first ready one is picked and persisted.
PickTask(s, d) ==
  LET first == FirstReadyTask(s)
      picked == InPhase(WithActiveTask(s, first), "planning")
  IN  IF s.taskState.activeTaskId = NoTask /\ first # NoTask
      THEN RunTask(picked, picked) ELSE RunTask(s, d)

\* continueTaskLoop
ContinueTaskLoop(s, d) ==
  LET synced == PointersFromLedger(s)
      resumed == Resumed(synced)
  IN  \/ /\ s.state.phase = "completed"
         /\ Unsaved(s, d, "refused")
         /\ UNCHANGED evidence
      \/ /\ s.state.phase = "paused" /\ s.state.blocker = "none"
         /\ PickTask(resumed, resumed)
      \/ /\ s.state.phase # "completed"
         /\ ~(s.state.phase = "paused" /\ s.state.blocker = "none")
         /\ PickTask(synced, d)

-----------------------------------------------------------------------------
(* The commands. *)

Issued(command) == command \in Commands /\ ~loop.running

Plan ==
  /\ Issued("plan")
  /\ \E goal \in Goals, longRunning \in BOOLEAN : Saved(Planned(session, goal, longRunning))
  /\ evidence' = {}
  /\ UNCHANGED loop

VerifyCommand ==
  /\ Issued("verify")
  /\ Verify(session, disk)
  /\ UNCHANGED loop

Review ==
  /\ Issued("review")
  /\ Saved(Reviewed(session))
  /\ UNCHANGED <<loop, evidence>>

AdvanceMilestone ==
  /\ Issued("advance")
  /\ \/ CanAdvance(session) /\ Saved(Advanced(session))
     \/ ~CanAdvance(session) /\ Unsaved(session, disk, "refused")
  /\ UNCHANGED <<loop, evidence>>

Continue ==
  /\ Issued("continue")
  /\ ContinueTaskLoop(session, disk)
  /\ UNCHANGED loop

\* /execute calls one of two methods, by the flow of the run.
ExecuteCurrentTask ==
  /\ Issued("execute")
  /\ session.state.currentFlow # "worker_validator"
  /\ Execute(session, disk)
  /\ UNCHANGED loop

EnterWorkerValidator ==
  /\ Issued("execute")
  /\ session.state.currentFlow = "worker_validator"
  /\ LET entered == WorkerValidatorEntered(session)
     IN  Saved(entered) /\ evidence' = evidence \ {entered.state.activeTaskId}
  /\ UNCHANGED loop

\* completeCurrentTask, blockCurrentTask and unblockCurrentTask; s is what the
\* command makes of the session when there is an active task.
OnActiveTask(command, s) ==
  /\ Issued(command)
  /\ \/ session.taskState.activeTaskId # NoTask /\ Saved(s)
     \/ session.taskState.activeTaskId = NoTask /\ Unsaved(session, disk, "refused")
  /\ UNCHANGED <<loop, evidence>>

CompleteCurrentTask == OnActiveTask("task_done", TaskDone(session, session.taskState.activeTaskId))
BlockCurrentTask == OnActiveTask("block", TaskBlocked(session, session.taskState.activeTaskId))
UnblockCurrentTask == OnActiveTask("unblock", TaskUnblocked(session, session.taskState.activeTaskId))

Resume ==
  /\ Issued("resume")
  /\ \/ session.state.phase = "paused" /\ Saved(Resumed(session))
     \/ session.state.phase # "paused" /\ Unsaved(session, disk, "refused")
  /\ UNCHANGED <<loop, evidence>>

CreateHandoff ==
  /\ Issued("handoff")
  /\ Saved(WithHandoff(session, [goal |-> session.state.goalSummary]))
  /\ UNCHANGED <<loop, evidence>>

HasHandoff(s) == {s.state.lastHandoffPath, s.taskState.lastHandoffPath} # {NoHandoff}

ClearHandoff ==
  LET inactive == session.state.phase \in InactivePhases
  IN  /\ Issued("clear_handoff")
      /\ \/ inactive /\ HasHandoff(session) /\ Saved(WithHandoff(session, NoHandoff))
         \/ ~(inactive /\ HasHandoff(session)) /\ Unsaved(session, disk, "refused")
      /\ UNCHANGED <<loop, evidence>>

ResetSession ==
  LET allowed == session.state.phase \in InactivePhases
                 \/ session.state.lastHandoffPath # NoHandoff
  IN  /\ Issued("reset")
      /\ \/ allowed /\ Saved(Reset(session)) /\ evidence' = {}
         \/ ~allowed /\ Unsaved(session, disk, "refused") /\ UNCHANGED evidence
      /\ UNCHANGED loop

\* handleInput.  Text without a leading slash drops the run first.  A blocked
\* request returns, and a refused transition throws, with the flow changed in
\* memory only.
HandleInput ==
  /\ Issued("input")
  /\ \E slash \in BOOLEAN, mode \in Modes, c \in Classifications, text \in Goals :
       LET opened == IF slash THEN Reopened(session) ELSE Cleared(session)
           flow == SelectedFlow(mode, c)
           phase == NextPhase(mode, c)
           hasPlan == opened.state.activePlanPath
           blocked == Blocked(mode, c, hasPlan, hasPlan \/ opened.state.activeTaskId # NoTask)
           routed == WithFlow(opened, flow)
           planned == Planned(routed, IF c.empty THEN EmptyRequest ELSE text, flow = "milestone")
           entered == WithGoal(InPhase(routed, phase),
                               IF c.empty THEN routed.state.goalSummary ELSE text)
       IN  /\ slash \/ mode = "auto"
           /\ \/ /\ blocked
                 /\ Unsaved(routed, disk, "refused")
                 /\ evidence' = StillKnown(routed)
              \/ /\ ~blocked /\ phase = "planning"
                 /\ Saved(IF flow = "worker_validator"
                          THEN WithFlow(planned, flow) ELSE planned)
                 /\ evidence' = {}
              \/ /\ ~blocked /\ phase # "planning"
                 /\ CanTransition(routed.state.phase, phase)
                 /\ Saved(IF phase = "implementing" /\ entered.state.activeTaskId = NoTask
                          THEN Started(WithActiveTask(entered, 1), 1) ELSE entered)
                 /\ evidence' = StillKnown(routed)
              \/ /\ ~blocked /\ phase # "planning"
                 /\ ~CanTransition(routed.state.phase, phase)
                 /\ Unsaved(routed, disk, "invalid_transition")
                 /\ evidence' = StillKnown(routed)
  /\ UNCHANGED loop

-----------------------------------------------------------------------------
(* The completion loop: continueTaskLoop up to maxSteps times, until the run *)
(* is completed, stops on a blocker, or a step leaves the progress key alone. *)

ProgressKey(s) ==
  <<s.state.phase, s.taskState.activeMilestoneId, s.taskState.activeTaskId,
    StatusOf(s, s.taskState.activeTaskId), s.state.blocker>>

Running(steps) == [running |-> TRUE, left |-> steps, stopReason |-> "none"]
Stopped(reason) == [running |-> FALSE, left |-> 0, stopReason |-> reason]

RunCompletionLoop ==
  /\ Issued("loop")
  /\ \E maxSteps \in 1..MaxSteps : loop' = Running(maxSteps)
  /\ reply' = Replied("none")
  /\ UNCHANGED <<session, disk, evidence>>

LoopStop ==
  /\ loop.running
  /\ loop' = Stopped(IF loop.left = 0 THEN "max_steps"
                     ELSE IF session.state.phase = "completed" THEN "completed" ELSE "blocked")
  /\ \/ loop.left = 0
     \/ session.state.phase = "completed"
     \/ StoppedOnBlocker(session)
  /\ UNCHANGED <<session, disk, reply, evidence>>

\* Faulty: only a step without progress counts.
LoopStep_Uncounted ==
  /\ loop.running /\ loop.left > 0
  /\ session.state.phase # "completed"
  /\ ~StoppedOnBlocker(session)
  /\ ContinueTaskLoop(session, disk)
  /\ loop' = IF reply'.outcome \in Failures \cup {"invalid_transition"} THEN Stopped("threw")
             ELSE IF ProgressKey(session') = ProgressKey(session) THEN Stopped("no_progress")
             ELSE IF StoppedOnBlocker(session') THEN Stopped("blocked")
             ELSE loop

LoopStep ==
  /\ loop.running /\ loop.left > 0
  /\ session.state.phase # "completed"
  /\ ~StoppedOnBlocker(session)
  /\ ContinueTaskLoop(session, disk)
  /\ loop' = IF reply'.outcome \in Failures \cup {"invalid_transition"} THEN Stopped("threw")
             ELSE IF reply'.outcome = "hung" THEN loop
             ELSE IF ProgressKey(session') = ProgressKey(session) THEN Stopped("no_progress")
             ELSE IF StoppedOnBlocker(session') THEN Stopped("blocked")
             ELSE Running(loop.left - 1)

\* runAuto: refuse, plan a new goal, or continue the current run.
RunAuto ==
  /\ Issued("auto")
  /\ \E goal \in Goals \cup {NoGoal}, maxSteps \in 1..MaxSteps :
       LET active == session.state.phase \notin InactivePhases
           other == goal # NoGoal /\ goal # session.state.goalSummary
           fresh == ~active /\ goal # NoGoal
           idle == ~active /\ goal = NoGoal /\ ~session.state.activePlanPath
       IN  \/ /\ (active /\ other) \/ idle
              /\ Unsaved(session, disk, "refused")
              /\ UNCHANGED <<loop, evidence>>
           \/ /\ fresh
              /\ Saved(Planned(session, goal, TRUE))
              /\ loop' = Running(maxSteps)
              /\ evidence' = {}
           \/ /\ ~fresh /\ ~idle /\ ~(active /\ other)
              /\ loop' = Running(maxSteps)
              /\ reply' = Replied("none")
              /\ UNCHANGED <<session, disk, evidence>>

\* HarnessRuntime.create in a new process; also what follows the death of the old.
Create ==
  /\ "create" \in Commands
  /\ Saved(Loaded(disk))
  /\ loop' = NoLoop
  /\ UNCHANGED evidence

Command ==
  \/ Plan \/ VerifyCommand \/ Review \/ AdvanceMilestone \/ Continue
  \/ ExecuteCurrentTask \/ EnterWorkerValidator
  \/ CompleteCurrentTask \/ BlockCurrentTask \/ UnblockCurrentTask
  \/ Resume \/ CreateHandoff \/ ClearHandoff \/ ResetSession \/ HandleInput
  \/ RunCompletionLoop \/ LoopStop \/ LoopStep \/ RunAuto

Next == Command \/ Create

Spec == Init /\ [][Next]_vars

\* The loop goes on by itself as long as what it awaits comes to an end.  This is
\* WF_vars(LoopStop \/ LoopStep), whose action is enabled exactly when it runs.
LoopFairness == []<>(~loop.running) \/ []<><<LoopStop \/ LoopStep>>_vars

FairSpec == Spec /\ LoopFairness

-----------------------------------------------------------------------------
(* Properties. *)

Agree(s) ==
  /\ s.state.activeTaskId = s.taskState.activeTaskId
  /\ s.state.activeMilestoneId = s.taskState.activeMilestoneId
  /\ s.state.lastVerificationStatus = s.taskState.lastVerificationStatus
  /\ s.state.lastVerificationPath = s.taskState.lastVerificationPath
  /\ s.state.lastHandoffPath = s.taskState.lastHandoffPath

\* The run state and the ledger, which two files keep and reconcileSession
\* compares, agree on the five pointers that methods read before they change the
\* session (lastReviewPath, which only views read, is not modelled): in memory after
\* any command, also one that threw half-way, and in the files.
PointersAgree == Agree(session) /\ Agree(disk)

Explained(s) ==
  \A t \in TaskIds : s.taskState.tasks[t] = "blocked" => s.taskState.taskBlockers[t] # "none"

\* A blocked task can always say why: executeCurrentTask, verify and
\* blockCurrentTask never leave a blocked task without a blocker of its own.
BlockedIsExplained == Explained(session) /\ Explained(disk)

\* The active milestone splits the ledger's milestones: those before it are
\* done, those after it untouched, whatever review, advance and create do.
MilestoneFrontier ==
  \A s \in {session, disk} : \A m \in Milestones(s) :
    LET active == s.taskState.activeMilestoneId
    IN  /\ m < active => s.taskState.milestones[m] = "done"
        /\ m > active => s.taskState.milestones[m] = "todo"
        /\ m = active => s.taskState.milestones[m] \in {"in_progress", "done"}

Resumable(s) ==
  s.state.phase = "paused" => s.taskState.resumePhase \in {"planning", "implementing"}

\* A paused run resumes into work, never into review or completion, and resume
\* cannot throw.
PausedIsResumable == Resumable(session) /\ Resumable(disk)

\* continueTaskLoop never calls itself for ever on an unchanged session.
ContinueReturns == reply.outcome # "hung"

\* A task becomes done by review only on a passing report made after its last
\* execution; /task-done is the operator's override, and a new process may find
\* the task already done.
EvidenceGate ==
  [][\A t \in TaskIds :
       /\ session.taskState.tasks[t] # "done"
       /\ session'.taskState.tasks[t] = "done"
       /\ disk.taskState.tasks[t] # "done"
       /\ t \notin evidence
       => CompleteCurrentTask]_vars

\* continueTaskLoop, alone or in the completion loop, starts or restarts no task
\* whose dependencies are not done.
DependencyGate ==
  [][\A t \in TaskIds :
       /\ Continue \/ LoopStep
       /\ session.taskState.planned
       /\ session.taskState.tasks[t] \in {"todo", "blocked"}
       /\ session'.taskState.tasks[t] \notin {"todo", session.taskState.tasks[t]}
       => \A d \in PlanDeps[t] : session.taskState.tasks[d] = "done"]_vars

\* continueTaskLoop never asks for a phase transition the table refuses.
ContinueNeverThrows ==
  [][Continue \/ LoopStep => reply'.outcome # "invalid_transition"]_vars

\* A worker the loop starts gets the tools to change files.
WorkerCanWrite ==
  [][Continue \/ LoopStep => reply'.tools # "read_only"]_vars

\* The loop leaves no task half-way: whatever is started, validated or blocked is
\* the active task, so that an advance, a pause or a restart cannot strand it.
AllWorkIsActive ==
  \A t \in TaskIds :
    session.taskState.tasks[t] \in {"in_progress", "validated", "blocked"} =>
      t = session.taskState.activeTaskId

\* A run under review has something to review: its active task was verified.
ReviewHasSubject ==
  session.state.phase = "reviewing" =>
    StatusOf(session, session.taskState.activeTaskId) \in {"validated", "done"}

\* A run that reports completion leaves no active task unfinished.
CompletedIsSettled ==
  session.state.phase = "completed" =>
    StatusOf(session, session.taskState.activeTaskId) \in {"done", "absent"}

\* A run at work has a task to work on, also after a request was routed there or
\* a finished run was reopened.
ActiveWorkHasTask ==
  session.state.phase \in {"implementing", "verifying", "reviewing"} =>
    session.taskState.activeTaskId # NoTask

\* Continuing, reviewing and restarting never undo a task that is done.
DoneStaysDone ==
  [][\A t \in TaskIds :
       /\ Continue \/ LoopStep \/ Review \/ (Create /\ session = disk)
       /\ session.taskState.tasks[t] = "done"
       => session'.taskState.tasks[t] = "done"]_vars

\* A request that is refused, by a gate or by the phase table, changes nothing of
\* an unfinished run but its flow.
RefusedKeepsTheRun ==
  [][/\ reply'.outcome \in {"refused", "invalid_transition"}
     /\ session.state.phase \notin {"completed", "cancelled"}
     => /\ session' = [session EXCEPT !.state.currentFlow = session'.state.currentFlow]
        /\ disk' = disk]_vars

\* When the autonomous run says "completed the current goal", every task of the
\* goal's plan is done, whatever the flow.
AutoCompletesGoal ==
  loop.stopReason = "completed" => \A t \in TaskIds : session.taskState.tasks[t] = "done"

\* An active session is reset only when a handoff records the goal it works on.
ResetNeedsHandoff ==
  [][/\ ResetSession
     /\ session.state.phase \notin InactivePhases
     /\ reply'.outcome = "ok"
     => session.state.lastHandoffPath = [goal |-> session.state.goalSummary]]_vars

\* A long-running run that reports completion has done every task and every
\* milestone of its plan.
NothingLeftBehind ==
  session.state.phase = "completed" /\ session.state.currentFlow = "milestone" =>
    /\ \A t \in TaskIds : session.taskState.tasks[t] = "done"
    /\ \A m \in MilestoneIds : session.taskState.milestones[m] = "done"

\* Every task of the run goes through the life that TaskLifecycle promises, failures
\* of its workers and restarts of the process included.
Life == INSTANCE TaskLifecycle WITH
  Tasks <- TaskIds, CheckTasks <- {t \in TaskIds : PlanKind[t] = "verification"},
  status <- session.taskState.tasks, checked <- evidence

ImplementsLifecycle == Life!LifeSpec

\* A completion loop comes to its end, although a task whose check always fails is
\* recovered, executed and verified again and again, each time with progress.
LoopEnds == loop.running ~> ~loop.running

\* A new process continues the run where the last completed command left it.
CreateIsTransparent ==
  [][Create /\ session = disk =>
       /\ session'.state.phase = session.state.phase
       /\ session'.taskState.tasks = session.taskState.tasks
       /\ session'.taskState.milestones = session.taskState.milestones
       /\ session'.state.activeTaskId = session.state.activeTaskId
       /\ session'.state.lastVerificationStatus = session.state.lastVerificationStatus]_vars
=============================================================================
