---------------------------- MODULE HostedBridge ----------------------------
(***************************************************************************)
(* The bridge of the pi extension: one runtime per directory, on which     *)
(* every /harness command of the host runs as soon as it is typed.  The    *)
(* bridge keeps no queue, so wherever a call awaits something other calls  *)
(* run on the same session.                                                *)
(*                                                                         *)
(* Every action below is the code from one await to the next.  A call      *)
(* keeps, in inFlight, the await it is at and what it reads again of its   *)
(* locals; everything else it reads from the session as it is by then.     *)
(* Awaits without code between them are one, and a call that only has its  *)
(* last persist or report to wait for is over, since it does nothing to    *)
(* the session any more.  An autonomous run is its separate calls of       *)
(* continueTaskLoop.  The files are left out: a bridge reads them once,    *)
(* before its first command.                                               *)
(***************************************************************************)
EXTENDS HarnessSession, RouteFlow

CONSTANTS
  Callers,   \* host commands that may be in flight at the same time
  Commands   \* the commands each of them types

\* The commands executeHostedCommand passes to a method of the runtime; "input" is
\* everything it does not know.
Dispatched ==
  {"plan", "continue", "verify", "review", "handoff", "clear_handoff", "resume", "reset", "input"}

ASSUME HostedAssumption == Commands \in [Callers -> SUBSET Dispatched]

VARIABLES
  session,    \* the session in memory
  inFlight    \* the call of each caller

hostedVars == <<session, inFlight>>

\* Where a call is: planning and milestones (files plan writes), plan_saved, goal (the
\* file handleInput writes), handoff; continue and verify (the persist before a call of
\* that method), advanced; prepare (snapshot and scaffold) and work of an execution;
\* validator, checks and report of a verification.
Awaits ==
  {"none", "planning", "milestones", "plan_saved", "goal", "handoff",
   "continue", "verify", "advanced", "prepare", "work", "validator", "checks", "report"}

\* flow, phase and goal: of the route a request takes.  task: the one captured before
\* an await.  mustChange: its agent has to change files.  failed and running: the checks
\* found failing, and those whose outcome is open.  status and hint: of the verdict.
Call ==
  [at : Awaits,
   flow : Flows,
   phase : Phases,
   goal : GoalSummaries,
   task : TaskIds \cup {NoTask},
   mustChange : BOOLEAN,
   failed : SUBSET {"manual", "command"},
   running : SUBSET {"command"},
   status : VerificationStatuses,
   hint : Hints]

NoCall ==
  [at |-> "none", flow |-> "auto", phase |-> "idle", goal |-> NoGoal, task |-> NoTask,
   mustChange |-> FALSE, failed |-> {}, running |-> {}, status |-> "none", hint |-> "none"]

\* An execution always knows its task.
HostedTypeOK ==
  /\ session \in Session
  /\ inFlight \in [Callers -> Call]
  /\ \A c \in Callers : inFlight[c].at \in {"prepare", "work"} => inFlight[c].task \in TaskIds

HostedInit ==
  /\ session = InitialSession
  /\ inFlight = [c \in Callers |-> NoCall]

At(c, await) == inFlight[c].at = await
Typed(c, command) == At(c, "none") /\ command \in Commands[c]

\* The code up to the next await leaves s, and the call waits as call says.
Yields(c, s, call) ==
  /\ session' = s
  /\ inFlight' = [inFlight EXCEPT ![c] = call]

Ends(c, s) == Yields(c, s, NoCall)

\* A call that keeps none of its locals.
Waiting(await) == [NoCall EXCEPT !.at = await]

-----------------------------------------------------------------------------
(* plan: reopening, the tasks once spec and plan are written, and the         *)
(* milestones once they are.                                                  *)

PlanBegun(s, goal, flow) ==
  LET cleared == Cleared(s)
  IN  [cleared EXCEPT
         !.state.phase = "planning",
         !.state.currentFlow = IF flow = "milestone" THEN flow ELSE "disciplined_single",
         !.state.goalSummary = goal]

TasksFilled(s, flow) ==
  LET filled == [
         state |-> [s.state EXCEPT !.activePlanPath = TRUE],
         taskState |-> [s.taskState EXCEPT
           !.tasks = [t \in TaskIds |-> "todo"],
           !.taskMilestones = [t \in TaskIds |-> OrElse(PlanMilestone[t], @[t])],
           !.planned = TRUE]]
      active == WithActiveTask(filled, 1)
  IN  IF flow = "milestone" THEN active ELSE [active EXCEPT !.state.activeMilestoneId = NoMilestone]

\* Faulty: the run state alone learns of the first milestone.
MilestonesFilled_InRunState(s) ==
  [s EXCEPT !.state.activeMilestoneId = 1,
            !.taskState.milestones =
              [m \in MilestoneIds |-> IF m = 1 THEN "in_progress" ELSE "todo"]]

MilestonesFilled(s) ==
  [WithMilestone(s, 1) EXCEPT
     !.taskState.milestones = [m \in MilestoneIds |-> IF m = 1 THEN "in_progress" ELSE "todo"]]

PlanBegins(c, goal, flow) ==
  Yields(c, PlanBegun(session, goal, flow), [Waiting("planning") EXCEPT !.flow = flow])

PlanWritten(c) ==
  LET flow == inFlight[c].flow
      filled == TasksFilled(session, flow)
  IN  /\ At(c, "planning")
      /\ CASE flow = "milestone"        -> Yields(c, filled, Waiting("milestones"))
           [] flow = "worker_validator" -> Yields(c, filled, Waiting("plan_saved"))
           [] OTHER                     -> Ends(c, filled)

MilestonesWritten(c) == At(c, "milestones") /\ Ends(c, MilestonesFilled(session))

\* handleInput gives a risky request its flow when its plan is persisted.
PlanSaved(c) == At(c, "plan_saved") /\ Ends(c, WithFlow(session, "worker_validator"))

TypePlan(c) ==
  /\ Typed(c, "plan")
  /\ \E goal \in Goals, flow \in {"disciplined_single", "milestone"} : PlanBegins(c, goal, flow)

-----------------------------------------------------------------------------
(* handleInput: the route, and what it leads to once the goal is written.     *)

\* What reaches handleInput: text, or a slash command executeHostedCommand has no branch
\* for.  Text is never empty there, and plan, longrun and a bare /verify have a branch.
Requests ==
  {r \in [slash : BOOLEAN, mode : Modes \ {"plan", "longrun"}, kind : Classifications] :
     /\ r.slash \/ r.mode = "auto"
     /\ r.kind.empty => r.mode \in {"direct", "clarify", "execute"}}

TypeInput(c) ==
  /\ Typed(c, "input")
  /\ \E r \in Requests, text \in Goals :
       LET opened == IF r.slash THEN Reopened(session) ELSE Cleared(session)
           flow == SelectedFlow(r.mode, r.kind)
           hasPlan == opened.state.activePlanPath
           hasTarget == hasPlan \/ opened.state.activeTaskId # NoTask
           routed == WithFlow(opened, flow)
       IN  IF Blocked(r.mode, r.kind, hasPlan, hasTarget) THEN Ends(c, routed)
           ELSE Yields(c, routed,
                  [Waiting("goal") EXCEPT !.flow = flow, !.phase = NextPhase(r.mode, r.kind),
                                          !.goal = IF r.kind.empty THEN EmptyRequest ELSE text])

GoalWritten(c) ==
  LET call == inFlight[c]
      goal == IF call.goal = EmptyRequest THEN session.state.goalSummary ELSE call.goal
      entered == WithGoal(InPhase(session, call.phase), goal)
  IN  /\ At(c, "goal")
      /\ \/ call.phase = "planning" /\ PlanBegins(c, call.goal, call.flow)
         \/ /\ call.phase # "planning"
            /\ CanTransition(session.state.phase, call.phase)
            /\ Ends(c, IF call.phase = "implementing" /\ entered.state.activeTaskId = NoTask
                       THEN Started(WithActiveTask(entered, 1), 1) ELSE entered)
         \/ /\ call.phase # "planning"
            /\ ~CanTransition(session.state.phase, call.phase)
            /\ Ends(c, session)

-----------------------------------------------------------------------------
(* executeCurrentTask: the choice of the task, its start once the workspace   *)
(* is prepared, and the outcome of the work.                                  *)

TaskChosen(s) ==
  LET routed == Routed(Reopened(s))
  IN  WithSomeTask(IF routed.state.phase \in {"planning", "paused"}
                   THEN InPhase(routed, "implementing") ELSE routed)

PrepareCall(s) ==
  LET t == s.state.activeTaskId
  IN  [Waiting("prepare") EXCEPT !.task = t, !.mustChange = MustChangeFiles(s, t)]

Execute(c, s) ==
  LET chosen == TaskChosen(s)
  IN  Yields(c, chosen, PrepareCall(chosen))

\* Faulty: the phase to resume into is the one the run is in by then.
WorkBegun_ResumingAsIs(s, t) == ResumingInto(Started(s, t), s.state.phase)

WorkBegun(s, t) == ResumingInto(Started(s, t), "implementing")

Prepared(c) ==
  LET call == inFlight[c]
  IN  /\ At(c, "prepare")
      /\ Yields(c, WorkBegun(session, call.task), [call EXCEPT !.at = "work"])

WorkEnds(c) ==
  LET call == inFlight[c]
  IN  /\ At(c, "work")
      /\ \E satisfied \in BOOLEAN :
           /\ satisfied \/ call.mustChange
           /\ Ends(c, ExecutionEnded(session, call.task, satisfied))

-----------------------------------------------------------------------------
(* verify: up to the validator's await if there is one, the checks of the     *)
(* task captured at the start, the verdict on the task active when they end,  *)
(* and its effect on the task active once the report is written.              *)

HasValidator(s, t) ==
  s.state.currentFlow = "worker_validator" \/ TaskKind(s, t) = "verification"

\* Nothing is awaited between the outcome of the checks and the verdict.
ReportCall(s, failed) ==
  [Waiting("report") EXCEPT
     !.failed = failed,
     !.status = VerificationStatus(s, failed),
     !.hint = IF failed = {} THEN "none" ELSE RecoveryHint(s, failed)]

\* Manual checks are decided when they are started, commands when they end.
ChecksCall(s, t) ==
  [Waiting("checks") EXCEPT !.failed = FailedChecks(s, t, TRUE),
                            !.running = Checks(s, t) \cap {"command"}]

\* Without checks the verdict follows at once.
Check(c, s, t) ==
  Yields(c, s, IF Checks(s, t) = {} THEN ReportCall(s, {}) ELSE ChecksCall(s, t))

Verify(c, s) ==
  LET opened == VerificationStarted(s)
      checked == InPhase(opened, "verifying")
      t == checked.state.activeTaskId
      refused == ~CanTransition(opened.state.phase, "verifying")
  IN  \/ refused /\ Ends(c, opened)
      \/ ~refused /\ HasValidator(checked, t)
         /\ Yields(c, checked, [Waiting("validator") EXCEPT !.task = t])
      \/ ~refused /\ ~HasValidator(checked, t) /\ Check(c, checked, t)

TypeVerify(c) == Typed(c, "verify") /\ Verify(c, session)

ValidatorReturns(c) == At(c, "validator") /\ Check(c, session, inFlight[c].task)

ChecksEnd(c) ==
  LET call == inFlight[c]
  IN  /\ At(c, "checks")
      /\ \E more \in SUBSET call.running :
           Yields(c, session, ReportCall(session, call.failed \cup more))

VerdictApplied(s, call) ==
  LET t == s.taskState.activeTaskId
      text == FailureText(call.failed)
      passed == call.status = "pass"
      judged == IF t = NoTask THEN WithReport(s, call.status, TRUE)
                ELSE WithStatus(WithReport(s, call.status, TRUE), t,
                                IF passed THEN "validated" ELSE "blocked")
      explained == IF t = NoTask THEN judged
                   ELSE WithHint(WithTaskBlocker(judged, t, text), t, call.hint)
  IN  CASE call.failed # {} -> WithBlocker(explained, text)
        [] call.failed = {} /\ t # NoTask /\ passed -> WithHint(judged, t, "none")
        [] OTHER -> judged

VerdictTarget(call) == IF call.status = "pass" THEN "reviewing" ELSE "paused"

\* A refused phase throws after the verdict was applied.
ReportWritten(c) ==
  LET call == inFlight[c]
      applied == VerdictApplied(session, call)
      phase == VerdictTarget(call)
  IN  /\ At(c, "report")
      /\ Ends(c, IF CanTransition(session.state.phase, phase)
                 THEN Entered(applied, phase, IF phase = "paused" THEN "implementing" ELSE "reviewing")
                 ELSE applied)

-----------------------------------------------------------------------------
(* continueTaskLoop.  It calls itself when a resume, a pick or a recovery is   *)
(* persisted, and once more when advanceMilestone has returned.                *)

StartTask(c, s) ==
  LET t == s.taskState.activeTaskId
      ready == UnsatisfiedDependencies(s, t) = {}
      verification == TaskKind(s, t) = "verification"
  IN  \/ ~ready /\ Ends(c, PausedOn(s, t))
      \/ ready /\ verification /\ Yields(c, Started(s, t), Waiting("verify"))
      \/ ready /\ ~verification /\ Execute(c, s)

LeaveTask(c, s) ==
  LET t == s.taskState.activeTaskId
      next == NextTodoTask(s, t)
      pending == NextPendingTask(s, t)
  IN  \/ next # NoTask /\ Ends(c, InPhase(WithActiveTask(s, next), "planning"))
      \/ next = NoTask /\ pending # NoTask /\ Ends(c, PausedOn(s, pending))
      \/ next = NoTask /\ pending = NoTask
         /\ Yields(c, IF CanAdvance(s) THEN Advanced(s) ELSE s, Waiting("advanced"))

RunTask(c, s) ==
  LET t == s.taskState.activeTaskId
      status == StatusOf(s, t)
  IN  \/ status = "todo" /\ StartTask(c, s)
      \/ status = "in_progress" /\ Verify(c, s)
      \/ status = "validated" /\ Ends(c, Reviewed(s))
      \/ status = "done" /\ LeaveTask(c, s)
      \/ status = "blocked" /\ IsAutoRecoverable(s, t)
         /\ Yields(c, AutoRecovered(s, t), Waiting("continue"))
      \/ status = "blocked" /\ ~IsAutoRecoverable(s, t) /\ Ends(c, s)
      \/ status = "absent" /\ t # NoTask /\ Ends(c, s)

PickTask(c, s) ==
  LET first == FirstReadyTask(s)
      idle == s.taskState.activeTaskId = NoTask
  IN  \/ idle /\ first = NoTask /\ Ends(c, s)
      \/ idle /\ first # NoTask
         /\ Yields(c, InPhase(WithActiveTask(s, first), "planning"), Waiting("continue"))
      \/ ~idle /\ RunTask(c, s)

\* Resuming is never refused: ResumeIsAccepted.
ContinueTaskLoop(c) ==
  LET phase == session.state.phase
      synced == PointersFromLedger(session)
      resumes == phase = "paused" /\ session.state.blocker = "none"
  IN  \/ phase = "completed" /\ Ends(c, session)
      \/ resumes /\ Yields(c, Resumed(synced), Waiting("continue"))
      \/ phase # "completed" /\ ~resumes /\ PickTask(c, synced)

TypeContinue(c) == Typed(c, "continue") /\ ContinueTaskLoop(c)

Continued(c) == At(c, "continue") /\ ContinueTaskLoop(c)

VerifyCalled(c) == At(c, "verify") /\ Verify(c, session)

MilestoneAdvanced(c) ==
  /\ At(c, "advanced")
  /\ IF session.state.phase = "planning" /\ session.state.blocker = "none"
     THEN ContinueTaskLoop(c) ELSE Ends(c, session)

-----------------------------------------------------------------------------
(* Commands that do all they do to the session before their first await, or   *)
(* after their last one.                                                      *)

TypeReview(c) == Typed(c, "review") /\ Ends(c, Reviewed(session))

TypeResume(c) ==
  /\ Typed(c, "resume")
  /\ Ends(c, IF session.state.phase = "paused" THEN Resumed(session) ELSE session)

TypeReset(c) ==
  LET allowed == session.state.phase \in InactivePhases
                 \/ session.state.lastHandoffPath # NoHandoff
  IN  Typed(c, "reset") /\ Ends(c, IF allowed THEN Reset(session) ELSE session)

TypeClearHandoff(c) ==
  LET cleared == session.state.phase \in InactivePhases
  IN  Typed(c, "clear_handoff") /\ Ends(c, IF cleared THEN WithHandoff(session, NoHandoff) ELSE session)

\* createHandoff: the document records the goal of the session it is written for.
TypeHandoff(c) ==
  /\ Typed(c, "handoff")
  /\ Yields(c, session, [Waiting("handoff") EXCEPT !.goal = session.state.goalSummary])

\* Faulty: the ledger does not learn of the handoff.
HandoffWritten_InRunState(c) ==
  /\ At(c, "handoff")
  /\ Ends(c, [session EXCEPT !.state.lastHandoffPath = [goal |-> inFlight[c].goal]])

HandoffWritten(c) ==
  /\ At(c, "handoff")
  /\ Ends(c, WithHandoff(session, [goal |-> inFlight[c].goal]))

\* What a call waits for rejects; what it assigned before stays.
Rejects(c) == ~At(c, "none") /\ Ends(c, session)

-----------------------------------------------------------------------------

Type(c) ==
  \/ TypePlan(c) \/ TypeInput(c) \/ TypeVerify(c) \/ TypeContinue(c) \/ TypeReview(c)
  \/ TypeResume(c) \/ TypeReset(c) \/ TypeHandoff(c) \/ TypeClearHandoff(c)

Proceeds(c) ==
  \/ PlanWritten(c) \/ MilestonesWritten(c) \/ PlanSaved(c) \/ GoalWritten(c)
  \/ Prepared(c) \/ WorkEnds(c)
  \/ ValidatorReturns(c) \/ ChecksEnd(c) \/ ReportWritten(c)
  \/ Continued(c) \/ VerifyCalled(c) \/ MilestoneAdvanced(c)
  \/ HandoffWritten(c)

HostedNext == \E c \in Callers : Type(c) \/ Proceeds(c) \/ Rejects(c)

HostedSpec == HostedInit /\ [][HostedNext]_hostedVars

-----------------------------------------------------------------------------
(* Properties. *)

\* The active milestone splits the ledger's milestones: those before it are done,
\* those after it untouched, although a plan fills them in two steps and review and
\* advance of another call may come between or after them.
LedgerFrontier ==
  LET active == session.taskState.activeMilestoneId
      status == session.taskState.milestones
  IN  \A m \in Milestones(session) :
        /\ m < active => status[m] = "done"
        /\ m > active => status[m] = "todo"
        /\ m = active => status[m] \in {"in_progress", "done"}

\* Run state and ledger agree on the active task, the report and the handoff: a call
\* that comes back to a session others have moved on never moves one copy alone.  (Of
\* the active milestone this is false: see plan.)
CopiesAgree ==
  LET r == session.state
      l == session.taskState
  IN  /\ r.activeTaskId = l.activeTaskId
      /\ r.lastVerificationStatus = l.lastVerificationStatus
      /\ r.lastVerificationPath = l.lastVerificationPath
      /\ r.lastHandoffPath = l.lastHandoffPath

\* A paused run can be resumed, whichever call paused it and whichever one said last
\* where to go on.
ResumeIsAccepted ==
  session.state.phase = "paused" => CanTransition("paused", ResumeTarget(session))

\* "Verification as a hard gate": no implementation task counts as done while the
\* worker that one call started for it is still changing files.
GateCoversWork ==
  \A c \in Callers :
    At(c, "work") /\ inFlight[c].mustChange => StatusOf(session, inFlight[c].task) # "done"
=============================================================================
