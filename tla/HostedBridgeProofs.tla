------------------------- MODULE HostedBridgeProofs -------------------------
(***************************************************************************)
(* What several callers of one runtime cannot break, proved for every      *)
(* number of callers, every plan shape and every set of commands the       *)
(* bridge dispatches.                                                      *)
(*                                                                         *)
(* A call that comes back from an await works on whatever session the      *)
(* others have made meanwhile, so each piece of code between two awaits    *)
(* has to keep what holds of any session in memory, whatever came before.  *)
(* What that leaves is Held.  The agreement of the active milestone, the   *)
(* blocker of every blocked task and the order of dependencies are not in  *)
(* it: they need a call to see the session it left.                        *)
(***************************************************************************)
EXTENDS HostedBridge, TLAPS

\* The phases the runtime stores to resume into.
ResumePhases == {"none", "planning", "implementing", "reviewing"}

\* Run state and ledger name the same task, report and handoff.
Copied(s) ==
  /\ s.state.activeTaskId = s.taskState.activeTaskId
  /\ s.state.lastVerificationStatus = s.taskState.lastVerificationStatus
  /\ s.state.lastVerificationPath = s.taskState.lastVerificationPath
  /\ s.state.lastHandoffPath = s.taskState.lastHandoffPath

\* The milestones of a ledger before the active one are done, those after it untouched.
Split(active, status) ==
  \A m \in MilestoneIds : status[m] # "absent" =>
    /\ m < active => status[m] = "done"
    /\ m > active => status[m] = "todo"
    /\ m = active => status[m] \in {"in_progress", "done"}

Frontier(s) == Split(s.taskState.activeMilestoneId, s.taskState.milestones)

\* What every piece of code between two awaits may rely on and must leave behind.
Held(s) ==
  /\ s \in Session
  /\ Copied(s)
  /\ s.taskState.resumePhase \in ResumePhases
  /\ Frontier(s)

-----------------------------------------------------------------------------
(* The shared assignments. *)

LEMMA Values ==
  /\ {"idle", "clarifying", "planning", "implementing", "verifying", "reviewing",
      "paused", "completed"} \subseteq Phases
  /\ {"absent", "todo", "in_progress", "validated", "done", "blocked"} \subseteq TaskStatuses
  /\ {"absent", "todo", "in_progress", "done"} \subseteq MilestoneStatuses
  /\ {"none", "pass", "fail", "blocked"} \subseteq VerificationStatuses
  /\ {"none", "user", "manual_output", "checks_failed", "no_changes",
      "milestone_wait"} \subseteq Blockers
  /\ {"none", "manual_output_required", "implementation_no_changes",
      "implementation_fix_required"} \subseteq Hints
  /\ {"auto", "direct", "disciplined_single", "worker_validator", "milestone"} \subseteq Flows
  /\ ResumePhases \subseteq Phases \cup {"none"}
  /\ 1 \in TaskIds
  /\ 1 \in MilestoneIds
  BY PlanShape DEF Phases, TaskStatuses, MilestoneStatuses, VerificationStatuses,
     Blockers, Hints, Flows, TaskIds, MilestoneIds, ResumePhases

\* What an assignment to other fields than the milestones keeps.
SameFrontier(s, n) ==
  /\ n.taskState.milestones = s.taskState.milestones
  /\ n.taskState.activeMilestoneId = s.taskState.activeMilestoneId

LEMMA StillHeld ==
  ASSUME NEW s, NEW n \in Session, Held(s), Copied(n), SameFrontier(s, n),
         n.taskState.resumePhase \in ResumePhases
  PROVE  Held(n)
  BY DEF Held, Frontier, SameFrontier

LEMMA InPhaseHeld ==
  ASSUME NEW s, Held(s), NEW p \in Phases
  PROVE  Held(InPhase(s, p))
<1>1. /\ InPhase(s, p) \in Session /\ Copied(InPhase(s, p))
      /\ InPhase(s, p).taskState = s.taskState
  BY DEF Held, Copied, InPhase, Session, RunState
<1>2. QED
  BY <1>1, StillHeld DEF Held, SameFrontier

LEMMA EnteredHeld ==
  ASSUME NEW s, Held(s), NEW p \in Phases, NEW r \in ResumePhases
  PROVE  Held(Entered(s, p, r))
<1>1. Entered(s, p, r) \in Session
  BY Values DEF Held, Entered, Session, RunState, TaskState
<1>2. Copied(Entered(s, p, r))
  BY DEF Held, Copied, Entered, Session, RunState, TaskState
<1>3. SameFrontier(s, Entered(s, p, r)) /\ Entered(s, p, r).taskState.resumePhase = r
  BY DEF Held, SameFrontier, Entered, Session, TaskState
<1>4. QED
  BY <1>1, <1>2, <1>3, StillHeld

LEMMA ResumingIntoHeld ==
  ASSUME NEW s, Held(s), NEW r \in ResumePhases
  PROVE  Held(ResumingInto(s, r))
<1>1. ResumingInto(s, r) \in Session /\ Copied(ResumingInto(s, r))
  BY Values DEF Held, Copied, ResumingInto, Session, TaskState
<1>2. SameFrontier(s, ResumingInto(s, r)) /\ ResumingInto(s, r).taskState.resumePhase = r
  BY DEF Held, SameFrontier, ResumingInto, Session, TaskState
<1>3. QED
  BY <1>1, <1>2, StillHeld

LEMMA RunStateHeld ==
  ASSUME NEW s, Held(s), NEW f \in Flows, NEW g \in GoalSummaries, NEW b \in Blockers
  PROVE  Held(WithFlow(s, f)) /\ Held(WithGoal(s, g)) /\ Held(WithBlocker(s, b))
<1>1. /\ WithFlow(s, f) \in Session /\ Copied(WithFlow(s, f))
      /\ WithFlow(s, f).taskState = s.taskState
  BY DEF Held, Copied, WithFlow, Session, RunState
<1>2. /\ WithGoal(s, g) \in Session /\ Copied(WithGoal(s, g))
      /\ WithGoal(s, g).taskState = s.taskState
  BY DEF Held, Copied, WithGoal, Session, RunState
<1>3. /\ WithBlocker(s, b) \in Session /\ Copied(WithBlocker(s, b))
      /\ WithBlocker(s, b).taskState = s.taskState
  BY DEF Held, Copied, WithBlocker, Session, RunState
<1>4. QED
  BY <1>1, <1>2, <1>3, StillHeld DEF Held, SameFrontier

LEMMA WithBlockerHeld ==
  ASSUME NEW s, Held(s), NEW b \in Blockers PROVE Held(WithBlocker(s, b))
<1>1. "auto" \in Flows /\ NoGoal \in GoalSummaries
  BY DEF Flows, GoalSummaries
<1>2. QED
  BY <1>1, RunStateHeld

LEMMA WithReportHeld ==
  ASSUME NEW s, Held(s), NEW v \in VerificationStatuses, NEW p \in BOOLEAN
  PROVE  Held(WithReport(s, v, p))
<1>1. WithReport(s, v, p) \in Session
  BY DEF Held, WithReport, Session, RunState, TaskState
<1>2. Copied(WithReport(s, v, p))
  BY DEF Held, Copied, WithReport, Session, RunState, TaskState
<1>3. /\ SameFrontier(s, WithReport(s, v, p))
      /\ WithReport(s, v, p).taskState.resumePhase \in ResumePhases
  BY DEF Held, SameFrontier, WithReport, Session, TaskState
<1>4. QED
  BY <1>1, <1>2, <1>3, StillHeld

LEMMA WithActiveTaskHeld ==
  ASSUME NEW s, Held(s), NEW t \in TaskIds \cup {NoTask}
  PROVE  Held(WithActiveTask(s, t))
<1>1. WithActiveTask(s, t) \in Session
  BY DEF Held, WithActiveTask, Session, RunState, TaskState
<1>2. Copied(WithActiveTask(s, t))
  BY DEF Held, Copied, WithActiveTask, Session, RunState, TaskState
<1>3. /\ SameFrontier(s, WithActiveTask(s, t))
      /\ WithActiveTask(s, t).taskState.resumePhase \in ResumePhases
  BY DEF Held, SameFrontier, WithActiveTask, Session, TaskState
<1>4. QED
  BY <1>1, <1>2, <1>3, StillHeld

LEMMA WithHandoffHeld ==
  ASSUME NEW s, Held(s), NEW h \in Handoffs
  PROVE  Held(WithHandoff(s, h))
<1>1. WithHandoff(s, h) \in Session
  BY DEF Held, WithHandoff, Session, RunState, TaskState
<1>2. Copied(WithHandoff(s, h))
  BY DEF Held, Copied, WithHandoff, Session, RunState, TaskState
<1>3. /\ SameFrontier(s, WithHandoff(s, h))
      /\ WithHandoff(s, h).taskState.resumePhase \in ResumePhases
  BY DEF Held, SameFrontier, WithHandoff, Session, TaskState
<1>4. QED
  BY <1>1, <1>2, <1>3, StillHeld

\* A task's entry in the ledger.
LEMMA TaskEntryHeld ==
  ASSUME NEW s, Held(s), NEW t \in TaskIds, NEW v \in TaskStatuses, NEW b \in Blockers,
         NEW h \in Hints
  PROVE  /\ Held(WithStatus(s, t, v)) /\ Held(WithTaskBlocker(s, t, b))
         /\ Held(WithHint(s, t, h)) /\ Held(WithOutput(s, t))
<1>1. Held(WithStatus(s, t, v))
  <2>1. WithStatus(s, t, v) \in Session /\ Copied(WithStatus(s, t, v))
    BY DEF Held, Copied, WithStatus, Session, TaskState
  <2>2. /\ SameFrontier(s, WithStatus(s, t, v))
        /\ WithStatus(s, t, v).taskState.resumePhase \in ResumePhases
    BY DEF Held, SameFrontier, WithStatus, Session, TaskState
  <2>3. QED
    BY <2>1, <2>2, StillHeld
<1>2. Held(WithTaskBlocker(s, t, b))
  <2>1. WithTaskBlocker(s, t, b) \in Session /\ Copied(WithTaskBlocker(s, t, b))
    BY DEF Held, Copied, WithTaskBlocker, Session, TaskState
  <2>2. /\ SameFrontier(s, WithTaskBlocker(s, t, b))
        /\ WithTaskBlocker(s, t, b).taskState.resumePhase \in ResumePhases
    BY DEF Held, SameFrontier, WithTaskBlocker, Session, TaskState
  <2>3. QED
    BY <2>1, <2>2, StillHeld
<1>3. Held(WithHint(s, t, h))
  <2>1. WithHint(s, t, h) \in Session /\ Copied(WithHint(s, t, h))
    BY DEF Held, Copied, WithHint, Session, TaskState
  <2>2. /\ SameFrontier(s, WithHint(s, t, h))
        /\ WithHint(s, t, h).taskState.resumePhase \in ResumePhases
    BY DEF Held, SameFrontier, WithHint, Session, TaskState
  <2>3. QED
    BY <2>1, <2>2, StillHeld
<1>4. Held(WithOutput(s, t))
  <2>1. WithOutput(s, t) \in Session /\ Copied(WithOutput(s, t))
    BY DEF Held, Copied, WithOutput, Session, TaskState
  <2>2. /\ SameFrontier(s, WithOutput(s, t))
        /\ WithOutput(s, t).taskState.resumePhase \in ResumePhases
    BY DEF Held, SameFrontier, WithOutput, Session, TaskState
  <2>3. QED
    BY <2>1, <2>2, StillHeld
<1>5. QED
  BY <1>1, <1>2, <1>3, <1>4

LEMMA MarkedHeld ==
  ASSUME NEW s, Held(s), NEW t \in TaskIds, NEW v \in TaskStatuses, NEW b \in Blockers,
         NEW h \in Hints
  PROVE  Held(Marked(s, t, v, b, h))
<1>1. Held(WithBlocker(s, b))
  BY WithBlockerHeld
<1>2. Held(WithStatus(WithBlocker(s, b), t, v))
  BY <1>1, TaskEntryHeld
<1>3. Held(WithTaskBlocker(WithStatus(WithBlocker(s, b), t, v), t, b))
  BY <1>2, TaskEntryHeld
<1>4. QED
  BY <1>3, TaskEntryHeld DEF Marked

LEMMA InvalidatedHeld == ASSUME NEW s, Held(s) PROVE Held(Invalidated(s))
  BY WithReportHeld, Values DEF Invalidated

-----------------------------------------------------------------------------
(* The pieces of the methods. *)

\* A run state and a ledger that start over.
LEMMA StartedOverHeld ==
  ASSUME NEW r \in RunState, NEW l \in TaskState,
         l.milestones = [m \in MilestoneIds |-> "absent"],
         l.resumePhase = "none",
         r.activeTaskId = l.activeTaskId,
         r.lastVerificationStatus = l.lastVerificationStatus,
         r.lastVerificationPath = l.lastVerificationPath,
         r.lastHandoffPath = l.lastHandoffPath
  PROVE  Held([state |-> r, taskState |-> l])
  BY DEF Held, Copied, Frontier, Split, Session, ResumePhases

LEMMA InitialTypes == InitialRunState \in RunState /\ InitialTaskState \in TaskState
  BY Values DEF InitialRunState, InitialTaskState, RunState, TaskState, NoTask, NoMilestone,
     Handoffs, GoalSummaries

LEMMA InitialHeld == Held(InitialSession)
<1>1. /\ InitialTaskState.milestones = [m \in MilestoneIds |-> "absent"]
      /\ InitialTaskState.resumePhase = "none"
      /\ InitialRunState.activeTaskId = InitialTaskState.activeTaskId
      /\ InitialRunState.lastVerificationStatus = InitialTaskState.lastVerificationStatus
      /\ InitialRunState.lastVerificationPath = InitialTaskState.lastVerificationPath
      /\ InitialRunState.lastHandoffPath = InitialTaskState.lastHandoffPath
  BY DEF InitialRunState, InitialTaskState
<1>2. QED
  BY <1>1, InitialTypes, StartedOverHeld DEF InitialSession

LEMMA ClearedHeld == ASSUME NEW s, Held(s) PROVE Held(Cleared(s)) /\ Held(Reopened(s))
<1> DEFINE r == [InitialRunState EXCEPT !.lastHandoffPath = s.state.lastHandoffPath]
           l == [InitialTaskState EXCEPT !.taskMilestones = s.taskState.taskMilestones,
                                         !.lastHandoffPath = s.state.lastHandoffPath]
<1>1. /\ s.taskState.taskMilestones \in [TaskIds -> MilestoneIds \cup {NoMilestone}]
      /\ s.state.lastHandoffPath \in Handoffs
  BY DEF Held, Session, RunState, TaskState
<1>2. r \in RunState /\ l \in TaskState
  BY <1>1, InitialTypes DEF RunState, TaskState
<1>3. Held([state |-> r, taskState |-> l])
  BY <1>2, StartedOverHeld DEF InitialRunState, InitialTaskState
<1>4. QED
  BY <1>3 DEF Cleared, Reopened

LEMMA ResetHeld == ASSUME NEW s, Held(s) PROVE Held(Reset(s))
<1> DEFINE r == [InitialRunState EXCEPT !.lastHandoffPath = s.state.lastHandoffPath]
           l == [InitialTaskState EXCEPT !.lastHandoffPath = s.state.lastHandoffPath]
<1>1. s.state.lastHandoffPath \in Handoffs
  BY DEF Held, Session, RunState
<1>2. r \in RunState /\ l \in TaskState
  BY <1>1, InitialTypes DEF RunState, TaskState
<1>3. Held([state |-> r, taskState |-> l])
  BY <1>2, StartedOverHeld DEF InitialRunState, InitialTaskState
<1>4. QED
  BY <1>3 DEF Reset

LEMMA PlanBegunHeld ==
  ASSUME NEW s, Held(s), NEW g \in GoalSummaries, NEW f \in Flows
  PROVE  Held(PlanBegun(s, g, f))
<1> DEFINE c == Cleared(s)
           flow == IF f = "milestone" THEN f ELSE "disciplined_single"
           n == [c EXCEPT !.state.phase = "planning", !.state.currentFlow = flow,
                          !.state.goalSummary = g]
<1>1. Held(c)
  BY ClearedHeld
<1>2. PlanBegun(s, g, f) = n
  BY DEF PlanBegun
<1>3. flow \in Flows
  BY Values
<1> HIDE DEF c, flow
<1>4. n \in Session /\ Copied(n) /\ n.taskState = c.taskState
  BY <1>1, <1>3, Values DEF Held, Copied, Session, RunState
<1>5. QED
  BY <1>1, <1>2, <1>4, StillHeld DEF Held, SameFrontier

LEMMA TasksFilledHeld ==
  ASSUME NEW s, Held(s), NEW f
  PROVE  Held(TasksFilled(s, f))
<1> DEFINE todo == [t \in TaskIds |-> "todo"]
           tags == [t \in TaskIds |-> OrElse(PlanMilestone[t], s.taskState.taskMilestones[t])]
           l == [s.taskState EXCEPT !.tasks = todo, !.taskMilestones = tags, !.planned = TRUE]
           r == [s.state EXCEPT !.activePlanPath = TRUE]
           filled == [state |-> r, taskState |-> l]
           active == WithActiveTask(filled, 1)
           short == [active EXCEPT !.state.activeMilestoneId = NoMilestone]
<1>1. todo \in [TaskIds -> TaskStatuses]
  BY Values
<1>2. tags \in [TaskIds -> MilestoneIds \cup {NoMilestone}]
  BY PlanShape DEF OrElse, Held, Session, TaskState
<1>3. TasksFilled(s, f) = IF f = "milestone" THEN active ELSE short
  BY DEF TasksFilled
<1> HIDE DEF todo, tags
<1>4. filled \in Session /\ Copied(filled)
  BY <1>1, <1>2 DEF Held, Copied, Session, RunState, TaskState
<1>5. SameFrontier(s, filled) /\ filled.taskState.resumePhase \in ResumePhases
  BY DEF Held, SameFrontier, Session, TaskState
<1>6. Held(active)
  BY <1>4, <1>5, StillHeld, WithActiveTaskHeld, Values
<1> HIDE DEF active
<1>7. short \in Session /\ Copied(short) /\ short.taskState = active.taskState
  BY <1>6 DEF Held, Copied, Session, RunState
<1>8. Held(short)
  BY <1>6, <1>7, StillHeld DEF Held, SameFrontier
<1>9. QED
  BY <1>3, <1>6, <1>8

\* Milestones that change together with the active one.
LEMMA NewFrontier ==
  ASSUME NEW s, Held(s), NEW m \in MilestoneIds \cup {NoMilestone},
         NEW status \in [MilestoneIds -> MilestoneStatuses], Split(m, status)
  PROVE  /\ Held([WithMilestone(s, m) EXCEPT !.taskState.milestones = status])
         /\ WithMilestone(s, m) \in Session
         /\ WithMilestone(s, m).taskState.milestones = s.taskState.milestones
<1> DEFINE w == WithMilestone(s, m)
           n == [w EXCEPT !.taskState.milestones = status]
<1>1. w \in Session
  BY DEF Held, WithMilestone, Session, RunState, TaskState
<1>2. Copied(w)
  BY DEF Held, Copied, WithMilestone, Session, RunState, TaskState
<1>3. /\ w.taskState.activeMilestoneId = m
      /\ w.taskState.resumePhase \in ResumePhases
      /\ w.taskState.milestones = s.taskState.milestones
  BY DEF Held, WithMilestone, Session, TaskState
<1> HIDE DEF w
<1>4. n \in Session /\ Copied(n)
  BY <1>1, <1>2 DEF Copied, Session, TaskState
<1>5. /\ n.taskState.activeMilestoneId = m /\ n.taskState.milestones = status
      /\ n.taskState.resumePhase \in ResumePhases
  BY <1>1, <1>3 DEF Session, TaskState
<1>6. QED
  BY <1>1, <1>3, <1>4, <1>5 DEF Held, Frontier, w

LEMMA MilestonesFilledHeld == ASSUME NEW s, Held(s) PROVE Held(MilestonesFilled(s))
<1> DEFINE status == [m \in MilestoneIds |-> IF m = 1 THEN "in_progress" ELSE "todo"]
<1>1. status \in [MilestoneIds -> MilestoneStatuses]
  BY Values
<1>2. Split(1, status)
  BY DEF Split, MilestoneIds
<1>3. QED
  BY <1>1, <1>2, NewFrontier, Values DEF MilestonesFilled

LEMMA WithSomeTaskHeld ==
  ASSUME NEW s, Held(s)
  PROVE  Held(WithSomeTask(s)) /\ WithSomeTask(s).state.activeTaskId \in TaskIds
<1>1. CASE s.state.activeTaskId = NoTask
  <2>1. WithSomeTask(s) = WithActiveTask(s, 1)
    BY <1>1 DEF WithSomeTask
  <2>2. WithActiveTask(s, 1).state.activeTaskId = 1
    BY DEF WithActiveTask, Held, Session, RunState
  <2>3. QED
    BY <2>1, <2>2, WithActiveTaskHeld, Values
<1>2. CASE s.state.activeTaskId # NoTask
  BY <1>2 DEF WithSomeTask, Held, Session, RunState
<1>3. QED
  BY <1>1, <1>2

LEMMA StartedHeld == ASSUME NEW s, Held(s), NEW t \in TaskIds PROVE Held(Started(s, t))
  BY TaskEntryHeld, Values DEF Started

LEMMA TaskChosenHeld ==
  ASSUME NEW s, Held(s)
  PROVE  Held(TaskChosen(s)) /\ TaskChosen(s).state.activeTaskId \in TaskIds
<1> DEFINE routed == Routed(Reopened(s))
           phased == IF routed.state.phase \in {"planning", "paused"}
                     THEN InPhase(routed, "implementing") ELSE routed
<1>1. NoGoal \in GoalSummaries
  BY DEF GoalSummaries
<1>2. Held(routed)
  BY <1>1, ClearedHeld, RunStateHeld, Values DEF Routed
<1>3. Held(phased)
  BY <1>2, InPhaseHeld, Values
<1>4. QED
  BY <1>3, WithSomeTaskHeld DEF TaskChosen

LEMMA WorkBegunHeld ==
  ASSUME NEW s, Held(s), NEW t \in TaskIds PROVE Held(WorkBegun(s, t))
  BY StartedHeld, ResumingIntoHeld DEF WorkBegun, ResumePhases

LEMMA ExecutionEndedHeld ==
  ASSUME NEW s, Held(s), NEW t \in TaskIds, NEW satisfied
  PROVE  Held(ExecutionEnded(s, t, satisfied))
<1> DEFINE noted == WithHint(WithOutput(Invalidated(s), t), t, "none")
           marked == Marked(noted, t, "blocked", "no_changes", "implementation_no_changes")
<1>1. Held(noted)
  BY InvalidatedHeld, TaskEntryHeld, Values
<1>2. Held(marked)
  BY <1>1, MarkedHeld, Values
<1>3. QED
  BY <1>1, <1>2, InPhaseHeld, Values DEF ExecutionEnded

LEMMA VerificationStartedHeld ==
  ASSUME NEW s, Held(s)
  PROVE  Held(VerificationStarted(s)) /\ Held(InPhase(VerificationStarted(s), "verifying"))
<1>1. Held(Started(WithSomeTask(Cleared(s)), 1))
  BY ClearedHeld, WithSomeTaskHeld, StartedHeld, Values
<1>2. Held(VerificationStarted(s))
  BY <1>1, InPhaseHeld, Values DEF VerificationStarted
<1>3. QED
  BY <1>2, InPhaseHeld, Values

LEMMA VerdictAppliedHeld ==
  ASSUME NEW s, Held(s), NEW call \in Call
  PROVE  Held(VerdictApplied(s, call))
<1> DEFINE t == s.taskState.activeTaskId
           text == FailureText(call.failed)
           reported == WithReport(s, call.status, TRUE)
           verdict == IF call.status = "pass" THEN "validated" ELSE "blocked"
           judged == IF t = NoTask THEN reported ELSE WithStatus(reported, t, verdict)
           explained == IF t = NoTask THEN judged
                        ELSE WithHint(WithTaskBlocker(judged, t, text), t, call.hint)
<1>1. t # NoTask => t \in TaskIds
  BY DEF Held, Session, TaskState
<1>2. /\ call.status \in VerificationStatuses /\ call.hint \in Hints /\ text \in Blockers
      /\ verdict \in TaskStatuses /\ "none" \in Hints
  BY Values DEF Call, FailureText
<1>3. Held(reported)
  BY <1>2, WithReportHeld
<1> HIDE DEF reported, t, text, verdict
<1>4. Held(judged)
  BY <1>1, <1>2, <1>3, TaskEntryHeld, Values
<1> HIDE DEF judged
<1>5. Held(explained)
  <2>1. t # NoTask => Held(WithTaskBlocker(judged, t, text))
    BY <1>1, <1>2, <1>4, TaskEntryHeld
  <2>2. t # NoTask => Held(WithHint(WithTaskBlocker(judged, t, text), t, call.hint))
    BY <1>1, <1>2, <2>1, TaskEntryHeld
  <2>3. QED
    BY <1>4, <2>2
<1> HIDE DEF explained
<1>6. Held(WithBlocker(explained, text))
  BY <1>2, <1>5, WithBlockerHeld
<1>7. t # NoTask => Held(WithHint(judged, t, "none"))
  BY <1>1, <1>2, <1>4, TaskEntryHeld
<1>8. VerdictApplied(s, call) \in
        {WithBlocker(explained, text), judged} \cup
        (IF t # NoTask THEN {WithHint(judged, t, "none")} ELSE {})
  BY DEF VerdictApplied, t, text, reported, verdict, judged, explained
<1>9. QED
  BY <1>4, <1>6, <1>7, <1>8

LEMMA ReportWrittenHeld ==
  ASSUME NEW s, Held(s), NEW call \in Call
  PROVE  LET phase == VerdictTarget(call)
         IN  Held(Entered(VerdictApplied(s, call), phase,
                          IF phase = "paused" THEN "implementing" ELSE "reviewing"))
  BY VerdictAppliedHeld, EnteredHeld, Values DEF VerdictTarget, ResumePhases

LEMMA FirstOfType == ASSUME NEW S PROVE FirstOf(S) \in S \cup {0}
  BY DEF FirstOf, IsFirst

\* The active milestone is closed: the frontier stays where it is.
LEMMA ClosedHeld ==
  ASSUME NEW s, Held(s), s.taskState.activeMilestoneId # NoMilestone
  PROVE  Held(WithMilestoneStatus(s, s.taskState.activeMilestoneId, "done"))
<1> DEFINE m == s.taskState.activeMilestoneId
           n == WithMilestoneStatus(s, m, "done")
           status == s.taskState.milestones
<1>1. m \in MilestoneIds /\ status \in [MilestoneIds -> MilestoneStatuses]
  BY DEF Held, Session, TaskState
<1>2. n \in Session /\ Copied(n) /\ n.taskState.resumePhase \in ResumePhases
  BY <1>1, Values DEF Held, Copied, WithMilestoneStatus, Session, TaskState
<1>3. /\ n.taskState.activeMilestoneId = m
      /\ n.taskState.milestones = [status EXCEPT ![m] = "done"]
  BY DEF Held, WithMilestoneStatus, Session, TaskState
<1>4. Split(m, status)
  BY DEF Held, Frontier
<1> HIDE DEF n, m, status
<1>5. Split(m, [status EXCEPT ![m] = "done"])
  BY <1>1, <1>4 DEF Split, MilestoneIds
<1>6. QED
  BY <1>2, <1>3, <1>5 DEF Held, Frontier, n, m

LEMMA ReviewedHeld == ASSUME NEW s, Held(s) PROVE Held(Reviewed(s))
<1> DEFINE t == s.taskState.activeTaskId
           m == s.taskState.activeMilestoneId
           accepted == IF t = NoTask THEN s ELSE WithStatus(s, t, "done")
           finished == Entered(accepted, "completed", "none")
           waiting == Entered(accepted, "paused", "planning")
<1>1. t # NoTask => t \in TaskIds
  BY DEF Held, Session, TaskState
<1>2. Held(accepted) /\ accepted.taskState.activeMilestoneId = m
  <2>1. Held(accepted)
    BY <1>1, TaskEntryHeld, Values
  <2>2. QED
    BY <2>1 DEF WithStatus, Held, Session, TaskState
<1> HIDE DEF accepted, m
<1>3. /\ Held(finished) /\ finished.taskState.activeMilestoneId = m
      /\ Held(waiting) /\ waiting.taskState.activeMilestoneId = m
  <2>1. Held(finished) /\ Held(waiting)
    BY <1>2, EnteredHeld, Values DEF ResumePhases
  <2>2. finished.taskState.activeMilestoneId = m
    BY <1>2 DEF Held, Entered, Session, RunState, TaskState
  <2>3. waiting.taskState.activeMilestoneId = m
    BY <1>2 DEF Held, Entered, Session, RunState, TaskState
  <2>4. QED
    BY <2>1, <2>2, <2>3
<1> HIDE DEF finished, waiting
<1>4. ASSUME m # NoMilestone
      PROVE  /\ Held(WithMilestoneStatus(waiting, m, "done"))
             /\ Held(WithMilestoneStatus(finished, m, "done"))
  BY <1>3, <1>4, ClosedHeld
<1>5. Reviewed(s) =
        IF ~PassedReview(s) THEN s
        ELSE IF s.state.currentFlow # "milestone" \/ m = NoMilestone THEN finished
        ELSE WithMilestoneStatus(IF HasNextMilestone(s, m) THEN waiting ELSE finished, m, "done")
  BY DEF Reviewed, m, accepted, finished, waiting
<1>6. QED
  BY <1>3, <1>4, <1>5

\* The first milestone after a closed one moves the frontier, since those between them
\* do not exist.
LEMMA AdvancedFrontier ==
  ASSUME NEW s, Held(s), NEW m \in MilestoneIds, m = s.taskState.activeMilestoneId,
         NextMilestone(s, m) # NoMilestone
  PROVE  /\ NextMilestone(s, m) \in MilestoneIds /\ NextMilestone(s, m) > m
         /\ Split(NextMilestone(s, m),
                  [[s.taskState.milestones EXCEPT ![m] = "done"]
                     EXCEPT ![NextMilestone(s, m)] = "in_progress"])
<1> DEFINE later == {n \in Milestones(s) : n > m}
           next == NextMilestone(s, m)
           status == s.taskState.milestones
<1>1. IsFirst(next, later)
  BY DEF NextMilestone, FirstOf, NoMilestone
<1>2. next \in MilestoneIds /\ next > m /\ status[next] # "absent"
  BY <1>1 DEF IsFirst, Milestones
<1>3. \A n \in MilestoneIds : status[n] # "absent" /\ n > m => next <= n
  BY <1>1 DEF IsFirst, Milestones
<1>4. status \in [MilestoneIds -> MilestoneStatuses] /\ Split(m, status)
  BY DEF Held, Frontier, Session, TaskState
<1> HIDE DEF next, status
<1>5. Split(next, [[status EXCEPT ![m] = "done"] EXCEPT ![next] = "in_progress"])
  BY <1>2, <1>3, <1>4 DEF Split, MilestoneIds
<1>6. QED
  BY <1>2, <1>5 DEF next, status

LEMMA ActivatedHeld ==
  ASSUME NEW s, Held(s), NEW m \in MilestoneIds, NEW t \in TaskIds,
         Split(m, [s.taskState.milestones EXCEPT ![m] = "in_progress"])
  PROVE  Held(Activated(s, m, t))
<1> DEFINE active == WithActiveTask(s, t)
           onTask == WithStatus(active, t, "todo")
           status == [s.taskState.milestones EXCEPT ![m] = "in_progress"]
           tagged == WithMilestone(onTask, m)
           onMilestone == WithMilestoneStatus(tagged, m, "in_progress")
<1>1. Held(active) /\ active.taskState.milestones = s.taskState.milestones
  <2>1. Held(active)
    BY WithActiveTaskHeld
  <2>2. QED
    BY <2>1 DEF WithActiveTask, Held, Session, TaskState
<1> HIDE DEF active
<1>2. Held(onTask) /\ onTask.taskState.milestones = s.taskState.milestones
  <2>1. Held(onTask)
    BY <1>1, TaskEntryHeld, Values
  <2>2. QED
    BY <1>1, <2>1 DEF WithStatus, Held, Session, TaskState
<1> HIDE DEF onTask
<1>3. status \in [MilestoneIds -> MilestoneStatuses]
  BY Values DEF Held, Session, TaskState
<1>4. /\ Held([tagged EXCEPT !.taskState.milestones = status])
      /\ tagged \in Session
      /\ tagged.taskState.milestones = s.taskState.milestones
  BY <1>2, <1>3, NewFrontier
<1> HIDE DEF tagged
<1>5. onMilestone = [tagged EXCEPT !.taskState.milestones = status]
  BY <1>4 DEF WithMilestoneStatus, Session, TaskState
<1>6. Held(onMilestone)
  BY <1>4, <1>5
<1> HIDE DEF onMilestone
<1>7. NoGoal \in GoalSummaries
  BY DEF GoalSummaries
<1>8. Held(InPhase(onMilestone, "planning"))
  BY <1>6, InPhaseHeld, Values
<1>9. Held(WithFlow(InPhase(onMilestone, "planning"), "milestone"))
  BY <1>7, <1>8, RunStateHeld, Values
<1>10. QED
  BY <1>9, InvalidatedHeld DEF Activated, active, onTask, tagged, onMilestone

LEMMA AdvancedHeld ==
  ASSUME NEW s, Held(s), CanAdvance(s)
  PROVE  Held(Advanced(s))
<1> DEFINE m == s.taskState.activeMilestoneId
           closed == WithMilestoneStatus(s, m, "done")
           next == NextMilestone(s, m)
           task == OrElse(FirstReadyTaskForMilestone(closed, next), FallbackTask(m))
           idle == WithActiveTask(closed, NoTask)
<1>1. m \in MilestoneIds /\ m # NoMilestone
  BY DEF CanAdvance, Milestones
<1>2. /\ Held(closed) /\ closed.taskState.activeMilestoneId = m
      /\ closed.taskState.milestones = [s.taskState.milestones EXCEPT ![m] = "done"]
  <2>1. Held(closed)
    BY <1>1, ClosedHeld
  <2>2. QED
    BY <2>1 DEF WithMilestoneStatus, Held, Session, TaskState
<1>3. Held(Concluded(closed, m))
  <2>1. /\ Held(idle) /\ idle.taskState.activeMilestoneId = m
        /\ idle.taskState.milestones = closed.taskState.milestones
    <3>1. Held(idle)
      BY <1>2, WithActiveTaskHeld
    <3>2. QED
      BY <1>2, <3>1 DEF WithActiveTask, Held, Session, TaskState
  <2> HIDE DEF idle
  <2>2. Held(WithMilestone(idle, m))
    <3>1. /\ WithMilestone(idle, m) \in Session /\ Copied(WithMilestone(idle, m))
      BY <1>1, <2>1 DEF WithMilestone, Held, Copied, Session, RunState, TaskState
    <3>2. /\ SameFrontier(idle, WithMilestone(idle, m))
          /\ WithMilestone(idle, m).taskState.resumePhase \in ResumePhases
      BY <1>1, <2>1 DEF WithMilestone, Held, SameFrontier, Session, TaskState
    <3>3. QED
      BY <2>1, <3>1, <3>2, StillHeld
  <2>3. QED
    BY <2>2, InPhaseHeld, Values DEF Concluded, idle
<1>4. Held(WaitingForMilestone(closed))
  <2>1. Held(Entered(closed, "paused", "planning"))
    BY <1>2, EnteredHeld, Values DEF ResumePhases
  <2>2. QED
    BY <2>1, WithBlockerHeld, Values DEF WaitingForMilestone
<1>5. ASSUME next # NoMilestone
      PROVE  Held(Activated(closed, next, task))
  <2>1. /\ next \in MilestoneIds /\ next > m
        /\ Split(next, [closed.taskState.milestones EXCEPT ![next] = "in_progress"])
    BY <1>1, <1>2, <1>5, AdvancedFrontier
  <2>2. FallbackTask(m) \in TaskIds
    BY <1>1, <2>1, PlanShape DEF FallbackTask, MilestoneIds, TaskIds
  <2>3. FirstReadyTaskForMilestone(closed, next) \in TaskIds \cup {0}
    BY FirstOfType DEF FirstReadyTaskForMilestone, Ready
  <2>4. task \in TaskIds
    BY <2>2, <2>3 DEF OrElse
  <2> HIDE DEF task, closed, next, m
  <2>5. QED
    BY <1>2, <2>1, <2>4, ActivatedHeld
<1>6. Advanced(s) =
        IF next = NoMilestone THEN Concluded(closed, m)
        ELSE IF UnsatisfiedMilestoneDependencies(closed, next) # {} THEN WaitingForMilestone(closed)
        ELSE Activated(closed, next, task)
  BY DEF Advanced
<1> HIDE DEF m, closed, next, task
<1>7. QED
  BY <1>3, <1>4, <1>5, <1>6

LEMMA ResumeTargetType ==
  ASSUME NEW s, Held(s)
  PROVE  ResumeTarget(s) \in ResumePhases \ {"none"}
  BY DEF ResumeTarget, Held, ResumePhases

LEMMA ResumedHeld == ASSUME NEW s, Held(s) PROVE Held(Resumed(s))
<1>1. Held(Entered(s, ResumeTarget(s), ResumeTarget(s)))
  BY ResumeTargetType, EnteredHeld, Values
<1>2. QED
  BY <1>1, WithBlockerHeld, Values DEF Resumed

LEMMA AutoRecoveredHeld ==
  ASSUME NEW s, Held(s), NEW t \in TaskIds PROVE Held(AutoRecovered(s, t))
<1>1. Held(Marked(s, t, "todo", "none", "none"))
  BY MarkedHeld, Values
<1>2. QED
  BY <1>1, EnteredHeld, Values DEF AutoRecovered, ResumePhases

LEMMA PickedHeld ==
  ASSUME NEW s, Held(s), NEW t \in TaskIds
  PROVE  Held(PausedOn(s, t)) /\ Held(InPhase(WithActiveTask(s, t), "planning"))
<1>1. Held(WithActiveTask(s, t))
  BY WithActiveTaskHeld
<1>2. QED
  BY <1>1, EnteredHeld, InPhaseHeld, Values DEF PausedOn, ResumePhases

LEMMA PointersFromLedgerHeld == ASSUME NEW s, Held(s) PROVE Held(PointersFromLedger(s))
<1> DEFINE n == PointersFromLedger(s)
<1>1. n \in Session /\ n.taskState = s.taskState
  BY DEF PointersFromLedger, Held, Session, RunState, TaskState
<1>2. Copied(n)
  BY DEF PointersFromLedger, Held, Copied, Session, RunState, TaskState
<1>3. QED
  BY <1>1, <1>2, StillHeld DEF Held, SameFrontier

-----------------------------------------------------------------------------
(* The calls in flight. *)

\* An execution knows its task.
KnowsTask(call) == call.at \in {"prepare", "work"} => call.task \in TaskIds

\* Session and calls between any two steps.
HostedInv ==
  /\ Held(session)
  /\ inFlight \in [Callers -> Call]
  /\ \A c \in Callers : KnowsTask(inFlight[c])

LEMMA YieldsHeld ==
  ASSUME HostedInv, NEW c \in Callers, NEW s, NEW call \in Call,
         Held(s), KnowsTask(call), Yields(c, s, call)
  PROVE  HostedInv'
  BY DEF HostedInv, Yields, KnowsTask, Held, Copied, Frontier, Split

LEMMA NoCallType == NoCall \in Call /\ NoCall.at = "none"
  BY Values DEF NoCall, Call, Awaits, GoalSummaries

LEMMA WaitingType ==
  ASSUME NEW await \in Awaits
  PROVE  Waiting(await) \in Call /\ Waiting(await).at = await
  BY NoCallType DEF Waiting, Call

LEMMA AwaitNames ==
  /\ {"none", "planning", "milestones", "plan_saved", "goal", "handoff", "continue", "verify",
      "advanced", "prepare", "work", "validator", "checks", "report"} = Awaits
  BY DEF Awaits

LEMMA EndsHeld ==
  ASSUME HostedInv, NEW c \in Callers, NEW s, Held(s), Ends(c, s)
  PROVE  HostedInv'
  BY YieldsHeld, NoCallType DEF Ends, KnowsTask

LEMMA WaitsHeld ==
  ASSUME HostedInv, NEW c \in Callers, NEW s, Held(s),
         NEW await \in Awaits \ {"prepare", "work"}, Yields(c, s, Waiting(await))
  PROVE  HostedInv'
  BY YieldsHeld, WaitingType DEF KnowsTask

-----------------------------------------------------------------------------
(* plan and handleInput. *)

LEMMA PlanBeginsHeld ==
  ASSUME HostedInv, NEW c \in Callers, NEW g \in GoalSummaries, NEW f \in Flows,
         PlanBegins(c, g, f)
  PROVE  HostedInv'
<1> DEFINE call == [Waiting("planning") EXCEPT !.flow = f]
<1>1. Waiting("planning") \in Call /\ Waiting("planning").at = "planning"
  BY WaitingType, AwaitNames
<1>2. call \in Call /\ KnowsTask(call)
  BY <1>1 DEF Call, KnowsTask
<1>3. Held(PlanBegun(session, g, f))
  BY PlanBegunHeld DEF HostedInv
<1>4. Yields(c, PlanBegun(session, g, f), call)
  BY DEF PlanBegins
<1> HIDE DEF call
<1>5. QED
  BY <1>2, <1>3, <1>4, YieldsHeld

LEMMA PlanHeld ==
  ASSUME HostedInv, NEW c \in Callers,
         PlanWritten(c) \/ MilestonesWritten(c) \/ PlanSaved(c)
  PROVE  HostedInv'
<1>1. CASE PlanWritten(c)
  <2> DEFINE filled == TasksFilled(session, inFlight[c].flow)
  <2>1. Held(filled)
    BY TasksFilledHeld DEF HostedInv
  <2>2. \/ Yields(c, filled, Waiting("milestones"))
        \/ Yields(c, filled, Waiting("plan_saved"))
        \/ Ends(c, filled)
    BY <1>1 DEF PlanWritten
  <2> HIDE DEF filled
  <2>3. QED
    BY <2>1, <2>2, WaitsHeld, EndsHeld, AwaitNames
<1>2. CASE MilestonesWritten(c)
  BY <1>2, MilestonesFilledHeld, EndsHeld DEF MilestonesWritten, HostedInv
<1>3. CASE PlanSaved(c)
  <2>1. Held(WithFlow(session, "worker_validator"))
    BY RunStateHeld, Values DEF HostedInv, GoalSummaries
  <2>2. QED
    BY <1>3, <2>1, EndsHeld DEF PlanSaved
<1>4. QED
  BY <1>1, <1>2, <1>3

LEMMA TypeInputHeld ==
  ASSUME HostedInv, NEW c \in Callers, TypeInput(c)
  PROVE  HostedInv'
<1> PICK r \in Requests, text \in Goals :
       LET opened == IF r.slash THEN Reopened(session) ELSE Cleared(session)
           flow == SelectedFlow(r.mode, r.kind)
           call == [Waiting("goal") EXCEPT !.flow = flow, !.phase = NextPhase(r.mode, r.kind),
                                           !.goal = IF r.kind.empty THEN EmptyRequest ELSE text]
       IN  \/ Ends(c, WithFlow(opened, flow)) \/ Yields(c, WithFlow(opened, flow), call)
  BY DEF TypeInput
<1> DEFINE opened == IF r.slash THEN Reopened(session) ELSE Cleared(session)
           flow == SelectedFlow(r.mode, r.kind)
           phase == NextPhase(r.mode, r.kind)
           goal == IF r.kind.empty THEN EmptyRequest ELSE text
           call == [Waiting("goal") EXCEPT !.flow = flow, !.phase = phase, !.goal = goal]
<1>1. flow \in Flows /\ phase \in Phases /\ goal \in GoalSummaries
  BY Values DEF SelectedFlow, DefaultFlowForClass, NextPhase, DefaultPhaseForFlow, GoalSummaries
<1>2. Held(opened)
  BY ClearedHeld DEF HostedInv
<1> HIDE DEF opened, flow, phase, goal
<1>3. Held(WithFlow(opened, flow))
  BY <1>1, <1>2, RunStateHeld, Values
<1>4. Waiting("goal") \in Call /\ Waiting("goal").at = "goal"
  BY WaitingType, AwaitNames
<1>5. call \in Call /\ KnowsTask(call)
  BY <1>1, <1>4 DEF Call, KnowsTask
<1>6. Ends(c, WithFlow(opened, flow)) \/ Yields(c, WithFlow(opened, flow), call)
  BY DEF opened, flow, phase, goal
<1> HIDE DEF call
<1>7. QED
  BY <1>3, <1>5, <1>6, YieldsHeld, EndsHeld

LEMMA GoalWrittenHeld ==
  ASSUME HostedInv, NEW c \in Callers, GoalWritten(c)
  PROVE  HostedInv'
<1> DEFINE call == inFlight[c]
           goal == IF call.goal = EmptyRequest THEN session.state.goalSummary ELSE call.goal
           entered == WithGoal(InPhase(session, call.phase), goal)
           on1 == Started(WithActiveTask(entered, 1), 1)
<1>1. /\ Held(session) /\ call.phase \in Phases /\ call.flow \in Flows
      /\ call.goal \in GoalSummaries /\ goal \in GoalSummaries
  BY DEF HostedInv, Held, Session, RunState, Call
<1>2. Held(entered)
  BY <1>1, InPhaseHeld, RunStateHeld, Values
<1>3. Held(on1)
  BY <1>2, WithActiveTaskHeld, StartedHeld, Values
<1>4. \/ PlanBegins(c, call.goal, call.flow)
      \/ Ends(c, on1) \/ Ends(c, entered) \/ Ends(c, session)
  BY DEF GoalWritten
<1> HIDE DEF call, entered, on1
<1>5. QED
  BY <1>1, <1>2, <1>3, <1>4, PlanBeginsHeld, EndsHeld

-----------------------------------------------------------------------------
(* Executions and verifications. *)

LEMMA ExecuteHeld ==
  ASSUME HostedInv, NEW c \in Callers, NEW s, Held(s), Execute(c, s)
  PROVE  HostedInv'
<1> DEFINE chosen == TaskChosen(s)
           t == chosen.state.activeTaskId
           call == PrepareCall(chosen)
<1>1. Held(chosen) /\ t \in TaskIds
  BY TaskChosenHeld
<1>2. Waiting("prepare") \in Call /\ Waiting("prepare").at = "prepare"
  BY WaitingType, AwaitNames
<1>3. MustChangeFiles(chosen, t) \in BOOLEAN
  BY PlanShape DEF MustChangeFiles
<1>4. Yields(c, chosen, call)
  BY DEF Execute
<1> HIDE DEF chosen
<1>5. call \in Call /\ KnowsTask(call)
  BY <1>1, <1>2, <1>3 DEF Call, KnowsTask, PrepareCall
<1> HIDE DEF call
<1>6. QED
  BY <1>1, <1>4, <1>5, YieldsHeld

LEMMA WorkHeld ==
  ASSUME HostedInv, NEW c \in Callers, Prepared(c) \/ WorkEnds(c)
  PROVE  HostedInv'
<1> DEFINE call == inFlight[c]
<1>1. At(c, "prepare") \/ At(c, "work")
  BY DEF Prepared, WorkEnds
<1>2. Held(session) /\ call \in Call /\ call.task \in TaskIds
  BY <1>1 DEF HostedInv, KnowsTask, At
<1>3. CASE Prepared(c)
  <2>1. [call EXCEPT !.at = "work"] \in Call /\ KnowsTask([call EXCEPT !.at = "work"])
    BY <1>2, AwaitNames DEF Call, KnowsTask
  <2>2. Yields(c, WorkBegun(session, call.task), [call EXCEPT !.at = "work"])
    BY <1>3 DEF Prepared
  <2> HIDE DEF call
  <2>3. QED
    BY <1>2, <2>1, <2>2, WorkBegunHeld, YieldsHeld
<1>4. CASE WorkEnds(c)
  <2>1. PICK satisfied \in BOOLEAN : Ends(c, ExecutionEnded(session, call.task, satisfied))
    BY <1>4 DEF WorkEnds
  <2>2. QED
    BY <1>2, <2>1, ExecutionEndedHeld, EndsHeld
<1>5. QED
  BY <1>3, <1>4

LEMMA ReportCallType ==
  ASSUME NEW s, Held(s), NEW failed \in SUBSET {"manual", "command"}
  PROVE  ReportCall(s, failed) \in Call /\ KnowsTask(ReportCall(s, failed))
<1>1. Waiting("report") \in Call /\ Waiting("report").at = "report"
  BY WaitingType, AwaitNames
<1>2. VerificationStatus(s, failed) \in VerificationStatuses /\ RecoveryHint(s, failed) \in Hints
  BY Values DEF VerificationStatus, RecoveryHint
<1>3. QED
  BY <1>1, <1>2, Values DEF ReportCall, Call, KnowsTask

LEMMA ChecksCallType ==
  ASSUME NEW s, NEW t \in TaskIds \cup {NoTask}
  PROVE  ChecksCall(s, t) \in Call /\ KnowsTask(ChecksCall(s, t))
<1>1. Waiting("checks") \in Call /\ Waiting("checks").at = "checks"
  BY WaitingType, AwaitNames
<1>2. Checks(s, t) \in SUBSET {"manual", "command"}
  BY PlanShape DEF Checks, VerifyCommands
<1>3. /\ FailedChecks(s, t, TRUE) \in SUBSET {"manual", "command"}
      /\ Checks(s, t) \cap {"command"} \in SUBSET {"command"}
  BY <1>2 DEF FailedChecks
<1>4. QED
  BY <1>1, <1>3 DEF ChecksCall, Call, KnowsTask

LEMMA CheckHeld ==
  ASSUME HostedInv, NEW c \in Callers, NEW s, Held(s), NEW t \in TaskIds \cup {NoTask},
         Check(c, s, t)
  PROVE  HostedInv'
<1>1. CASE Yields(c, s, ReportCall(s, {}))
  BY <1>1, ReportCallType, YieldsHeld
<1>2. CASE Yields(c, s, ChecksCall(s, t))
  BY <1>2, ChecksCallType, YieldsHeld
<1>3. QED
  BY <1>1, <1>2 DEF Check

LEMMA VerifyHeld ==
  ASSUME HostedInv, NEW c \in Callers, NEW s, Held(s), Verify(c, s)
  PROVE  HostedInv'
<1> DEFINE opened == VerificationStarted(s)
           checked == InPhase(opened, "verifying")
           t == checked.state.activeTaskId
           call == [Waiting("validator") EXCEPT !.task = t]
<1>1. Held(opened) /\ Held(checked)
  BY VerificationStartedHeld
<1>2. t \in TaskIds \cup {NoTask}
  BY <1>1 DEF Held, Session, RunState
<1>3. \/ Ends(c, opened)
      \/ Yields(c, checked, call)
      \/ Check(c, checked, t)
  BY DEF Verify
<1>4. Waiting("validator") \in Call /\ Waiting("validator").at = "validator"
  BY WaitingType, AwaitNames
<1> HIDE DEF opened, checked, t
<1>5. call \in Call /\ KnowsTask(call)
  BY <1>2, <1>4 DEF Call, KnowsTask
<1> HIDE DEF call
<1>6. QED
  BY <1>1, <1>2, <1>3, <1>5, EndsHeld, YieldsHeld, CheckHeld

LEMMA VerificationHeld ==
  ASSUME HostedInv, NEW c \in Callers, ValidatorReturns(c) \/ ChecksEnd(c) \/ ReportWritten(c)
  PROVE  HostedInv'
<1> DEFINE call == inFlight[c]
<1>1. /\ Held(session) /\ call \in Call /\ call.task \in TaskIds \cup {NoTask}
      /\ call.failed \in SUBSET {"manual", "command"} /\ call.running \in SUBSET {"command"}
  BY DEF HostedInv, Call
<1>2. CASE ValidatorReturns(c)
  BY <1>1, <1>2, CheckHeld DEF ValidatorReturns
<1>3. CASE ChecksEnd(c)
  <2>1. PICK more \in SUBSET call.running :
          Yields(c, session, ReportCall(session, call.failed \cup more))
    BY <1>3 DEF ChecksEnd
  <2>2. call.failed \cup more \in SUBSET {"manual", "command"}
    BY <1>1
  <2> HIDE DEF call
  <2>3. QED
    BY <1>1, <2>1, <2>2, ReportCallType, YieldsHeld
<1>4. CASE ReportWritten(c)
  <2> DEFINE applied == VerdictApplied(session, call)
             phase == VerdictTarget(call)
             entered == Entered(applied, phase,
                                IF phase = "paused" THEN "implementing" ELSE "reviewing")
  <2>1. Held(applied) /\ Held(entered)
    BY <1>1, VerdictAppliedHeld, ReportWrittenHeld
  <2>2. Ends(c, entered) \/ Ends(c, applied)
    BY <1>4 DEF ReportWritten
  <2> HIDE DEF applied, entered
  <2>3. QED
    BY <2>1, <2>2, EndsHeld
<1>5. QED
  BY <1>2, <1>3, <1>4

-----------------------------------------------------------------------------
(* continueTaskLoop. *)

LEMMA StartTaskHeld ==
  ASSUME HostedInv, NEW c \in Callers, NEW s, Held(s), s.taskState.activeTaskId \in TaskIds,
         StartTask(c, s)
  PROVE  HostedInv'
<1> DEFINE t == s.taskState.activeTaskId
<1>1. \/ Ends(c, PausedOn(s, t))
      \/ Yields(c, Started(s, t), Waiting("verify"))
      \/ Execute(c, s)
  BY DEF StartTask
<1>2. Held(PausedOn(s, t)) /\ Held(Started(s, t))
  BY PickedHeld, StartedHeld
<1>3. QED
  BY <1>1, <1>2, EndsHeld, WaitsHeld, ExecuteHeld, AwaitNames

LEMMA LeaveTaskHeld ==
  ASSUME HostedInv, NEW c \in Callers, NEW s, Held(s), LeaveTask(c, s)
  PROVE  HostedInv'
<1> DEFINE t == s.taskState.activeTaskId
           next == NextTodoTask(s, t)
           pending == NextPendingTask(s, t)
<1>1. next \in TaskIds \cup {NoTask} /\ pending \in TaskIds \cup {NoTask}
  BY FirstOfType DEF NextTodoTask, NextPendingTask, Ready, After, OpenTasks, NoTask
<1>2. Held(IF CanAdvance(s) THEN Advanced(s) ELSE s)
  BY AdvancedHeld
<1>3. \/ next # NoTask /\ Ends(c, InPhase(WithActiveTask(s, next), "planning"))
      \/ pending # NoTask /\ Ends(c, PausedOn(s, pending))
      \/ Yields(c, IF CanAdvance(s) THEN Advanced(s) ELSE s, Waiting("advanced"))
  BY DEF LeaveTask
<1> HIDE DEF next, pending
<1>4. QED
  BY <1>1, <1>2, <1>3, PickedHeld, EndsHeld, WaitsHeld, AwaitNames

LEMMA RunTaskHeld ==
  ASSUME HostedInv, NEW c \in Callers, NEW s, Held(s), s.taskState.activeTaskId \in TaskIds,
         RunTask(c, s)
  PROVE  HostedInv'
<1> DEFINE t == s.taskState.activeTaskId
<1>1. \/ StartTask(c, s) \/ Verify(c, s) \/ LeaveTask(c, s)
      \/ Ends(c, Reviewed(s)) \/ Ends(c, s)
      \/ Yields(c, AutoRecovered(s, t), Waiting("continue"))
  BY DEF RunTask
<1>2. Held(Reviewed(s)) /\ Held(AutoRecovered(s, t))
  BY ReviewedHeld, AutoRecoveredHeld
<1>3. QED
  BY <1>1, <1>2, StartTaskHeld, VerifyHeld, LeaveTaskHeld, EndsHeld, WaitsHeld, AwaitNames

LEMMA PickTaskHeld ==
  ASSUME HostedInv, NEW c \in Callers, NEW s, Held(s), PickTask(c, s)
  PROVE  HostedInv'
<1> DEFINE first == FirstReadyTask(s)
           t == s.taskState.activeTaskId
<1>1. first \in TaskIds \cup {NoTask} /\ t \in TaskIds \cup {NoTask}
  BY FirstOfType DEF FirstReadyTask, Ready, OpenTasks, NoTask, Held, Session, TaskState
<1>2. \/ Ends(c, s)
      \/ first # NoTask
         /\ Yields(c, InPhase(WithActiveTask(s, first), "planning"), Waiting("continue"))
      \/ t # NoTask /\ RunTask(c, s)
  BY DEF PickTask
<1> HIDE DEF first
<1>3. QED
  BY <1>1, <1>2, PickedHeld, RunTaskHeld, EndsHeld, WaitsHeld, AwaitNames

LEMMA ContinueHeld ==
  ASSUME HostedInv, NEW c \in Callers, ContinueTaskLoop(c)
  PROVE  HostedInv'
<1> DEFINE synced == PointersFromLedger(session)
<1>1. Held(session) /\ Held(synced)
  BY PointersFromLedgerHeld DEF HostedInv
<1>2. \/ Ends(c, session)
      \/ Yields(c, Resumed(synced), Waiting("continue"))
      \/ PickTask(c, synced)
  BY DEF ContinueTaskLoop
<1> HIDE DEF synced
<1>3. QED
  BY <1>1, <1>2, ResumedHeld, PickTaskHeld, EndsHeld, WaitsHeld, AwaitNames

-----------------------------------------------------------------------------
(* Every step. *)

LEMMA TypeHeld ==
  ASSUME HostedInv, NEW c \in Callers, Type(c)
  PROVE  HostedInv'
<1>1. Held(session)
  BY DEF HostedInv
<1>2. CASE TypePlan(c)
  BY <1>2, PlanBeginsHeld, Values DEF TypePlan, GoalSummaries
<1>3. CASE TypeInput(c)
  BY <1>3, TypeInputHeld
<1>4. CASE TypeVerify(c)
  BY <1>1, <1>4, VerifyHeld DEF TypeVerify
<1>5. CASE TypeContinue(c)
  BY <1>5, ContinueHeld DEF TypeContinue
<1>6. CASE TypeReview(c)
  BY <1>1, <1>6, ReviewedHeld, EndsHeld DEF TypeReview
<1>7. CASE TypeResume(c)
  BY <1>1, <1>7, ResumedHeld, EndsHeld DEF TypeResume
<1>8. CASE TypeReset(c)
  BY <1>1, <1>8, ResetHeld, EndsHeld DEF TypeReset
<1>9. CASE TypeClearHandoff(c)
  <2>1. Held(WithHandoff(session, NoHandoff))
    BY <1>1, WithHandoffHeld DEF Handoffs
  <2>2. QED
    BY <1>1, <1>9, <2>1, EndsHeld DEF TypeClearHandoff
<1>10. CASE TypeHandoff(c)
  <2> DEFINE call == [Waiting("handoff") EXCEPT !.goal = session.state.goalSummary]
  <2>1. Waiting("handoff") \in Call /\ Waiting("handoff").at = "handoff"
    BY WaitingType, AwaitNames
  <2>2. call \in Call /\ KnowsTask(call)
    BY <1>1, <2>1 DEF Held, Session, RunState, Call, KnowsTask
  <2>3. Yields(c, session, call)
    BY <1>10 DEF TypeHandoff
  <2> HIDE DEF call
  <2>4. QED
    BY <1>1, <2>2, <2>3, YieldsHeld
<1>11. QED
  BY <1>2, <1>3, <1>4, <1>5, <1>6, <1>7, <1>8, <1>9, <1>10 DEF Type

LEMMA ProceedsHeld ==
  ASSUME HostedInv, NEW c \in Callers, Proceeds(c)
  PROVE  HostedInv'
<1>1. Held(session) /\ inFlight[c].goal \in GoalSummaries
  BY DEF HostedInv, Call
<1>2. CASE HandoffWritten(c)
  <2>1. [goal |-> inFlight[c].goal] \in Handoffs
    BY <1>1 DEF Handoffs
  <2>2. QED
    BY <1>1, <1>2, <2>1, WithHandoffHeld, EndsHeld DEF HandoffWritten
<1>3. CASE Continued(c) \/ MilestoneAdvanced(c)
  BY <1>1, <1>3, ContinueHeld, EndsHeld DEF Continued, MilestoneAdvanced
<1>4. CASE VerifyCalled(c)
  BY <1>1, <1>4, VerifyHeld DEF VerifyCalled
<1>5. QED
  BY <1>2, <1>3, <1>4, PlanHeld, GoalWrittenHeld, WorkHeld, VerificationHeld DEF Proceeds

LEMMA HostedInvHolds == HostedSpec => []HostedInv
<1>1. HostedInit => HostedInv
  BY InitialHeld, NoCallType DEF HostedInit, HostedInv, KnowsTask
<1>2. HostedInv /\ [HostedNext]_hostedVars => HostedInv'
  <2>1. ASSUME HostedInv, NEW c \in Callers, Rejects(c) PROVE HostedInv'
    BY <2>1, EndsHeld DEF Rejects, HostedInv
  <2>2. ASSUME HostedInv, UNCHANGED hostedVars PROVE HostedInv'
    BY <2>2 DEF hostedVars, HostedInv, KnowsTask, Held, Copied, Frontier, Split
  <2>3. QED
    BY <2>1, <2>2, TypeHeld, ProceedsHeld DEF HostedNext
<1>3. QED
  BY <1>1, <1>2, PTL DEF HostedSpec

-----------------------------------------------------------------------------
(* What it gives. *)

\* Whatever calls interleave at their awaits, session and calls keep the shape the code
\* relies on: in particular an execution never comes back to a task it cannot name.
THEOREM HostedTypeCorrect == HostedSpec => []HostedTypeOK
<1>1. HostedInv => HostedTypeOK
  BY DEF HostedInv, HostedTypeOK, Held, KnowsTask
<1>2. QED
  BY <1>1, HostedInvHolds, PTL

\* The ledger's milestones before the active one are done and those after it untouched,
\* whatever review, advance, plan and reset of several callers interleave.
THEOREM FrontierHeldByCallers == HostedSpec => []LedgerFrontier
<1>1. HostedInv => LedgerFrontier
  BY DEF HostedInv, Held, Frontier, Split, LedgerFrontier, Milestones
<1>2. QED
  BY <1>1, HostedInvHolds, PTL

\* Both halves of the session name the same task, report and handoff whenever any call
\* is at an await: every piece of code between two awaits sets both copies.
THEOREM CopiesHeldByCallers == HostedSpec => []CopiesAgree
<1>1. HostedInv => CopiesAgree
  BY DEF HostedInv, Held, Copied, CopiesAgree
<1>2. QED
  BY <1>1, HostedInvHolds, PTL

\* resume and continue never ask a paused run for a refused transition, whichever calls
\* paused it and stored where to go on.
THEOREM ResumeHeldByCallers == HostedSpec => []ResumeIsAccepted
<1>1. HostedInv => ResumeIsAccepted
  <2>1. Held(session) => ResumeTarget(session) \in {"planning", "implementing", "reviewing"}
    BY ResumeTargetType DEF ResumePhases
  <2>2. \A p \in {"planning", "implementing", "reviewing"} : CanTransition("paused", p)
    BY DEF CanTransition, AllowedTransitions, Phases
  <2>3. QED
    BY <2>1, <2>2 DEF HostedInv, ResumeIsAccepted
<1>2. QED
  BY <1>1, HostedInvHolds, PTL

-----------------------------------------------------------------------------
(* The pieces put together again. *)

LEMMA ActiveTaskHalves ==
  ASSUME NEW s \in Session, NEW t
  PROVE  /\ WithActiveTask(s, t).state = [s.state EXCEPT !.activeTaskId = t]
         /\ WithActiveTask(s, t).taskState = [s.taskState EXCEPT !.activeTaskId = t]
  BY DEF Session, WithActiveTask

\* The run state of a plan that has begun.
BegunRun(c, flow, g) ==
  [c.state EXCEPT !.phase = "planning", !.currentFlow = flow, !.goalSummary = g]

LEMMA PlanBegunHalves ==
  ASSUME NEW s, Held(s), NEW g, NEW flow \in {"disciplined_single", "milestone"}
  PROVE  /\ PlanBegun(s, g, flow).state = BegunRun(Cleared(s), flow, g)
         /\ PlanBegun(s, g, flow).taskState = Cleared(s).taskState
<1>1. Cleared(s) \in Session
  BY ClearedHeld DEF Held
<1> DEFINE c == Cleared(s)
<1>2. PlanBegun(s, g, flow) =
        [c EXCEPT !.state.phase = "planning", !.state.currentFlow = flow, !.state.goalSummary = g]
  BY DEF PlanBegun
<1> HIDE DEF c
<1>3. QED
  BY <1>1, <1>2 DEF c, BegunRun, Session, RunState

\* Reopening leaves a ledger without milestones.
LEMMA ClearedMilestones ==
  ASSUME NEW s
  PROVE  /\ Cleared(s).taskState.activeMilestoneId = NoMilestone
         /\ Cleared(s).taskState.milestones = [m \in MilestoneIds |-> "absent"]
  BY DEF Cleared, InitialTaskState

\* What plan leaves behind once its tasks are there, for either kind of plan.
PlannedRun(c, flow, g) ==
  [c.state EXCEPT !.phase = "planning", !.currentFlow = flow, !.goalSummary = g,
                  !.activePlanPath = TRUE, !.activeTaskId = 1]

PlannedLedger(c) ==
  [c.taskState EXCEPT
     !.tasks = [t \in TaskIds |-> "todo"],
     !.taskMilestones = [t \in TaskIds |-> OrElse(PlanMilestone[t], c.taskState.taskMilestones[t])],
     !.planned = TRUE,
     !.activeTaskId = 1]

LEMMA TasksFilledHalves ==
  ASSUME NEW s, Held(s), NEW g \in GoalSummaries,
         NEW flow \in {"disciplined_single", "milestone"}
  PROVE  LET n == TasksFilled(PlanBegun(s, g, flow), flow)
             run == PlannedRun(Cleared(s), flow, g)
         IN  /\ n.state = IF flow = "milestone" THEN run
                          ELSE [run EXCEPT !.activeMilestoneId = NoMilestone]
             /\ n.taskState = PlannedLedger(Cleared(s))
<1> DEFINE begun == PlanBegun(s, g, flow)
           c == Cleared(s)
           todo == [t \in TaskIds |-> "todo"]
           tags == [t \in TaskIds |-> OrElse(PlanMilestone[t], c.taskState.taskMilestones[t])]
           filled == [state |-> [begun.state EXCEPT !.activePlanPath = TRUE],
                      taskState |-> [begun.taskState EXCEPT
                        !.tasks = todo, !.taskMilestones = tags, !.planned = TRUE]]
           active == WithActiveTask(filled, 1)
           short == [active EXCEPT !.state.activeMilestoneId = NoMilestone]
<1>1. c \in Session /\ begun \in Session
  BY ClearedHeld, PlanBegunHeld, Values DEF Held
<1>2. begun.state = BegunRun(c, flow, g) /\ begun.taskState = c.taskState
  BY PlanBegunHalves
<1>3. TasksFilled(begun, flow) = IF flow = "milestone" THEN active ELSE short
  BY <1>2 DEF TasksFilled
<1>4. todo \in [TaskIds -> TaskStatuses] /\ tags \in [TaskIds -> MilestoneIds \cup {NoMilestone}]
  BY <1>1, Values, PlanShape DEF OrElse, Session, TaskState
<1>5. /\ filled.state = [begun.state EXCEPT !.activePlanPath = TRUE]
      /\ filled.taskState = [begun.taskState EXCEPT !.tasks = todo, !.taskMilestones = tags,
                                                    !.planned = TRUE]
  OBVIOUS
<1>6. PlannedLedger(c) = [c.taskState EXCEPT !.tasks = todo, !.taskMilestones = tags,
                                             !.planned = TRUE, !.activeTaskId = 1]
  BY DEF PlannedLedger
<1> HIDE DEF c, begun, todo, tags
<1>7. filled \in Session
  BY <1>1, <1>4 DEF Session, RunState, TaskState
<1> HIDE DEF filled
<1>8. /\ active \in Session
      /\ active.state = [filled.state EXCEPT !.activeTaskId = 1]
      /\ active.taskState = [filled.taskState EXCEPT !.activeTaskId = 1]
  <2>1. active \in Session
    BY <1>7, Values DEF WithActiveTask, Session, RunState, TaskState
  <2>2. QED
    BY <1>7, <2>1, ActiveTaskHalves
<1> HIDE DEF active
<1>9. /\ short.state = [active.state EXCEPT !.activeMilestoneId = NoMilestone]
      /\ short.taskState = active.taskState
  BY <1>8 DEF Session
<1>10. active.state = PlannedRun(c, flow, g)
  <2>1. c.state \in RunState
    BY <1>1 DEF Session
  <2>2. active.state = [[BegunRun(c, flow, g) EXCEPT !.activePlanPath = TRUE]
                          EXCEPT !.activeTaskId = 1]
    BY <1>2, <1>5, <1>8
  <2>3. QED
    BY <2>1, <2>2 DEF BegunRun, PlannedRun, RunState
<1>11. active.taskState = PlannedLedger(c)
  <2>1. c.taskState \in TaskState
    BY <1>1 DEF Session
  <2>2. active.taskState = [[c.taskState EXCEPT !.tasks = todo, !.taskMilestones = tags,
                                                !.planned = TRUE] EXCEPT !.activeTaskId = 1]
    BY <1>2, <1>5, <1>8
  <2>3. QED
    BY <1>6, <2>1, <2>2 DEF TaskState
<1> HIDE DEF short
<1>12. QED
  BY <1>3, <1>9, <1>10, <1>11 DEF c, begun

LEMMA ShortPlan ==
  ASSUME NEW s, Held(s), NEW g \in GoalSummaries
  PROVE  TasksFilled(PlanBegun(s, g, "disciplined_single"), "disciplined_single")
           = Planned(s, g, FALSE)
<1> DEFINE n == TasksFilled(PlanBegun(s, g, "disciplined_single"), "disciplined_single")
           c == Cleared(s)
           r == PlannedRun(c, "disciplined_single", g)
           l == PlannedLedger(c)
           todo == [t \in TaskIds |-> "todo"]
           tags == [t \in TaskIds |-> OrElse(PlanMilestone[t], c.taskState.taskMilestones[t])]
           absent == [m \in MilestoneIds |-> "absent"]
           run == [c.state EXCEPT
             !.phase = "planning", !.currentFlow = "disciplined_single", !.goalSummary = g,
             !.activePlanPath = TRUE, !.activeTaskId = 1, !.activeMilestoneId = NoMilestone]
           ledger == [c.taskState EXCEPT
             !.tasks = todo, !.taskMilestones = tags, !.planned = TRUE, !.activeTaskId = 1,
             !.activeMilestoneId = NoMilestone, !.milestones = absent]
<1>1. c \in Session /\ n \in Session
  BY ClearedHeld, PlanBegunHeld, TasksFilledHeld, Values DEF Held
<1>2. n.state = [r EXCEPT !.activeMilestoneId = NoMilestone] /\ n.taskState = l
  BY TasksFilledHalves
<1>3. Planned(s, g, FALSE) = [state |-> run, taskState |-> ledger]
  BY DEF Planned
<1>4. c.taskState.activeMilestoneId = NoMilestone /\ c.taskState.milestones = absent
  BY ClearedMilestones
<1>5. l = [c.taskState EXCEPT !.tasks = todo, !.taskMilestones = tags, !.planned = TRUE,
                              !.activeTaskId = 1]
  BY DEF PlannedLedger
<1> HIDE DEF n, c, l, todo, tags, absent
<1>6. [r EXCEPT !.activeMilestoneId = NoMilestone] = run
  BY <1>1 DEF PlannedRun, Session, RunState
<1>7. l = ledger
  BY <1>1, <1>4, <1>5 DEF Session, TaskState
<1>8. n = [state |-> n.state, taskState |-> n.taskState]
  BY <1>1 DEF Session
<1>9. QED
  BY <1>2, <1>3, <1>6, <1>7, <1>8 DEF n

LEMMA LongPlan ==
  ASSUME NEW s, Held(s), NEW g \in GoalSummaries
  PROVE  MilestonesFilled(TasksFilled(PlanBegun(s, g, "milestone"), "milestone"))
           = Planned(s, g, TRUE)
<1> DEFINE n == TasksFilled(PlanBegun(s, g, "milestone"), "milestone")
           c == Cleared(s)
           w == WithMilestone(n, 1)
           full == MilestonesFilled(n)
           r == PlannedRun(c, "milestone", g)
           l == PlannedLedger(c)
           todo == [t \in TaskIds |-> "todo"]
           tags == [t \in TaskIds |-> OrElse(PlanMilestone[t], c.taskState.taskMilestones[t])]
           first == [m \in MilestoneIds |-> IF m = 1 THEN "in_progress" ELSE "todo"]
           run == [c.state EXCEPT
             !.phase = "planning", !.currentFlow = "milestone", !.goalSummary = g,
             !.activePlanPath = TRUE, !.activeTaskId = 1, !.activeMilestoneId = 1]
           ledger == [c.taskState EXCEPT
             !.tasks = todo, !.taskMilestones = tags, !.planned = TRUE, !.activeTaskId = 1,
             !.activeMilestoneId = 1, !.milestones = first]
<1>1. c \in Session /\ Held(n) /\ n \in Session
  BY ClearedHeld, PlanBegunHeld, TasksFilledHeld, Values DEF Held
<1>2. n.state = r /\ n.taskState = l
  BY TasksFilledHalves
<1>3. Planned(s, g, TRUE) = [state |-> run, taskState |-> ledger]
  BY DEF Planned
<1>4. full = [w EXCEPT !.taskState.milestones = first] /\ full \in Session
  BY <1>1, MilestonesFilledHeld DEF MilestonesFilled, Held
<1>5. l = [c.taskState EXCEPT !.tasks = todo, !.taskMilestones = tags, !.planned = TRUE,
                              !.activeTaskId = 1]
  BY DEF PlannedLedger
<1> HIDE DEF n, c, l, todo, tags, first, full
<1>6. /\ w \in Session
      /\ w.state = [n.state EXCEPT !.activeMilestoneId = 1]
      /\ w.taskState = [n.taskState EXCEPT !.activeMilestoneId = 1]
  BY <1>1, Values DEF WithMilestone, Session, RunState, TaskState
<1> HIDE DEF w
<1>7. full.state = w.state /\ full.taskState = [w.taskState EXCEPT !.milestones = first]
  BY <1>4, <1>6 DEF Session, TaskState
<1>8. full.state = run
  BY <1>1, <1>2, <1>6, <1>7 DEF PlannedRun, Session, RunState
<1>9. full.taskState = ledger
  BY <1>1, <1>2, <1>5, <1>6, <1>7 DEF Session, TaskState
<1>10. full = [state |-> full.state, taskState |-> full.taskState]
  BY <1>4 DEF Session
<1>11. QED
  BY <1>3, <1>8, <1>9, <1>10 DEF full, n

\* A blocker may be written to the run before or after the task's entry.
LEMMA MarkedInOrder ==
  ASSUME NEW s, Held(s), NEW t \in TaskIds, NEW v \in TaskStatuses, NEW b \in Blockers,
         NEW h \in Hints
  PROVE  Marked(s, t, v, b, h) = WithBlocker(WithHint(WithTaskBlocker(WithStatus(s, t, v), t, b), t, h), b)
<1>1. \A n \in Session : WithBlocker(WithStatus(n, t, v), b) = WithStatus(WithBlocker(n, b), t, v)
  BY DEF WithBlocker, WithStatus, Session, RunState, TaskState
<1>2. \A n \in Session :
        WithBlocker(WithTaskBlocker(n, t, b), b) = WithTaskBlocker(WithBlocker(n, b), t, b)
  BY DEF WithBlocker, WithTaskBlocker, Session, RunState, TaskState
<1>3. \A n \in Session : WithBlocker(WithHint(n, t, h), b) = WithHint(WithBlocker(n, b), t, h)
  BY DEF WithBlocker, WithHint, Session, RunState, TaskState
<1>4. /\ s \in Session /\ WithStatus(s, t, v) \in Session
      /\ WithTaskBlocker(WithStatus(s, t, v), t, b) \in Session
  BY TaskEntryHeld DEF Held
<1>5. QED
  BY <1>1, <1>2, <1>3, <1>4 DEF Marked

LEMMA VerdictInOneStep ==
  ASSUME NEW s, Held(s), NEW failed \in SUBSET {"manual", "command"}
  PROVE  VerdictApplied(s, ReportCall(s, failed)) = VerdictRecorded(s, failed)
<1> DEFINE call == ReportCall(s, failed)
           t == s.taskState.activeTaskId
           text == FailureText(failed)
           status == VerificationStatus(s, failed)
           hint == RecoveryHint(s, failed)
           reported == WithReport(s, status, TRUE)
<1>1. Waiting("report") \in Call
  BY WaitingType, AwaitNames
<1>2. /\ call.failed = failed /\ call.status = status
      /\ call.hint = IF failed = {} THEN "none" ELSE hint
  BY <1>1 DEF ReportCall, Call
<1>3. /\ status \in VerificationStatuses /\ hint \in Hints /\ text \in Blockers
      /\ failed # {} => status # "pass"
  BY Values DEF VerificationStatus, RecoveryHint, FailureText
<1>4. t # NoTask => t \in TaskIds
  BY DEF Held, Session, TaskState
<1>5. Held(reported)
  BY <1>3, WithReportHeld
<1> HIDE DEF call, t, status, hint, text, reported
<1>6. ASSUME t # NoTask
      PROVE  Marked(reported, t, "blocked", text, hint) =
               WithBlocker(WithHint(WithTaskBlocker(WithStatus(reported, t, "blocked"), t, text),
                                    t, hint), text)
  BY <1>3, <1>4, <1>5, <1>6, MarkedInOrder, Values
<1>7. VerdictApplied(s, call) =
        LET judged == IF t = NoTask THEN reported
                      ELSE WithStatus(reported, t, IF status = "pass" THEN "validated" ELSE "blocked")
            explained == IF t = NoTask THEN judged
                         ELSE WithHint(WithTaskBlocker(judged, t, text), t, call.hint)
        IN  CASE failed # {} -> WithBlocker(explained, text)
              [] failed = {} /\ t # NoTask /\ status = "pass" -> WithHint(judged, t, "none")
              [] OTHER -> judged
  BY <1>2 DEF VerdictApplied, t, text, reported
<1>8. VerdictRecorded(s, failed) =
        CASE t = NoTask -> IF failed # {} THEN WithBlocker(reported, text) ELSE reported
          [] t # NoTask /\ failed # {} -> Marked(reported, t, "blocked", text, hint)
          [] t # NoTask /\ failed = {} /\ status = "pass" ->
               WithHint(WithStatus(reported, t, "validated"), t, "none")
          [] OTHER -> WithStatus(reported, t, "blocked")
  BY DEF VerdictRecorded, t, text, reported, status, hint
<1>9. QED
  BY <1>2, <1>3, <1>6, <1>7, <1>8 DEF call

\* The pieces of plan, executeCurrentTask and verify, run without another call between
\* them, do to every session the bridge can be in what HarnessSession lets the method do
\* in one step: what the other modules show of one caller is about the same code.
THEOREM UninterruptedIsAtomic ==
  ASSUME NEW s, Held(s), NEW g \in GoalSummaries, NEW failed \in SUBSET {"manual", "command"}
  PROVE  /\ MilestonesFilled(TasksFilled(PlanBegun(s, g, "milestone"), "milestone"))
              = Planned(s, g, TRUE)
         /\ TasksFilled(PlanBegun(s, g, "disciplined_single"), "disciplined_single")
              = Planned(s, g, FALSE)
         /\ WorkBegun(TaskChosen(s), TaskChosen(s).state.activeTaskId) = ExecutionStarted(s)
         /\ VerdictApplied(s, ReportCall(s, failed)) = VerdictRecorded(s, failed)
<1>1. WorkBegun(TaskChosen(s), TaskChosen(s).state.activeTaskId) = ExecutionStarted(s)
  BY DEF WorkBegun, TaskChosen, ExecutionStarted
<1>2. QED
  BY <1>1, LongPlan, ShortPlan, VerdictInOneStep
=============================================================================
