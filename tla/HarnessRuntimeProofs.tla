------------------------ MODULE HarnessRuntimeProofs ------------------------
(***************************************************************************)
(* What TLAPS proves of HarnessRuntime for every plan shape, every set of  *)
(* commands and every loop budget: sessions keep their type, the two files *)
(* agree on the five pointers both keep, a paused run can be resumed, a    *)
(* blocked task says why, and a restart is transparent.                    *)
(*                                                                         *)
(* The argument has three layers: each shared assignment keeps a session   *)
(* fit, hence each method of the runtime does, hence each command does.    *)
(* A session is fit for a set R of phases that a paused run may resume into *)
(* (Resumptions): the smaller one is what holds of one caller whose process *)
(* lives between commands, where a fit session is called sound; the larger *)
(* one is what is left when the process may be killed.                     *)
(***************************************************************************)
EXTENDS HarnessRuntime, TLAPS

\* The phases a run does its work in, and those the runtime stores to resume into.
WorkPhases == {"planning", "implementing"}
ResumePhases == WorkPhases \cup {"none", "reviewing"}

\* What a paused run resumes into: a phase of work where every command leaves the
\* session whole, any stored phase where a kill can come between two of its writes.
Resumptions == {WorkPhases, ResumePhases}

\* A run that can go on: it is not cancelled, and when paused it resumes into R.
Going(R, s) ==
  /\ s.state.phase # "cancelled"
  /\ s.taskState.resumePhase \in ResumePhases
  /\ s.state.phase = "paused" => s.taskState.resumePhase \in R

\* A report that exists has a verdict.
Reported(s) == s.state.lastVerificationPath => s.state.lastVerificationStatus # "none"

\* A session of the right type whose two halves agree, whose run can go on, whose blocked
\* tasks are explained and whose report has a verdict: what every method may rely on
\* and must re-establish.
Fit(R, s) == s \in Session /\ Agree(s) /\ Going(R, s) /\ Explained(s) /\ Reported(s)

\* The same, with what the runs check of a paused run.
Live(s) ==
  Resumable(s) /\ s.state.phase # "cancelled" /\ s.taskState.resumePhase \in ResumePhases

Sound(s) == s \in Session /\ Agree(s) /\ Live(s) /\ Explained(s) /\ Reported(s)

\* The active task of the ledger, and its status.
Active(s) == s.taskState.activeTaskId
ActiveStatus(s) == StatusOf(s, Active(s))

InWork == {"in_progress", "validated", "blocked"}

\* Whatever is started, validated or blocked is the active task.
OneAtWork(s) == \A t \in TaskIds : s.taskState.tasks[t] \in InWork => t = Active(s)

-----------------------------------------------------------------------------
(* The values the methods assign have the types of their fields. *)

LEMMA Values ==
  /\ {"idle", "clarifying", "planning", "implementing", "verifying", "reviewing",
      "paused", "completed"} \subseteq Phases
  /\ {"todo", "in_progress", "validated", "done", "blocked"} \subseteq TaskStatuses
  /\ {"todo", "in_progress", "done"} \subseteq MilestoneStatuses
  /\ {"none", "pass", "fail", "blocked"} \subseteq VerificationStatuses
  /\ {"none", "user", "manual_output", "checks_failed", "no_changes",
      "milestone_wait"} \subseteq Blockers
  /\ {"none", "manual_output_required", "implementation_no_changes",
      "implementation_fix_required"} \subseteq Hints
  /\ {"auto", "direct", "disciplined_single", "worker_validator", "milestone"} \subseteq Flows
  /\ 1 \in TaskIds
  /\ 1 \in MilestoneIds
  BY PlanShape DEF Phases, TaskStatuses, MilestoneStatuses, VerificationStatuses,
     Blockers, Hints, Flows, TaskIds, MilestoneIds

LEMMA Resumption ==
  /\ \A R \in Resumptions : {"planning", "implementing"} \subseteq R /\ R \subseteq ResumePhases
  /\ ResumePhases = {"none", "planning", "implementing", "reviewing"}
  /\ ResumePhases \subseteq Phases \cup {"none"}
  /\ WorkPhases \in Resumptions /\ ResumePhases \in Resumptions
  BY DEF Resumptions, ResumePhases, WorkPhases, Phases

LEMMA SoundIsFit == \A s : Sound(s) <=> Fit(WorkPhases, s)
  BY DEF Sound, Fit, Live, Resumable, Going, WorkPhases

-----------------------------------------------------------------------------
(* The shared assignments keep a session fit, whatever a pause resumes into. *)

LEMMA InPhaseFit ==
  \A R \in Resumptions, s \in Session, p \in Phases \ {"paused", "cancelled"} :
    Fit(R, s) => Fit(R, InPhase(s, p))
  BY DEF Fit, Agree, Going, Explained, Reported, InPhase, Session, RunState

LEMMA EnteredFit ==
  \A R \in Resumptions, s \in Session, p \in Phases \ {"cancelled"}, r \in ResumePhases :
    Fit(R, s) /\ (p = "paused" => r \in R) => Fit(R, Entered(s, p, r))
<1> SUFFICES ASSUME NEW R \in Resumptions, NEW s \in Session, NEW p \in Phases \ {"cancelled"},
                    NEW r \in ResumePhases, Fit(R, s), p = "paused" => r \in R
             PROVE  Fit(R, Entered(s, p, r))
  OBVIOUS
<1>1. Entered(s, p, r) \in Session
  BY Resumption DEF Entered, Session, RunState, TaskState
<1>2. Agree(Entered(s, p, r))
  BY DEF Entered, Fit, Agree, Session, RunState, TaskState
<1>3. Going(R, Entered(s, p, r))
  BY DEF Entered, Fit, Going, Session, RunState, TaskState
<1>4. Explained(Entered(s, p, r)) /\ Reported(Entered(s, p, r))
  BY DEF Entered, Fit, Explained, Reported, Session, RunState, TaskState
<1>5. QED
  BY <1>1, <1>2, <1>3, <1>4 DEF Fit

LEMMA ResumingIntoFit ==
  \A R \in Resumptions, s \in Session, p \in {"planning", "implementing"} :
    Fit(R, s) => Fit(R, ResumingInto(s, p))
  BY Values, Resumption DEF Fit, Agree, Going, Explained, Reported, ResumingInto, Session, TaskState

LEMMA WithFlowFit ==
  \A R \in Resumptions, s \in Session, f \in Flows : Fit(R, s) => Fit(R, WithFlow(s, f))
  BY DEF Fit, Agree, Going, Explained, Reported, WithFlow, Session, RunState

LEMMA WithGoalFit ==
  \A R \in Resumptions, s \in Session, g \in GoalSummaries : Fit(R, s) => Fit(R, WithGoal(s, g))
  BY DEF Fit, Agree, Going, Explained, Reported, WithGoal, Session, RunState

LEMMA WithBlockerFit ==
  \A R \in Resumptions, s \in Session, b \in Blockers : Fit(R, s) => Fit(R, WithBlocker(s, b))
  BY DEF Fit, Agree, Going, Explained, Reported, WithBlocker, Session, RunState

LEMMA WithReportFit ==
  \A R \in Resumptions, s \in Session, v \in VerificationStatuses, p \in BOOLEAN :
    Fit(R, s) /\ (p => v # "none") => Fit(R, WithReport(s, v, p))
<1> SUFFICES ASSUME NEW R \in Resumptions,
                    NEW s \in Session, NEW v \in VerificationStatuses, NEW p \in BOOLEAN,
                    Fit(R, s), p => v # "none"
             PROVE  Fit(R, WithReport(s, v, p))
  OBVIOUS
<1>1. WithReport(s, v, p) \in Session
  BY DEF WithReport, Session, RunState, TaskState
<1>2. Agree(WithReport(s, v, p))
  BY DEF WithReport, Fit, Agree, Session, RunState, TaskState
<1>3. Going(R, WithReport(s, v, p))
  BY DEF WithReport, Fit, Going, Session, RunState, TaskState
<1>4. Explained(WithReport(s, v, p)) /\ Reported(WithReport(s, v, p))
  BY DEF WithReport, Fit, Explained, Reported, Session, RunState, TaskState
<1>5. QED
  BY <1>1, <1>2, <1>3, <1>4 DEF Fit

LEMMA WithActiveTaskFit ==
  \A R \in Resumptions, s \in Session, t \in TaskIds \cup {NoTask} :
    Fit(R, s) => Fit(R, WithActiveTask(s, t))
<1> SUFFICES ASSUME NEW R \in Resumptions, NEW s \in Session, NEW t \in TaskIds \cup {NoTask},
                    Fit(R, s)
             PROVE  Fit(R, WithActiveTask(s, t))
  OBVIOUS
<1>1. WithActiveTask(s, t) \in Session
  BY DEF WithActiveTask, Session, RunState, TaskState
<1>2. Agree(WithActiveTask(s, t))
  BY DEF WithActiveTask, Fit, Agree, Session, RunState, TaskState
<1>3. Going(R, WithActiveTask(s, t))
  BY DEF WithActiveTask, Fit, Going, Session, RunState, TaskState
<1>4. Explained(WithActiveTask(s, t)) /\ Reported(WithActiveTask(s, t))
  BY DEF WithActiveTask, Fit, Explained, Reported, Session, RunState, TaskState
<1>5. QED
  BY <1>1, <1>2, <1>3, <1>4 DEF Fit

LEMMA WithMilestoneFit ==
  \A R \in Resumptions, s \in Session, m \in MilestoneIds \cup {NoMilestone} :
    Fit(R, s) => Fit(R, WithMilestone(s, m))
<1> SUFFICES ASSUME NEW R \in Resumptions,
                    NEW s \in Session, NEW m \in MilestoneIds \cup {NoMilestone},
                    Fit(R, s)
             PROVE  Fit(R, WithMilestone(s, m))
  OBVIOUS
<1>1. WithMilestone(s, m) \in Session
  BY DEF WithMilestone, Session, RunState, TaskState
<1>2. Agree(WithMilestone(s, m))
  BY DEF WithMilestone, Fit, Agree, Session, RunState, TaskState
<1>3. Going(R, WithMilestone(s, m))
  BY DEF WithMilestone, Fit, Going, Session, RunState, TaskState
<1>4. Explained(WithMilestone(s, m)) /\ Reported(WithMilestone(s, m))
  BY DEF WithMilestone, Fit, Explained, Reported, Session, RunState, TaskState
<1>5. QED
  BY <1>1, <1>2, <1>3, <1>4 DEF Fit

LEMMA WithHandoffFit ==
  \A R \in Resumptions, s \in Session, h \in Handoffs : Fit(R, s) => Fit(R, WithHandoff(s, h))
<1> SUFFICES ASSUME NEW R \in Resumptions, NEW s \in Session, NEW h \in Handoffs,
                    Fit(R, s)
             PROVE  Fit(R, WithHandoff(s, h))
  OBVIOUS
<1>1. WithHandoff(s, h) \in Session
  BY DEF WithHandoff, Session, RunState, TaskState
<1>2. Agree(WithHandoff(s, h))
  BY DEF WithHandoff, Fit, Agree, Session, RunState, TaskState
<1>3. Going(R, WithHandoff(s, h))
  BY DEF WithHandoff, Fit, Going, Session, RunState, TaskState
<1>4. Explained(WithHandoff(s, h)) /\ Reported(WithHandoff(s, h))
  BY DEF WithHandoff, Fit, Explained, Reported, Session, RunState, TaskState
<1>5. QED
  BY <1>1, <1>2, <1>3, <1>4 DEF Fit

LEMMA WithMilestoneStatusFit ==
  \A R \in Resumptions, s \in Session, m \in MilestoneIds, v \in MilestoneStatuses :
    Fit(R, s) => Fit(R, WithMilestoneStatus(s, m, v))
  BY DEF Fit, Agree, Going, Explained, Reported, WithMilestoneStatus, Session, TaskState

LEMMA WithStatusFit ==
  \A R \in Resumptions, s \in Session, t \in TaskIds, v \in TaskStatuses \ {"blocked"} :
    Fit(R, s) => Fit(R, WithStatus(s, t, v))
  BY DEF Fit, Agree, Going, Explained, Reported, WithStatus, Session, TaskState

LEMMA WithTaskBlockerFit ==
  \A R \in Resumptions, s \in Session, t \in TaskIds, b \in Blockers :
    Fit(R, s) /\ (s.taskState.tasks[t] = "blocked" => b # "none")
    => Fit(R, WithTaskBlocker(s, t, b))
  BY DEF Fit, Agree, Going, Explained, Reported, WithTaskBlocker, Session, TaskState

LEMMA WithHintFit ==
  \A R \in Resumptions, s \in Session, t \in TaskIds, h \in Hints :
    Fit(R, s) => Fit(R, WithHint(s, t, h))
  BY DEF Fit, Agree, Going, Explained, Reported, WithHint, Session, TaskState

LEMMA WithOutputFit ==
  \A R \in Resumptions, s \in Session, t \in TaskIds : Fit(R, s) => Fit(R, WithOutput(s, t))
  BY DEF Fit, Agree, Going, Explained, Reported, WithOutput, Session, TaskState

\* A status and the blocker that explains it, which are not sound one by one.
LEMMA ExplainedStatusFit ==
  \A R \in Resumptions, s \in Session, t \in TaskIds, v \in TaskStatuses, b \in Blockers :
    Fit(R, s) /\ (v = "blocked" => b # "none") => Fit(R, WithTaskBlocker(WithStatus(s, t, v), t, b))
<1> SUFFICES ASSUME NEW R \in Resumptions,
                    NEW s \in Session, NEW t \in TaskIds, NEW v \in TaskStatuses,
                    NEW b \in Blockers, Fit(R, s), v = "blocked" => b # "none"
             PROVE  Fit(R, WithTaskBlocker(WithStatus(s, t, v), t, b))
  OBVIOUS
<1> DEFINE named == WithStatus(s, t, v)
           told == WithTaskBlocker(named, t, b)
<1>1. named \in Session /\ Agree(named) /\ Going(R, named) /\ Reported(named)
  BY DEF WithStatus, Fit, Agree, Going, Reported, Session, TaskState
<1>2. /\ named.taskState.tasks = [s.taskState.tasks EXCEPT ![t] = v]
      /\ named.taskState.taskBlockers = s.taskState.taskBlockers
  BY DEF WithStatus, Session, TaskState
<1> HIDE DEF named
<1>3. told \in Session /\ Agree(told) /\ Going(R, told) /\ Reported(told)
  BY <1>1 DEF WithTaskBlocker, Agree, Going, Reported, Session, TaskState
<1>4. /\ told.taskState.tasks = [s.taskState.tasks EXCEPT ![t] = v]
      /\ told.taskState.taskBlockers = [s.taskState.taskBlockers EXCEPT ![t] = b]
  BY <1>1, <1>2 DEF WithTaskBlocker, Session, TaskState
<1> HIDE DEF told
<1>5. Explained(told)
  BY <1>4 DEF Fit, Explained, Session, TaskState
<1>6. QED
  BY <1>3, <1>5 DEF Fit, told, named

LEMMA MarkedFit ==
  \A R \in Resumptions, s \in Session, t \in TaskIds, v \in TaskStatuses,
     b \in Blockers, h \in Hints :
    Fit(R, s) /\ (v = "blocked" => b # "none") => Fit(R, Marked(s, t, v, b, h))
  BY WithBlockerFit, ExplainedStatusFit, WithHintFit DEF Marked, Fit

LEMMA InvalidatedFit == \A R \in Resumptions, s \in Session : Fit(R, s) => Fit(R, Invalidated(s))
  BY WithReportFit, Values DEF Invalidated

\* None of these assignments changes the phase to resume into.
LEMMA ResumePhaseKept ==
  ASSUME NEW s \in Session, NEW t \in TaskIds, NEW h \in Hints, NEW b \in Blockers,
         NEW v \in TaskStatuses
  PROVE  /\ Invalidated(s).taskState.resumePhase = s.taskState.resumePhase
         /\ WithOutput(s, t).taskState.resumePhase = s.taskState.resumePhase
         /\ WithHint(s, t, h).taskState.resumePhase = s.taskState.resumePhase
         /\ WithBlocker(s, b).taskState.resumePhase = s.taskState.resumePhase
         /\ WithStatus(s, t, v).taskState.resumePhase = s.taskState.resumePhase
         /\ WithTaskBlocker(s, t, b).taskState.resumePhase = s.taskState.resumePhase
  BY DEF Invalidated, WithReport, WithOutput, WithHint, WithBlocker, WithStatus,
     WithTaskBlocker, Session, TaskState

LEMMA MarkedKept ==
  ASSUME NEW s \in Session, NEW t \in TaskIds, NEW v \in TaskStatuses, NEW b \in Blockers,
         NEW h \in Hints
  PROVE  Marked(s, t, v, b, h).taskState.resumePhase = s.taskState.resumePhase
  BY DEF Marked, WithHint, WithBlocker, WithStatus, WithTaskBlocker, Session, TaskState

\* A pause that leaves the phase to resume into alone.
LEMMA PauseFit ==
  \A R \in Resumptions, s \in Session :
    Fit(R, s) /\ s.taskState.resumePhase \in R => Fit(R, InPhase(s, "paused"))
  BY Values DEF Fit, Agree, Going, Explained, Reported, InPhase, Session, RunState

-----------------------------------------------------------------------------
(* The methods keep a session sound. *)

LEMMA InitialFit == \A R \in Resumptions : Fit(R, InitialSession)
  BY Values, Resumption DEF Fit, Agree, Going, Explained, Reported, InitialSession,
     InitialRunState, InitialTaskState, Session, RunState, TaskState, NoTask, NoMilestone,
     Handoffs, GoalSummaries, TaskStatuses,
     MilestoneStatuses

HalvesAgree(r, l) ==
  /\ r.activeTaskId = l.activeTaskId
  /\ r.activeMilestoneId = l.activeMilestoneId
  /\ r.lastVerificationStatus = l.lastVerificationStatus
  /\ r.lastVerificationPath = l.lastVerificationPath
  /\ r.lastHandoffPath = l.lastHandoffPath

\* A session put together from a run state and a ledger.
LEMMA PairFit ==
  \A R \in Resumptions, r \in RunState, l \in TaskState :
    /\ HalvesAgree(r, l)
    /\ l.resumePhase \in ResumePhases
    /\ r.phase = "paused" => l.resumePhase \in R
    /\ r.phase # "cancelled"
    /\ r.lastVerificationPath => r.lastVerificationStatus # "none"
    /\ \A t \in TaskIds : l.tasks[t] = "blocked" => l.taskBlockers[t] # "none"
    => Fit(R, [state |-> r, taskState |-> l])
  BY DEF HalvesAgree, Fit, Agree, Going, Explained, Reported, Session

LEMMA InitialTypes == InitialRunState \in RunState /\ InitialTaskState \in TaskState
  BY Values DEF InitialRunState, InitialTaskState, RunState, TaskState, NoTask, NoMilestone,
     Handoffs, GoalSummaries, TaskStatuses, MilestoneStatuses

LEMMA ClearedFit == \A R \in Resumptions, s \in Session : Fit(R, s) => Fit(R, Cleared(s))
<1> SUFFICES ASSUME NEW R \in Resumptions, NEW s \in Session, Fit(R, s)
             PROVE  Fit(R, Cleared(s))
  OBVIOUS
<1> DEFINE r == [InitialRunState EXCEPT !.lastHandoffPath = s.state.lastHandoffPath]
           l == [InitialTaskState EXCEPT !.taskMilestones = s.taskState.taskMilestones,
                                         !.lastHandoffPath = s.state.lastHandoffPath]
<1>1. Cleared(s) = [state |-> r, taskState |-> l]
  BY DEF Cleared
<1>2. r \in RunState /\ l \in TaskState
  BY InitialTypes DEF Session, RunState, TaskState
<1>3. /\ HalvesAgree(r, l) /\ r.phase = "idle" /\ r.lastVerificationPath = FALSE
      /\ l.resumePhase \in ResumePhases /\ \A t \in TaskIds : l.tasks[t] = "absent"
  BY Resumption DEF HalvesAgree, InitialRunState, InitialTaskState
<1> HIDE DEF r, l
<1>4. QED
  BY <1>1, <1>2, <1>3, PairFit

LEMMA ReopenedFit == \A R \in Resumptions, s \in Session : Fit(R, s) => Fit(R, Reopened(s))
  BY ClearedFit DEF Reopened

LEMMA ResetFit == \A R \in Resumptions, s \in Session : Fit(R, s) => Fit(R, Reset(s))
<1> SUFFICES ASSUME NEW R \in Resumptions, NEW s \in Session, Fit(R, s)
             PROVE  Fit(R, Reset(s))
  OBVIOUS
<1> DEFINE r == [InitialRunState EXCEPT !.lastHandoffPath = s.state.lastHandoffPath]
           l == [InitialTaskState EXCEPT !.lastHandoffPath = s.state.lastHandoffPath]
<1>1. Reset(s) = [state |-> r, taskState |-> l]
  BY DEF Reset
<1>2. r \in RunState /\ l \in TaskState
  BY InitialTypes DEF Session, RunState, TaskState
<1>3. /\ HalvesAgree(r, l) /\ r.phase = "idle" /\ r.lastVerificationPath = FALSE
      /\ l.resumePhase \in ResumePhases /\ \A t \in TaskIds : l.tasks[t] = "absent"
  BY Resumption DEF HalvesAgree, InitialRunState, InitialTaskState
<1> HIDE DEF r, l
<1>4. QED
  BY <1>1, <1>2, <1>3, PairFit

LEMMA WithSomeTaskFit ==
  \A R \in Resumptions, s \in Session : Fit(R, s) => /\ Fit(R, WithSomeTask(s))
                                 /\ WithSomeTask(s).state.activeTaskId \in TaskIds
<1> SUFFICES ASSUME NEW R \in Resumptions, NEW s \in Session, Fit(R, s)
             PROVE  /\ Fit(R, WithSomeTask(s))
                    /\ WithSomeTask(s).state.activeTaskId \in TaskIds
  OBVIOUS
<1>1. CASE s.state.activeTaskId = NoTask
  <2>1. WithSomeTask(s) = WithActiveTask(s, 1)
    BY <1>1 DEF WithSomeTask
  <2>2. WithActiveTask(s, 1).state.activeTaskId = 1
    BY DEF WithActiveTask, Session, RunState
  <2>3. QED
    BY <2>1, <2>2, WithActiveTaskFit, Values
<1>2. CASE s.state.activeTaskId # NoTask
  BY <1>2 DEF WithSomeTask, Session, RunState
<1>3. QED
  BY <1>1, <1>2

LEMMA StartedFit == \A R \in Resumptions, s \in Session, t \in TaskIds :
  Fit(R, s) => Fit(R, Started(s, t))
  BY WithStatusFit, Values DEF Started

LEMMA RoutedFit == \A R \in Resumptions, s \in Session : Fit(R, s) => Fit(R, Routed(s))
  BY WithFlowFit, Values DEF Routed

LEMMA TaskKept ==
  ASSUME NEW s \in Session, NEW t \in TaskIds, NEW v \in TaskStatuses, NEW p \in Phases
  PROVE  /\ WithStatus(s, t, v).state = s.state
         /\ ResumingInto(s, p).state = s.state
         /\ ResumingInto(s, p).taskState.resumePhase = p
  BY DEF WithStatus, ResumingInto, Session, TaskState

LEMMA PlannedFit ==
  ASSUME NEW R \in Resumptions,
         NEW s \in Session, Fit(R, s), NEW goal \in GoalSummaries, NEW longRunning \in BOOLEAN
  PROVE  Fit(R, Planned(s, goal, longRunning))
<1> DEFINE first == IF longRunning THEN 1 ELSE NoMilestone
           c == Cleared(s)
           tags == [t \in TaskIds |-> OrElse(PlanMilestone[t], c.taskState.taskMilestones[t])]
           todo == [t \in TaskIds |-> "todo"]
           stages == [m \in MilestoneIds |->
                        IF ~longRunning THEN "absent" ELSE IF m = 1 THEN "in_progress" ELSE "todo"]
           r == [c.state EXCEPT
                   !.phase = "planning",
                   !.currentFlow = IF longRunning THEN "milestone" ELSE "disciplined_single",
                   !.goalSummary = goal,
                   !.activePlanPath = TRUE,
                   !.activeTaskId = 1,
                   !.activeMilestoneId = first]
           l == [c.taskState EXCEPT
                   !.tasks = todo,
                   !.taskMilestones = tags,
                   !.planned = TRUE,
                   !.activeTaskId = 1,
                   !.activeMilestoneId = first,
                   !.milestones = stages]
<1>1. c \in Session /\ Fit(R, c)
  BY ClearedFit DEF Fit
<1>2. tags \in [TaskIds -> MilestoneIds \cup {NoMilestone}]
  BY <1>1, PlanShape DEF OrElse, Session, TaskState
<1>3. todo \in [TaskIds -> TaskStatuses] /\ stages \in [MilestoneIds -> MilestoneStatuses]
  BY DEF TaskStatuses, MilestoneStatuses
<1>4. Planned(s, goal, longRunning) = [state |-> r, taskState |-> l]
  BY <1>1 DEF Planned, Session, TaskState
<1> HIDE DEF c, tags, todo, stages
<1>5. first \in MilestoneIds \cup {NoMilestone}
  BY Values
<1>6. /\ r \in RunState /\ r.phase = "planning"
      /\ r.lastVerificationPath => r.lastVerificationStatus # "none"
  BY <1>1, <1>5, Values DEF Fit, Reported, Session, RunState
<1>7. l \in TaskState
  BY <1>1, <1>2, <1>3, <1>5, Values DEF Session, TaskState
<1>8. HalvesAgree(r, l)
  BY <1>1 DEF HalvesAgree, Fit, Agree, Session, RunState, TaskState
<1>9. l.resumePhase \in ResumePhases /\ \A t \in TaskIds : l.tasks[t] = "todo"
  BY <1>1 DEF todo, Fit, Going, Session, TaskState
<1> HIDE DEF r, l
<1>10. QED
  BY <1>4, <1>6, <1>7, <1>8, <1>9, PairFit

LEMMA ExecutionStartedFit ==
  ASSUME NEW R \in Resumptions, NEW s \in Session, Fit(R, s)
  PROVE  /\ Fit(R, ExecutionStarted(s))
         /\ ExecutionStarted(s).state.activeTaskId \in TaskIds
         /\ ExecutionStarted(s).taskState.resumePhase = "implementing"
<1> DEFINE routed == Routed(Reopened(s))
           phased == IF routed.state.phase \in {"planning", "paused"}
                     THEN InPhase(routed, "implementing") ELSE routed
           chosen == WithSomeTask(phased)
           t == chosen.state.activeTaskId
           begun == Started(chosen, t)
<1>1. routed \in Session /\ Fit(R, routed)
  BY ReopenedFit, RoutedFit DEF Fit
<1>2. phased \in Session /\ Fit(R, phased)
  BY <1>1, InPhaseFit, Values DEF Fit
<1>3. chosen \in Session /\ Fit(R, chosen) /\ t \in TaskIds
  BY <1>2, WithSomeTaskFit DEF Fit
<1>4. begun \in Session /\ Fit(R, begun) /\ begun.state = chosen.state
  BY <1>3, StartedFit, TaskKept, Values DEF Fit, Started
<1>5. ExecutionStarted(s) = ResumingInto(begun, "implementing")
  BY DEF ExecutionStarted
<1> HIDE DEF begun
<1>6. QED
  BY <1>3, <1>4, <1>5, ResumingIntoFit, TaskKept, Values

LEMMA ExecutionEndedFit ==
  ASSUME NEW R \in Resumptions,
         NEW s \in Session, Fit(R, s), NEW t \in TaskIds, NEW satisfied \in BOOLEAN,
         s.taskState.resumePhase \in R
  PROVE  Fit(R, ExecutionEnded(s, t, satisfied))
<1> DEFINE noted == WithHint(WithOutput(Invalidated(s), t), t, "none")
           marked == Marked(noted, t, "blocked", "no_changes", "implementation_no_changes")
<1>1. Invalidated(s) \in Session /\ Fit(R, Invalidated(s))
  BY InvalidatedFit DEF Fit
<1>2. WithOutput(Invalidated(s), t) \in Session /\ Fit(R, WithOutput(Invalidated(s), t))
  BY <1>1, WithOutputFit DEF Fit
<1>3. noted \in Session /\ Fit(R, noted)
  BY <1>2, WithHintFit, Values DEF Fit
<1>4. noted.taskState.resumePhase \in R
  BY <1>1, <1>2, ResumePhaseKept, Values
<1>5. marked \in Session /\ Fit(R, marked)
  BY <1>3, MarkedFit, Values DEF Fit
<1>6. marked.taskState.resumePhase \in R
  BY <1>3, <1>4, MarkedKept, Values
<1>7. Fit(R, InPhase(marked, "paused"))
  BY <1>5, <1>6, PauseFit
<1>8. QED
  BY <1>3, <1>7 DEF ExecutionEnded

LEMMA WorkerValidatorEnteredFit ==
  ASSUME NEW R \in Resumptions, NEW s \in Session, Fit(R, s)
  PROVE  /\ Fit(R, WorkerValidatorEntered(s))
<1> DEFINE routed == WithFlow(s, "worker_validator")
           phased == IF routed.state.phase = "idle" THEN InPhase(routed, "planning") ELSE routed
           chosen == WithSomeTask(phased)
           t == chosen.state.activeTaskId
           begun == ResumingInto(Started(chosen, t), "implementing")
<1>1. routed \in Session /\ Fit(R, routed)
  BY WithFlowFit, Values DEF Fit
<1>2. phased \in Session /\ Fit(R, phased)
  BY <1>1, InPhaseFit, Values DEF Fit
<1>3. chosen \in Session /\ Fit(R, chosen) /\ t \in TaskIds
  BY <1>2, WithSomeTaskFit DEF Fit
<1>4. Started(chosen, t) \in Session /\ Fit(R, Started(chosen, t))
  BY <1>3, StartedFit DEF Fit
<1>5. begun \in Session /\ Fit(R, begun)
  BY <1>4, ResumingIntoFit DEF Fit
<1>6. Invalidated(begun) \in Session /\ Fit(R, Invalidated(begun))
  BY <1>5, InvalidatedFit DEF Fit
<1>7. WorkerValidatorEntered(s) = WithOutput(Invalidated(begun), t)
  BY DEF WorkerValidatorEntered
<1> HIDE DEF begun, t
<1>8. QED
  BY <1>3, <1>6, <1>7, WithOutputFit

LEMMA VerificationStartedFit ==
  ASSUME NEW R \in Resumptions, NEW s \in Session, Fit(R, s)
  PROVE  Fit(R, VerificationStarted(s))
<1>1. CASE s.state.phase = "completed"
  <2> DEFINE named == WithSomeTask(Cleared(s))
  <2>1. named \in Session /\ Fit(R, named)
    BY ClearedFit, WithSomeTaskFit DEF Fit
  <2>2. Started(named, 1) \in Session /\ Fit(R, Started(named, 1))
    BY <2>1, StartedFit, Values DEF Fit
  <2>3. Fit(R, InPhase(Started(named, 1), "implementing"))
    BY <2>2, InPhaseFit, Values
  <2>4. QED
    BY <1>1, <2>3 DEF VerificationStarted
<1>2. CASE s.state.phase # "completed"
  BY <1>2, InPhaseFit, Values DEF VerificationStarted
<1>3. QED
  BY <1>1, <1>2

LEMMA VerdictTypes ==
  ASSUME NEW s \in Session, NEW failed
  PROVE  /\ VerificationStatus(s, failed) \in {"pass", "fail", "blocked"}
         /\ FailureText(failed) \in Blockers \ {"none"}
         /\ RecoveryHint(s, failed) \in Hints
         /\ VerdictPhase(s, failed) \in {"reviewing", "paused"}
  BY Values DEF VerificationStatus, FailureText, RecoveryHint, VerdictPhase

LEMMA VerdictRecordedFit ==
  ASSUME NEW R \in Resumptions, NEW s \in Session, Fit(R, s), NEW failed
  PROVE  /\ VerdictRecorded(s, failed) \in Session
         /\ Fit(R, VerdictRecorded(s, failed))
<1> DEFINE t == s.taskState.activeTaskId
           status == VerificationStatus(s, failed)
           text == FailureText(failed)
           hint == RecoveryHint(s, failed)
           reported == WithReport(s, status, TRUE)
           accepted == WithHint(WithStatus(reported, t, "validated"), t, "none")
           rejected == Marked(reported, t, "blocked", text, hint)
<1>1. status \in {"pass", "fail", "blocked"} /\ text \in Blockers \ {"none"} /\ hint \in Hints
  BY VerdictTypes
<1>2. reported \in Session /\ Fit(R, reported)
  BY <1>1, WithReportFit, Values DEF Fit
<1>3. ASSUME t # NoTask
      PROVE  Fit(R, accepted) /\ Fit(R, rejected)
  <2>1. t \in TaskIds
    BY <1>3 DEF Session, TaskState
  <2>2. /\ WithStatus(reported, t, "validated") \in Session
        /\ Fit(R, WithStatus(reported, t, "validated"))
    BY <1>2, <2>1, WithStatusFit, Values DEF Fit
  <2>3. Fit(R, accepted)
    BY <2>1, <2>2, WithHintFit, Values
  <2>4. QED
    BY <1>1, <1>2, <2>1, <2>3, MarkedFit, Values
<1>4. Fit(R, WithBlocker(reported, text))
  BY <1>1, <1>2, WithBlockerFit
<1>5. VerdictRecorded(s, failed) =
        CASE t = NoTask -> IF failed # {} THEN WithBlocker(reported, text) ELSE reported
          [] t # NoTask /\ failed # {} -> rejected
          [] t # NoTask /\ failed = {} /\ status = "pass" -> accepted
          [] OTHER -> WithStatus(reported, t, "blocked")
  BY DEF VerdictRecorded
\* A task that is blocked without a failed check would have no blocker.
<1>6. t # NoTask /\ failed = {} => status = "pass"
  BY DEF VerificationStatus, Fit, Agree
<1> HIDE DEF t, status, text, hint, reported, accepted, rejected
<1>7. Fit(R, VerdictRecorded(s, failed))
  BY <1>2, <1>3, <1>4, <1>5, <1>6
<1>8. QED
  BY <1>7 DEF Fit

LEMMA VerificationEndedFit ==
  ASSUME NEW R \in Resumptions, NEW s \in Session, Fit(R, s), NEW failed
  PROVE  Fit(R, VerificationEnded(s, failed))
  BY VerdictTypes, VerdictRecordedFit, EnteredFit, Values, Resumption DEF VerificationEnded

LEMMA ReviewedFit ==
  ASSUME NEW R \in Resumptions, NEW s \in Session, Fit(R, s)
  PROVE  Fit(R, Reviewed(s))
<1> DEFINE t == s.taskState.activeTaskId
           m == s.taskState.activeMilestoneId
           accepted == IF t = NoTask THEN s ELSE WithStatus(s, t, "done")
           finished == Entered(accepted, "completed", "none")
           waiting == Entered(accepted, "paused", "planning")
<1>1. t \in TaskIds \cup {NoTask} /\ m \in MilestoneIds \cup {NoMilestone}
  BY DEF Session, TaskState
<1>2. accepted \in Session /\ Fit(R, accepted)
  BY <1>1, WithStatusFit, Values DEF Fit
<1>3. finished \in Session /\ Fit(R, finished) /\ waiting \in Session /\ Fit(R, waiting)
  BY <1>2, EnteredFit, Values, Resumption DEF Fit
<1>4. ASSUME m # NoMilestone
      PROVE  /\ Fit(R, WithMilestoneStatus(waiting, m, "done"))
             /\ Fit(R, WithMilestoneStatus(finished, m, "done"))
  BY <1>1, <1>3, <1>4, WithMilestoneStatusFit, Values
<1>5. Reviewed(s) =
        IF ~PassedReview(s) THEN s
        ELSE IF s.state.currentFlow # "milestone" \/ m = NoMilestone THEN finished
        ELSE WithMilestoneStatus(IF HasNextMilestone(s, m) THEN waiting ELSE finished, m, "done")
  BY DEF Reviewed
<1> HIDE DEF m, finished, waiting
<1>6. QED
  BY <1>3, <1>4, <1>5

LEMMA FirstOfType == ASSUME NEW S PROVE FirstOf(S) \in S \cup {0}
  BY DEF FirstOf, IsFirst

\* A milestone that has a successor is not the last, so that T<index + 2> exists.
LEMMA FallbackTaskType ==
  ASSUME NEW s \in Session, NEW m \in MilestoneIds, NextMilestone(s, m) # NoMilestone
  PROVE  NextMilestone(s, m) \in MilestoneIds /\ FallbackTask(m) \in TaskIds
<1>1. NextMilestone(s, m) \in {n \in Milestones(s) : n > m}
  BY FirstOfType DEF NextMilestone, NoMilestone
<1>2. NextMilestone(s, m) \in MilestoneIds /\ NextMilestone(s, m) > m
  BY <1>1 DEF Milestones
<1>3. QED
  BY <1>2, PlanShape DEF FallbackTask, MilestoneIds, TaskIds

\* A milestone starts with an active task.
LEMMA ActivatedFit ==
  ASSUME NEW R \in Resumptions,
         NEW s \in Session, Fit(R, s), NEW m \in MilestoneIds, NEW t \in TaskIds
  PROVE  Fit(R, Activated(s, m, t)) /\ Activated(s, m, t).taskState.activeTaskId = t
<1> DEFINE active == WithActiveTask(s, t)
           onTask == WithStatus(active, t, "todo")
           tagged == WithMilestone(onTask, m)
           onMilestone == WithMilestoneStatus(tagged, m, "in_progress")
           phased == InPhase(onMilestone, "planning")
           routed == WithFlow(phased, "milestone")
           On(r) == r \in Session /\ Fit(R, r) /\ r.taskState.activeTaskId = t
<1>1. On(active)
  <2>1. active \in Session /\ Fit(R, active)
    BY WithActiveTaskFit DEF Fit
  <2>2. QED
    BY <2>1 DEF WithActiveTask, Session, TaskState
<1>2. On(onTask)
  BY <1>1, WithStatusFit, Values DEF Fit, WithStatus, Session, TaskState
<1>3. On(tagged)
  <2>1. tagged \in Session /\ Fit(R, tagged)
    BY <1>2, WithMilestoneFit DEF Fit
  <2>2. QED
    BY <1>2, <2>1 DEF WithMilestone, Session, TaskState
<1>4. On(onMilestone)
  BY <1>3, WithMilestoneStatusFit, Values DEF Fit, WithMilestoneStatus, Session, TaskState
<1>5. On(phased)
  BY <1>4, InPhaseFit, Values DEF Fit, InPhase, Session
<1>6. On(routed)
  BY <1>5, WithFlowFit, Values DEF Fit, WithFlow, Session
<1>7. Invalidated(routed).taskState.activeTaskId = t
  BY <1>6 DEF Invalidated, WithReport, Session, TaskState
<1>8. QED
  BY <1>6, <1>7, InvalidatedFit DEF Activated

LEMMA AdvancedFit ==
  ASSUME NEW R \in Resumptions, NEW s \in Session, Fit(R, s), CanAdvance(s)
  PROVE  Fit(R, Advanced(s))
<1> DEFINE m == s.taskState.activeMilestoneId
           closed == WithMilestoneStatus(s, m, "done")
           next == NextMilestone(s, m)
           task == OrElse(FirstReadyTaskForMilestone(closed, next), FallbackTask(m))
           idle == WithActiveTask(closed, NoTask)
<1>1. m \in MilestoneIds
  BY DEF CanAdvance, Milestones
<1>2. closed \in Session /\ Fit(R, closed)
  BY <1>1, WithMilestoneStatusFit, Values DEF Fit
<1>3. Fit(R, Concluded(closed, m))
  <2>1. idle \in Session /\ Fit(R, idle)
    BY <1>2, WithActiveTaskFit DEF Fit
  <2>2. WithMilestone(idle, m) \in Session /\ Fit(R, WithMilestone(idle, m))
    BY <1>1, <2>1, WithMilestoneFit DEF Fit
  <2>3. QED
    BY <2>2, InPhaseFit, Values DEF Concluded
<1>4. Fit(R, WaitingForMilestone(closed))
  <2>1. /\ Entered(closed, "paused", "planning") \in Session
        /\ Fit(R, Entered(closed, "paused", "planning"))
    BY <1>2, EnteredFit, Values, Resumption DEF Fit
  <2>2. QED
    BY <2>1, WithBlockerFit, Values DEF WaitingForMilestone
<1>5. ASSUME next # NoMilestone
      PROVE  Fit(R, Activated(closed, next, task))
  <2>1. next \in MilestoneIds /\ FallbackTask(m) \in TaskIds
    BY <1>1, <1>5, FallbackTaskType
  <2>2. FirstReadyTaskForMilestone(closed, next) \in TaskIds \cup {0}
    BY FirstOfType DEF FirstReadyTaskForMilestone, Ready
  <2>3. task \in TaskIds
    BY <2>1, <2>2 DEF OrElse
  <2> HIDE DEF task, closed, next
  <2>4. QED
    BY <1>2, <2>1, <2>3, ActivatedFit
<1>6. Advanced(s) =
        IF next = NoMilestone THEN Concluded(closed, m)
        ELSE IF UnsatisfiedMilestoneDependencies(closed, next) # {} THEN WaitingForMilestone(closed)
        ELSE Activated(closed, next, task)
  BY DEF Advanced
<1> HIDE DEF m, closed, next, task
<1>7. QED
  BY <1>3, <1>4, <1>5, <1>6

LEMMA ResumedFit ==
  ASSUME NEW R \in Resumptions, NEW s \in Session, Fit(R, s), s.state.phase = "paused"
  PROVE  Fit(R, Resumed(s))
<1>1. ResumeTarget(s) \in ResumePhases \ {"none"}
  BY Resumption DEF ResumeTarget, Fit, Going
<1>2. /\ Entered(s, ResumeTarget(s), ResumeTarget(s)) \in Session
      /\ Fit(R, Entered(s, ResumeTarget(s), ResumeTarget(s)))
  BY <1>1, EnteredFit, Values, Resumption DEF Fit
<1>3. QED
  BY <1>2, WithBlockerFit, Values DEF Resumed

LEMMA MarkedEnteredFit ==
  ASSUME NEW R \in Resumptions,
         NEW s \in Session, Fit(R, s), NEW t \in TaskIds, NEW v \in TaskStatuses,
         NEW b \in Blockers, NEW h \in Hints, NEW p \in Phases \ {"cancelled"},
         v = "blocked" => b # "none"
  PROVE  Fit(R, Entered(Marked(s, t, v, b, h), p, "implementing"))
<1>1. Marked(s, t, v, b, h) \in Session /\ Fit(R, Marked(s, t, v, b, h))
  BY MarkedFit DEF Fit
<1>2. QED
  BY <1>1, EnteredFit, Values, Resumption

LEMMA OverridesFit ==
  ASSUME NEW R \in Resumptions, NEW s \in Session, Fit(R, s), NEW t \in TaskIds
  PROVE  /\ Fit(R, AutoRecovered(s, t))
         /\ Fit(R, TaskBlocked(s, t))
         /\ Fit(R, TaskUnblocked(s, t))
         /\ Fit(R, TaskDone(s, t))
<1>1. WithStatus(s, t, "done") \in Session /\ Fit(R, WithStatus(s, t, "done"))
  BY WithStatusFit, Values DEF Fit
<1>2. Fit(R, TaskDone(s, t))
  BY <1>1, InPhaseFit, Values DEF TaskDone
<1>3. QED
  BY <1>2, MarkedEnteredFit, Values DEF AutoRecovered, TaskBlocked, TaskUnblocked

LEMMA PausedOnFit ==
  ASSUME NEW R \in Resumptions, NEW s \in Session, Fit(R, s), NEW t \in TaskIds
  PROVE  Fit(R, PausedOn(s, t))
<1>1. WithActiveTask(s, t) \in Session /\ Fit(R, WithActiveTask(s, t))
  BY WithActiveTaskFit DEF Fit
<1>2. QED
  BY <1>1, EnteredFit, Values, Resumption DEF PausedOn

\* Copying the ledger's pointers changes nothing: the halves agree already.
LEMMA PointersAlready ==
  ASSUME NEW s \in Session, Agree(s)
  PROVE  PointersFromLedger(s) = s
  BY DEF PointersFromLedger, Agree, Session, RunState

LEMMA WithKnownBlockerFit ==
  ASSUME NEW R \in Resumptions, NEW s \in Session, Fit(R, s), NEW t \in TaskIds \cup {NoTask}
  PROVE  Fit(R, WithKnownBlocker(s, t))
<1>1. CASE t = NoTask
  <2>1. StatusOf(s, t) # "blocked"
    BY <1>1 DEF StatusOf
  <2>2. WithKnownBlocker(s, t) = WithBlocker(s, "none")
    BY <1>1, <2>1 DEF WithKnownBlocker
  <2>3. QED
    BY <2>2, WithBlockerFit, Values
<1>2. CASE t # NoTask /\ StatusOf(s, t) # "blocked"
  <2> DEFINE cleared == WithBlocker(s, "none")
             told == WithTaskBlocker(cleared, t, "none")
  <2>1. t \in TaskIds
    BY <1>2
  <2>2. cleared \in Session /\ Fit(R, cleared)
    BY WithBlockerFit, Values DEF Fit
  <2>3. told \in Session /\ Fit(R, told)
    <3>1. cleared.taskState.tasks[t] # "blocked"
      BY <1>2 DEF StatusOf, WithBlocker, Session
    <3> HIDE DEF cleared
    <3>2. QED
      BY <2>1, <2>2, <3>1, WithTaskBlockerFit, Values DEF Fit
  <2>4. Fit(R, WithHint(told, t, "none"))
    BY <2>1, <2>3, WithHintFit, Values
  <2>5. QED
    BY <1>2, <2>4 DEF WithKnownBlocker
<1>3. CASE t # NoTask /\ StatusOf(s, t) = "blocked"
  <2>1. t \in TaskIds /\ BlockerOf(s, t) \in Blockers /\ s.state.blocker \in Blockers
    BY <1>3 DEF BlockerOf, Session, RunState, TaskState
  <2>2. /\ Fit(R, WithBlocker(s, BlockerOf(s, t)))
        /\ s.state.blocker # "none" => Fit(R, WithTaskBlocker(s, t, s.state.blocker))
    BY <2>1, WithBlockerFit, WithTaskBlockerFit
  <2>3. QED
    BY <1>3, <2>2 DEF WithKnownBlocker
<1>4. QED
  BY <1>1, <1>2, <1>3

\* What either file holds of its own, whatever the other one holds.
Halved(R, s) ==
  /\ s \in Session /\ Going(R, s) /\ Explained(s) /\ Reported(s)
  /\ s.taskState.lastVerificationPath => s.taskState.lastVerificationStatus # "none"

LEMMA FitIsHalved == \A R \in Resumptions : \A s : Fit(R, s) => Halved(R, s)
  BY DEF Fit, Halved, Agree, Reported

LEMMA AgreedFit ==
  ASSUME NEW R \in Resumptions, NEW s \in Session, Halved(R, s), NEW t \in TaskIds \cup {NoTask},
         NEW m \in MilestoneIds \cup {NoMilestone}, NEW status \in VerificationStatuses,
         NEW path \in BOOLEAN, NEW handoff \in Handoffs, path => status # "none"
  PROVE  Fit(R, Agreed(s, t, m, status, path, handoff))
<1> DEFINE onTask == WithActiveTask(s, t)
           onMilestone == WithMilestone(onTask, m)
           reported == WithReport(onMilestone, status, path)
           Same(x) ==
             /\ x \in Session
             /\ x.state.phase = s.state.phase
             /\ x.taskState.resumePhase = s.taskState.resumePhase
             /\ x.taskState.tasks = s.taskState.tasks
             /\ x.taskState.taskBlockers = s.taskState.taskBlockers
           SameTask(x) == x.state.activeTaskId = x.taskState.activeTaskId
           SameMilestone(x) == x.state.activeMilestoneId = x.taskState.activeMilestoneId
           SameReport(x) ==
             /\ x.state.lastVerificationStatus = x.taskState.lastVerificationStatus
             /\ x.state.lastVerificationPath = x.taskState.lastVerificationPath
             /\ Reported(x)
<1>1. Same(onTask) /\ SameTask(onTask)
  BY DEF WithActiveTask, Session, RunState, TaskState
<1> HIDE DEF onTask
<1>2. Same(onMilestone) /\ SameTask(onMilestone) /\ SameMilestone(onMilestone)
  BY <1>1 DEF WithMilestone, Session, RunState, TaskState
<1> HIDE DEF onMilestone
<1>3. /\ Same(reported) /\ SameTask(reported) /\ SameMilestone(reported)
      /\ SameReport(reported)
  BY <1>2 DEF WithReport, Reported, Session, RunState, TaskState
<1> HIDE DEF reported
<1> DEFINE whole == WithHandoff(reported, handoff)
<1>4. /\ Same(whole) /\ SameTask(whole) /\ SameMilestone(whole) /\ SameReport(whole)
      /\ whole.state.lastHandoffPath = whole.taskState.lastHandoffPath
  BY <1>3 DEF WithHandoff, Reported, Session, RunState, TaskState
<1> HIDE DEF whole
<1>5. Agree(whole)
  BY <1>4 DEF Agree
<1>6. Going(R, whole) /\ Explained(whole) /\ Reported(whole)
  BY <1>4 DEF Halved, Going, Explained
<1>7. QED
  BY <1>4, <1>5, <1>6 DEF Fit, Agreed, whole, reported, onMilestone, onTask

LEMMA ReconciledFit ==
  ASSUME NEW R \in Resumptions, NEW s \in Session, Halved(R, s)
  PROVE  Fit(R, Reconciled(s))
<1> DEFINE t == ActiveTask(s)
           tag == IF t = NoTask THEN NoMilestone ELSE s.taskState.taskMilestones[t]
           m == OrElse(tag, OrElse(s.taskState.activeMilestoneId, s.state.activeMilestoneId))
           path == s.state.lastVerificationPath \/ s.taskState.lastVerificationPath
           recorded == IF s.state.lastVerificationStatus # "none"
                       THEN s.state.lastVerificationStatus ELSE s.taskState.lastVerificationStatus
           verdict == IF recorded = "none" /\ path THEN InferredVerdict(StatusOf(s, t)) ELSE recorded
           handoff == IF s.state.lastHandoffPath # NoHandoff
                      THEN s.state.lastHandoffPath ELSE s.taskState.lastHandoffPath
           agreed == Agreed(s, t, m, verdict, path, handoff)
<1>1. t \in TaskIds \cup {NoTask}
  BY DEF ActiveTask, OrElse, Session, TaskState, RunState, NoTask
<1>2. m \in MilestoneIds \cup {NoMilestone}
  BY <1>1 DEF OrElse, Session, TaskState, RunState, NoMilestone
<1>3. path \in BOOLEAN /\ verdict \in VerificationStatuses /\ handoff \in Handoffs
      /\ (path => verdict # "none")
  BY Values DEF Halved, Reported, InferredVerdict, Session, TaskState, RunState
<1>4. Reconciled(s) = WithKnownBlocker(agreed, t)
  BY DEF Reconciled
<1> HIDE DEF t, m, path, verdict, handoff
<1>5. agreed \in Session /\ Fit(R, agreed)
  BY <1>1, <1>2, <1>3, AgreedFit DEF Fit
<1> HIDE DEF agreed
<1>6. QED
  BY <1>1, <1>4, <1>5, WithKnownBlockerFit

LEMMA HydratedFit ==
  ASSUME NEW R \in Resumptions, NEW s \in Session, Fit(R, s)
  PROVE  Fit(R, Hydrated(s))
<1> DEFINE tags == [t \in TaskIds |-> OrElse(s.taskState.taskMilestones[t], OrElse(PlanMilestone[t],
                      IF t \in Milestones(s) THEN t ELSE NoMilestone))]
           l == [s.taskState EXCEPT !.planned = TRUE, !.taskMilestones = tags]
<1>1. tags \in [TaskIds -> MilestoneIds \cup {NoMilestone}]
  BY PlanShape DEF OrElse, Milestones, Session, TaskState
<1>2. CASE s.state.activePlanPath
  <2>1. Hydrated(s) = [state |-> s.state, taskState |-> l]
    BY <1>2 DEF Hydrated, Session, TaskState
  <2> HIDE DEF tags
  <2>2. s.state \in RunState /\ l \in TaskState /\ HalvesAgree(s.state, l)
        /\ l.resumePhase = s.taskState.resumePhase
        /\ l.tasks = s.taskState.tasks /\ l.taskBlockers = s.taskState.taskBlockers
    BY <1>1 DEF HalvesAgree, Fit, Agree, Session, TaskState
  <2> HIDE DEF l
  <2>3. QED
    BY <2>1, <2>2, PairFit DEF Fit, Going, Explained, Reported
<1>3. CASE ~s.state.activePlanPath
  BY <1>3 DEF Hydrated
<1>4. QED
  BY <1>2, <1>3

LEMMA LoadedFit ==
  ASSUME NEW R \in Resumptions, NEW s \in Session, Halved(R, s)
  PROVE  Fit(R, Loaded(s))
  BY ReconciledFit, HydratedFit DEF Loaded, Fit

-----------------------------------------------------------------------------
(* The same of sound sessions. *)

LEMMA InPhaseSound ==
  \A s \in Session, p \in Phases \ {"paused", "cancelled"} : Sound(s) => Sound(InPhase(s, p))
  BY InPhaseFit, SoundIsFit, Resumption

LEMMA EnteredSound ==
  \A s \in Session, p \in Phases \ {"cancelled"}, r \in ResumePhases :
    Sound(s) /\ (p = "paused" => r \in {"planning", "implementing"}) => Sound(Entered(s, p, r))
  BY EnteredFit, SoundIsFit, Resumption, Values

LEMMA WithFlowSound ==
  \A s \in Session, f \in Flows : Sound(s) => Sound(WithFlow(s, f))
  BY WithFlowFit, SoundIsFit, Resumption

LEMMA WithReportSound ==
  \A s \in Session, v \in VerificationStatuses, p \in BOOLEAN :
    Sound(s) /\ (p => v # "none") => Sound(WithReport(s, v, p))
  BY WithReportFit, SoundIsFit, Resumption

LEMMA WithActiveTaskSound ==
  \A s \in Session, t \in TaskIds \cup {NoTask} : Sound(s) => Sound(WithActiveTask(s, t))
  BY WithActiveTaskFit, SoundIsFit, Resumption

LEMMA WithMilestoneSound ==
  \A s \in Session, m \in MilestoneIds \cup {NoMilestone} :
    Sound(s) => Sound(WithMilestone(s, m))
  BY WithMilestoneFit, SoundIsFit, Resumption

LEMMA WithHandoffSound ==
  \A s \in Session, h \in Handoffs : Sound(s) => Sound(WithHandoff(s, h))
  BY WithHandoffFit, SoundIsFit, Resumption

LEMMA WithMilestoneStatusSound ==
  \A s \in Session, m \in MilestoneIds, v \in MilestoneStatuses :
    Sound(s) => Sound(WithMilestoneStatus(s, m, v))
  BY WithMilestoneStatusFit, SoundIsFit, Resumption

LEMMA WithStatusSound ==
  \A s \in Session, t \in TaskIds, v \in TaskStatuses \ {"blocked"} :
    Sound(s) => Sound(WithStatus(s, t, v))
  BY WithStatusFit, SoundIsFit, Resumption

LEMMA WithHintSound ==
  \A s \in Session, t \in TaskIds, h \in Hints : Sound(s) => Sound(WithHint(s, t, h))
  BY WithHintFit, SoundIsFit, Resumption

LEMMA WithOutputSound ==
  \A s \in Session, t \in TaskIds : Sound(s) => Sound(WithOutput(s, t))
  BY WithOutputFit, SoundIsFit, Resumption

LEMMA MarkedSound ==
  \A s \in Session, t \in TaskIds, v \in TaskStatuses, b \in Blockers, h \in Hints :
    Sound(s) /\ (v = "blocked" => b # "none") => Sound(Marked(s, t, v, b, h))
  BY MarkedFit, SoundIsFit, Resumption

LEMMA InvalidatedSound == \A s \in Session : Sound(s) => Sound(Invalidated(s))
  BY InvalidatedFit, SoundIsFit, Resumption

LEMMA ClearedSound == \A s \in Session : Sound(s) => Sound(Cleared(s))
  BY ClearedFit, SoundIsFit, Resumption

LEMMA ReopenedSound == \A s \in Session : Sound(s) => Sound(Reopened(s))
  BY ReopenedFit, SoundIsFit, Resumption

LEMMA ResetSound == \A s \in Session : Sound(s) => Sound(Reset(s))
  BY ResetFit, SoundIsFit, Resumption

LEMMA WithSomeTaskSound ==
  \A s \in Session : Sound(s) => /\ Sound(WithSomeTask(s))
                                 /\ WithSomeTask(s).state.activeTaskId \in TaskIds
  BY WithSomeTaskFit, SoundIsFit, Resumption

LEMMA StartedSound == \A s \in Session, t \in TaskIds : Sound(s) => Sound(Started(s, t))
  BY StartedFit, SoundIsFit, Resumption

LEMMA RoutedSound == \A s \in Session : Sound(s) => Sound(Routed(s))
  BY RoutedFit, SoundIsFit, Resumption

LEMMA PlannedSound ==
  ASSUME NEW s \in Session, Sound(s), NEW goal \in GoalSummaries, NEW longRunning \in BOOLEAN
  PROVE  Sound(Planned(s, goal, longRunning))
  BY PlannedFit, SoundIsFit, Resumption

LEMMA ExecutionStartedSound ==
  ASSUME NEW s \in Session, Sound(s)
  PROVE  /\ Sound(ExecutionStarted(s))
         /\ ExecutionStarted(s).state.activeTaskId \in TaskIds
         /\ ExecutionStarted(s).taskState.resumePhase = "implementing"
  BY ExecutionStartedFit, SoundIsFit, Resumption

LEMMA ExecutionEndedSound ==
  ASSUME NEW s \in Session, Sound(s), NEW t \in TaskIds, NEW satisfied \in BOOLEAN,
         s.taskState.resumePhase = "implementing"
  PROVE  Sound(ExecutionEnded(s, t, satisfied))
  BY ExecutionEndedFit, SoundIsFit, Resumption, Values

LEMMA WorkerValidatorEnteredSound ==
  ASSUME NEW s \in Session, Sound(s)
  PROVE  /\ Sound(WorkerValidatorEntered(s))
  BY WorkerValidatorEnteredFit, SoundIsFit, Resumption

LEMMA VerificationStartedSound ==
  ASSUME NEW s \in Session, Sound(s)
  PROVE  Sound(VerificationStarted(s))
  BY VerificationStartedFit, SoundIsFit, Resumption

LEMMA VerdictRecordedSound ==
  ASSUME NEW s \in Session, Sound(s), NEW failed
  PROVE  /\ VerdictRecorded(s, failed) \in Session
         /\ Sound(VerdictRecorded(s, failed))
  BY VerdictRecordedFit, SoundIsFit, Resumption

LEMMA VerificationEndedSound ==
  ASSUME NEW s \in Session, Sound(s), NEW failed
  PROVE  Sound(VerificationEnded(s, failed))
  BY VerificationEndedFit, SoundIsFit, Resumption

LEMMA ReviewedSound ==
  ASSUME NEW s \in Session, Sound(s)
  PROVE  Sound(Reviewed(s))
  BY ReviewedFit, SoundIsFit, Resumption

LEMMA ActivatedSound ==
  ASSUME NEW s \in Session, Sound(s), NEW m \in MilestoneIds, NEW t \in TaskIds
  PROVE  Sound(Activated(s, m, t)) /\ Activated(s, m, t).taskState.activeTaskId = t
  BY ActivatedFit, SoundIsFit, Resumption

LEMMA AdvancedSound ==
  ASSUME NEW s \in Session, Sound(s), CanAdvance(s)
  PROVE  Sound(Advanced(s))
  BY AdvancedFit, SoundIsFit, Resumption

LEMMA ResumedSound ==
  ASSUME NEW s \in Session, Sound(s), s.state.phase = "paused"
  PROVE  Sound(Resumed(s))
  BY ResumedFit, SoundIsFit, Resumption

LEMMA MarkedEnteredSound ==
  ASSUME NEW s \in Session, Sound(s), NEW t \in TaskIds, NEW v \in TaskStatuses,
         NEW b \in Blockers, NEW h \in Hints, NEW p \in Phases \ {"cancelled"},
         v = "blocked" => b # "none"
  PROVE  Sound(Entered(Marked(s, t, v, b, h), p, "implementing"))
  BY MarkedEnteredFit, SoundIsFit, Resumption

LEMMA OverridesSound ==
  ASSUME NEW s \in Session, Sound(s), NEW t \in TaskIds
  PROVE  /\ Sound(AutoRecovered(s, t))
         /\ Sound(TaskBlocked(s, t))
         /\ Sound(TaskUnblocked(s, t))
         /\ Sound(TaskDone(s, t))
  BY OverridesFit, SoundIsFit, Resumption

LEMMA PausedOnSound ==
  ASSUME NEW s \in Session, Sound(s), NEW t \in TaskIds
  PROVE  Sound(PausedOn(s, t))
  BY PausedOnFit, SoundIsFit, Resumption

LEMMA AgreedSound ==
  ASSUME NEW s \in Session, Sound(s), NEW t \in TaskIds \cup {NoTask},
         NEW m \in MilestoneIds \cup {NoMilestone}, NEW status \in VerificationStatuses,
         NEW path \in BOOLEAN, NEW handoff \in Handoffs, path => status # "none"
  PROVE  Sound(Agreed(s, t, m, status, path, handoff))
  BY AgreedFit, SoundIsFit, FitIsHalved, Resumption

LEMMA ReconciledSound ==
  ASSUME NEW s \in Session, Sound(s)
  PROVE  Sound(Reconciled(s))
  BY ReconciledFit, SoundIsFit, FitIsHalved, Resumption

LEMMA LoadedSound ==
  ASSUME NEW s \in Session, Sound(s)
  PROVE  Sound(Loaded(s))
  BY LoadedFit, SoundIsFit, FitIsHalved, Resumption

LEMMA PointersFromLedgerSame ==
  ASSUME NEW s \in Session, Sound(s)
  PROVE  PointersFromLedger(s) = s
  BY PointersAlready DEF Sound

-----------------------------------------------------------------------------
(* The commands.  Every way of returning leaves fit sessions behind, in       *)
(* memory and on disk, and a rejected agent worked on some task.               *)

Replies == [outcome : Outcomes, tools : ToolGrants]

KeptIn(R) ==
  /\ session' \in Session /\ Fit(R, session')
  /\ disk' \in Session /\ Fit(R, disk')
  /\ reply' \in Replies
  /\ reply'.outcome = "agent_failed" => session'.state.activeTaskId \in TaskIds
  /\ evidence' \subseteq TaskIds

LEMMA ReturnTypes ==
  /\ \A o \in Outcomes : Replied(o) \in Replies
  /\ \A g \in ToolGrants :
       /\ [outcome |-> "ok", tools |-> g] \in Replies
       /\ [outcome |-> "agent_failed", tools |-> g] \in Replies
  /\ {"none", "ok", "refused", "invalid_transition", "checks_failed", "hung"}
       \subseteq Outcomes \ {"agent_failed"}
  BY DEF Replies, Replied, Outcomes, Failures, ToolGrants

LEMMA ReturnKept ==
  \A R \in Resumptions : \A s, d, r :
    /\ Fit(R, s) /\ Fit(R, d) /\ r \in Replies
    /\ r.outcome = "agent_failed" => s.state.activeTaskId \in TaskIds
    /\ evidence' \subseteq TaskIds
    /\ Return(s, d, r)
    => KeptIn(R)
  BY DEF Return, KeptIn, Fit

LEMMA SavedKept ==
  \A R \in Resumptions : \A s :
    Fit(R, s) /\ evidence' \subseteq TaskIds /\ Saved(s) => KeptIn(R)
  BY ReturnKept, ReturnTypes DEF Saved, Replied

LEMMA UnsavedKept ==
  \A R \in Resumptions : \A s, d, o :
    /\ Fit(R, s) /\ Fit(R, d) /\ o \in Outcomes \ {"agent_failed"}
    /\ evidence' \subseteq TaskIds
    /\ Unsaved(s, d, o)
    => KeptIn(R)
  BY ReturnKept, ReturnTypes DEF Unsaved, Replied

LEMMA StillKnownType ==
  ASSUME evidence \subseteq TaskIds
  PROVE  \A s : StillKnown(s) \subseteq TaskIds
  BY DEF StillKnown

LEMMA ExecuteKept ==
  ASSUME NEW R \in Resumptions, NEW s, Fit(R, s), NEW d, Fit(R, d), evidence \subseteq TaskIds,
         Execute(s, d)
  PROVE  KeptIn(R)
<1> DEFINE begun == ExecutionStarted(s)
           t == begun.state.activeTaskId
           tools == GrantedTools(begun, t)
<1>1. begun \in Session /\ Fit(R, begun) /\ t \in TaskIds
      /\ begun.taskState.resumePhase = "implementing"
  BY ExecutionStartedFit DEF Fit
<1>2. tools \in ToolGrants
  BY DEF GrantedTools, ToolGrants
<1>3. evidence' \subseteq TaskIds
  BY StillKnownType DEF Execute
<1>4. \/ \E satisfied \in BOOLEAN :
           Return(ExecutionEnded(begun, t, satisfied), ExecutionEnded(begun, t, satisfied),
                  [outcome |-> "ok", tools |-> tools])
      \/ Return(begun, d, [outcome |-> "agent_failed", tools |-> tools])
  BY DEF Execute
<1>5. \A satisfied \in BOOLEAN : Fit(R, ExecutionEnded(begun, t, satisfied))
  BY <1>1, ExecutionEndedFit, Resumption
<1>6. /\ [outcome |-> "ok", tools |-> tools] \in Replies
      /\ [outcome |-> "agent_failed", tools |-> tools] \in Replies
      /\ [outcome |-> "ok", tools |-> tools].outcome # "agent_failed"
  BY <1>2, ReturnTypes
<1>7. begun.state.activeTaskId \in TaskIds
  BY <1>1
<1> HIDE DEF begun, t, tools
<1>8. CASE \E satisfied \in BOOLEAN :
             Return(ExecutionEnded(begun, t, satisfied), ExecutionEnded(begun, t, satisfied),
                    [outcome |-> "ok", tools |-> tools])
  BY <1>3, <1>5, <1>6, <1>8, ReturnKept
<1>9. CASE Return(begun, d, [outcome |-> "agent_failed", tools |-> tools])
  BY <1>1, <1>3, <1>6, <1>7, <1>9, ReturnKept
<1>10. QED
  BY <1>4, <1>8, <1>9

LEMMA VerifyKept ==
  ASSUME NEW R \in Resumptions, NEW s, Fit(R, s), NEW d, Fit(R, d), evidence \subseteq TaskIds,
         Verify(s, d)
  PROVE  KeptIn(R)
<1> DEFINE opened == VerificationStarted(s)
           checked == InPhase(opened, "verifying")
           target == checked.state.activeTaskId
<1>1. opened \in Session /\ Fit(R, opened)
  BY VerificationStartedFit DEF Fit
<1>2. checked \in Session /\ Fit(R, checked)
  BY <1>1, InPhaseFit, Values DEF Fit
<1>3. CASE /\ Unsaved(opened, d, "invalid_transition")
           /\ evidence' = StillKnown(opened)
  BY <1>1, <1>3, StillKnownType, UnsavedKept, ReturnTypes
<1>4. CASE /\ Unsaved(checked, d, "checks_failed")
           /\ evidence' = StillKnown(checked)
  BY <1>2, <1>4, StillKnownType, UnsavedKept, ReturnTypes
<1>5. ASSUME NEW failed,
             Saved(VerificationEnded(checked, failed)),
             evidence' = IF VerificationStatus(checked, failed) = "pass"
                         THEN StillKnown(checked) \cup {target}
                         ELSE StillKnown(checked) \ {target}
      PROVE  KeptIn(R)
  <2>1. Fit(R, VerificationEnded(checked, failed))
    BY <1>2, VerificationEndedFit
  <2>2. VerificationStatus(checked, failed) = "pass" => target # NoTask
    BY DEF VerificationStatus
  <2>3. target \in TaskIds \cup {NoTask}
    BY <1>2 DEF Session, RunState
  <2>4. evidence' \subseteq TaskIds
    BY <1>5, <2>2, <2>3, StillKnownType
  <2>5. QED
    BY <1>5, <2>1, <2>4, SavedKept
<1>6. QED
  BY <1>3, <1>4, <1>5 DEF Verify

LEMMA StartTaskKept ==
  ASSUME NEW R \in Resumptions, NEW s, Fit(R, s), NEW d, Fit(R, d), evidence \subseteq TaskIds,
         s.taskState.activeTaskId # NoTask, StartTask(s, d)
  PROVE  KeptIn(R)
<1> DEFINE t == s.taskState.activeTaskId
           begun == Started(s, t)
<1>1. s \in Session /\ t \in TaskIds
  BY DEF Fit, Session, TaskState
<1>2. Fit(R, PausedOn(s, t)) /\ Fit(R, begun)
  BY <1>1, PausedOnFit, StartedFit
<1>3. \/ Saved(PausedOn(s, t)) /\ evidence' = evidence
      \/ Verify(begun, begun)
      \/ Execute(s, d)
  BY DEF StartTask
<1> HIDE DEF t, begun
<1>4. QED
  BY <1>2, <1>3, SavedKept, VerifyKept, ExecuteKept

\* A milestone that starts has a task to start with.
LEMMA AdvancedHasTask ==
  ASSUME NEW R \in Resumptions,
         NEW s \in Session, Fit(R, s), CanAdvance(s), Advanced(s).state.phase = "planning"
  PROVE  Advanced(s).taskState.activeTaskId # NoTask
<1> DEFINE m == s.taskState.activeMilestoneId
           closed == WithMilestoneStatus(s, m, "done")
           next == NextMilestone(s, m)
           task == OrElse(FirstReadyTaskForMilestone(closed, next), FallbackTask(m))
<1>1. m \in MilestoneIds
  BY DEF CanAdvance, Milestones
<1>2. closed \in Session /\ Fit(R, closed)
  BY <1>1, WithMilestoneStatusFit, Values DEF Fit
<1>3. Concluded(closed, m).state.phase = "completed"
  BY <1>1, <1>2 DEF Concluded, InPhase, WithMilestone, WithActiveTask, Session, RunState
<1>4. WaitingForMilestone(closed).state.phase = "paused"
  BY <1>2 DEF WaitingForMilestone, WithBlocker, Entered, Session, RunState
<1>5. CASE next # NoMilestone /\ UnsatisfiedMilestoneDependencies(closed, next) = {}
  <2>1. next \in MilestoneIds /\ FallbackTask(m) \in TaskIds
    BY <1>1, <1>5, FallbackTaskType
  <2>2. FirstReadyTaskForMilestone(closed, next) \in TaskIds \cup {0}
    BY FirstOfType DEF FirstReadyTaskForMilestone, Ready
  <2>3. task \in TaskIds
    BY <2>1, <2>2 DEF OrElse
  <2>4. Advanced(s) = Activated(closed, next, task)
    BY <1>5 DEF Advanced
  <2> HIDE DEF task, next, closed
  <2>5. Activated(closed, next, task).taskState.activeTaskId = task
    BY <1>2, <2>1, <2>3, ActivatedFit
  <2>6. QED
    BY <2>3, <2>4, <2>5 DEF TaskIds, NoTask
<1>6. CASE next = NoMilestone
  BY <1>3, <1>6 DEF Advanced
<1>7. CASE next # NoMilestone /\ UnsatisfiedMilestoneDependencies(closed, next) # {}
  BY <1>4, <1>7 DEF Advanced
<1>8. QED
  BY <1>5, <1>6, <1>7

LEMMA NextTaskTypes ==
  ASSUME NEW s, NEW t
  PROVE  /\ NextTodoTask(s, t) \in TaskIds \cup {NoTask}
         /\ NextPendingTask(s, t) \in TaskIds \cup {NoTask}
         /\ FirstReadyTask(s) \in TaskIds \cup {NoTask}
  BY FirstOfType DEF NextTodoTask, NextPendingTask, FirstReadyTask, Ready, After, OpenTasks, NoTask

\* A picked task: the run turns to it, back in planning.
LEMMA PickedFit ==
  ASSUME NEW R \in Resumptions, NEW s, Fit(R, s), NEW t \in TaskIds
  PROVE  Fit(R, InPhase(WithActiveTask(s, t), "planning"))
<1>1. WithActiveTask(s, t) \in Session /\ Fit(R, WithActiveTask(s, t))
  BY WithActiveTaskFit DEF Fit
<1>2. QED
  BY <1>1, InPhaseFit, Values

LEMMA PickedSound ==
  ASSUME NEW s, Sound(s), NEW t \in TaskIds
  PROVE  Sound(InPhase(WithActiveTask(s, t), "planning"))
  BY PickedFit, SoundIsFit, Resumption

LEMMA LeaveTaskKept ==
  ASSUME NEW R \in Resumptions,
         NEW s, Fit(R, s), NEW d, Fit(R, d), evidence \subseteq TaskIds, LeaveTask(s, d)
  PROVE  KeptIn(R)
<1> DEFINE t == s.taskState.activeTaskId
           next == NextTodoTask(s, t)
           pending == NextPendingTask(s, t)
           advanced == Advanced(s)
<1>1. s \in Session
  BY DEF Fit
<1>2. CASE next # NoTask /\ Saved(InPhase(WithActiveTask(s, next), "planning")) /\ evidence' = evidence
  BY <1>2, NextTaskTypes, PickedFit, SavedKept
<1>3. CASE pending # NoTask /\ Saved(PausedOn(s, pending)) /\ evidence' = evidence
  BY <1>1, <1>3, NextTaskTypes, PausedOnFit, SavedKept
<1>4. CASE (\E o \in {"hung", "refused"} : Unsaved(s, d, o)) /\ evidence' = evidence
  BY <1>4, UnsavedKept, ReturnTypes
<1>5. CASE CanAdvance(s) /\ Saved(advanced) /\ evidence' = evidence
  BY <1>1, <1>5, AdvancedFit, SavedKept
<1>6. CASE CanAdvance(s) /\ advanced.state.phase = "planning" /\ StartTask(advanced, advanced)
  <2>1. Fit(R, advanced) /\ advanced.taskState.activeTaskId # NoTask
    BY <1>1, <1>6, AdvancedFit, AdvancedHasTask
  <2>2. QED
    BY <1>6, <2>1, StartTaskKept
<1>7. QED
  BY <1>2, <1>3, <1>4, <1>5, <1>6 DEF LeaveTask

LEMMA AutoRecoveredKeepsTask ==
  ASSUME NEW s \in Session, NEW t \in TaskIds
  PROVE  AutoRecovered(s, t).taskState.activeTaskId = s.taskState.activeTaskId
  BY DEF AutoRecovered, Marked, Entered, WithHint, WithTaskBlocker, WithStatus, WithBlocker,
     Session, TaskState

LEMMA RunTaskKept ==
  ASSUME NEW R \in Resumptions,
         NEW s, Fit(R, s), NEW d, Fit(R, d), evidence \subseteq TaskIds, RunTask(s, d)
  PROVE  KeptIn(R)
<1> DEFINE t == s.taskState.activeTaskId
           requeued == AutoRecovered(s, t)
<1>1. s \in Session /\ t \in TaskIds \cup {NoTask}
  BY DEF Fit, Session, TaskState
<1>2. CASE StatusOf(s, t) = "todo" /\ StartTask(s, d)
  <2>1. t # NoTask
    BY <1>2 DEF StatusOf
  <2>2. QED
    BY <1>2, <2>1, StartTaskKept
<1>3. CASE Verify(s, d)
  BY <1>3, VerifyKept
<1>4. CASE Saved(Reviewed(s)) /\ evidence' = evidence
  BY <1>1, <1>4, ReviewedFit, SavedKept
<1>5. CASE LeaveTask(s, d)
  BY <1>5, LeaveTaskKept
<1>6. CASE StatusOf(s, t) = "blocked" /\ StartTask(requeued, requeued)
  <2>1. t \in TaskIds
    BY <1>1, <1>6 DEF StatusOf
  <2>2. Fit(R, requeued) /\ requeued.taskState.activeTaskId # NoTask
    BY <1>1, <2>1, OverridesFit, AutoRecoveredKeepsTask DEF TaskIds, NoTask
  <2>3. QED
    BY <1>6, <2>2, StartTaskKept
<1>7. CASE Unsaved(s, d, "refused") /\ evidence' = evidence
  BY <1>7, UnsavedKept, ReturnTypes
<1>8. QED
  BY <1>2, <1>3, <1>4, <1>5, <1>6, <1>7 DEF RunTask

LEMMA PickTaskKept ==
  ASSUME NEW R \in Resumptions,
         NEW s, Fit(R, s), NEW d, Fit(R, d), evidence \subseteq TaskIds, PickTask(s, d)
  PROVE  KeptIn(R)
<1> DEFINE first == FirstReadyTask(s)
           picked == InPhase(WithActiveTask(s, first), "planning")
<1>1. CASE first # NoTask /\ RunTask(picked, picked)
  <2>1. Fit(R, picked)
    BY <1>1, NextTaskTypes, PickedFit
  <2>2. QED
    BY <1>1, <2>1, RunTaskKept
<1>2. CASE RunTask(s, d)
  BY <1>2, RunTaskKept
<1>3. QED
  BY <1>1, <1>2 DEF PickTask

LEMMA ContinueTaskLoopKept ==
  ASSUME NEW R \in Resumptions,
         NEW s, Fit(R, s), NEW d, Fit(R, d), evidence \subseteq TaskIds, ContinueTaskLoop(s, d)
  PROVE  KeptIn(R)
<1> DEFINE resumed == Resumed(PointersFromLedger(s))
<1>1. PointersFromLedger(s) = s /\ s \in Session
  BY PointersAlready DEF Fit
<1>2. CASE Unsaved(s, d, "refused") /\ evidence' = evidence
  BY <1>2, UnsavedKept, ReturnTypes
<1>3. CASE s.state.phase = "paused" /\ PickTask(resumed, resumed)
  BY <1>1, <1>3, ResumedFit, PickTaskKept
<1>4. CASE PickTask(s, d)
  BY <1>4, PickTaskKept
<1>5. QED
  BY <1>1, <1>2, <1>3, <1>4 DEF ContinueTaskLoop

-----------------------------------------------------------------------------
(* The inductive invariant, and one step for each command.                     *)

\* A report has its verdict next to its path, in memory and on disk.
ReportsAreWhole == Reported(session) /\ Reported(disk)

\* The invariant, for what a paused run resumes into.  The phase table knows the
\* cancelled phase, no command enters it.
SafeIn(R) ==
  /\ TypeOK /\ PointersAgree /\ BlockedIsExplained /\ ReportsAreWhole
  /\ Going(R, session) /\ Going(R, disk)

Safe == SafeIn(WorkPhases)

LoopStates == [running : BOOLEAN, left : 0..MaxSteps, stopReason : StopReasons]

LEMMA SafeInMeans ==
  \A R \in Resumptions :
    SafeIn(R) <=> /\ session \in Session /\ Fit(R, session)
                  /\ disk \in Session /\ Fit(R, disk)
                  /\ loop \in LoopStates
                  /\ reply \in Replies
                  /\ evidence \subseteq TaskIds
  BY DEF SafeIn, TypeOK, PointersAgree, BlockedIsExplained, ReportsAreWhole, Fit, LoopStates,
     Replies

LEMMA KeptMeans ==
  \A R \in Resumptions : KeptIn(R) /\ loop' \in LoopStates => SafeIn(R)'
  BY DEF KeptIn, SafeIn, TypeOK, PointersAgree, BlockedIsExplained, ReportsAreWhole, Fit,
     LoopStates, Replies

LEMMA SafeMeans ==
  Safe <=> /\ session \in Session /\ Sound(session)
           /\ disk \in Session /\ Sound(disk)
           /\ loop \in LoopStates
           /\ reply \in Replies
           /\ evidence \subseteq TaskIds
  BY SafeInMeans, SoundIsFit, Resumption DEF Safe

LEMMA LoopTypes ==
  /\ \A n \in 0..MaxSteps : Running(n) \in LoopStates
  /\ \A r \in StopReasons : Stopped(r) \in LoopStates
  /\ NoLoop \in LoopStates
  /\ {"max_steps", "completed", "blocked", "no_progress", "threw"} \subseteq StopReasons
  BY CommandAssumption DEF Running, Stopped, NoLoop, LoopStates, StopReasons

LEMMA InitSafeIn == \A R \in Resumptions : Init => SafeIn(R)
<1> SUFFICES ASSUME NEW R \in Resumptions, Init PROVE SafeIn(R)
  OBVIOUS
<1>1. InitialSession \in Session /\ Fit(R, InitialSession)
  BY InitialFit DEF Fit
<1>2. QED
  BY <1>1, LoopTypes, ReturnTypes, SafeInMeans DEF Init

LEMMA GoalTypes == Goals \cup {EmptyRequest, NoGoal} = GoalSummaries
  BY DEF GoalSummaries

LEMMA PlanKept == \A R \in Resumptions : SafeIn(R) /\ Plan => KeptIn(R)
<1> SUFFICES ASSUME NEW R \in Resumptions, SafeIn(R), Plan PROVE KeptIn(R)
  OBVIOUS
<1>1. PICK goal \in Goals, longRunning \in BOOLEAN : Saved(Planned(session, goal, longRunning))
  BY DEF Plan
<1>2. Fit(R, Planned(session, goal, longRunning))
  BY SafeInMeans, GoalTypes, PlannedFit
<1>3. QED
  BY <1>1, <1>2, SavedKept DEF Plan

LEMMA ReviewKept == \A R \in Resumptions : SafeIn(R) /\ Review => KeptIn(R)
  BY SafeInMeans, ReviewedFit, SavedKept DEF Review

LEMMA AdvanceKept == \A R \in Resumptions : SafeIn(R) /\ AdvanceMilestone => KeptIn(R)
  BY SafeInMeans, AdvancedFit, SavedKept, UnsavedKept, ReturnTypes DEF AdvanceMilestone

LEMMA EnterWorkerValidatorKept ==
  \A R \in Resumptions : SafeIn(R) /\ EnterWorkerValidator => KeptIn(R)
  BY SafeInMeans, WorkerValidatorEnteredFit, SavedKept DEF EnterWorkerValidator

LEMMA OverrideKept ==
  \A R \in Resumptions :
    SafeIn(R) /\ (CompleteCurrentTask \/ BlockCurrentTask \/ UnblockCurrentTask) => KeptIn(R)
<1> SUFFICES ASSUME NEW R \in Resumptions, SafeIn(R),
                    CompleteCurrentTask \/ BlockCurrentTask \/ UnblockCurrentTask
             PROVE  KeptIn(R)
  OBVIOUS
<1> DEFINE t == session.taskState.activeTaskId
<1>1. session \in Session /\ Fit(R, session) /\ Fit(R, disk) /\ evidence \subseteq TaskIds
  BY SafeInMeans
<1>2. t \in TaskIds \cup {NoTask}
  BY <1>1 DEF Session, TaskState
<1>3. t # NoTask => /\ Fit(R, TaskDone(session, t))
                    /\ Fit(R, TaskBlocked(session, t))
                    /\ Fit(R, TaskUnblocked(session, t))
  BY <1>1, <1>2, OverridesFit
<1>4. /\ \/ t # NoTask /\ \E s : /\ s \in {TaskDone(session, t), TaskBlocked(session, t),
                                           TaskUnblocked(session, t)}
                                 /\ Saved(s)
         \/ Unsaved(session, disk, "refused")
      /\ evidence' = evidence
  BY DEF CompleteCurrentTask, BlockCurrentTask, UnblockCurrentTask, OnActiveTask
<1>5. QED
  BY <1>1, <1>3, <1>4, SavedKept, UnsavedKept, ReturnTypes

LEMMA ResumeKept == \A R \in Resumptions : SafeIn(R) /\ Resume => KeptIn(R)
  BY SafeInMeans, ResumedFit, SavedKept, UnsavedKept, ReturnTypes DEF Resume

LEMMA HandoffTypes ==
  /\ NoHandoff \in Handoffs
  /\ \A s \in Session : [goal |-> s.state.goalSummary] \in Handoffs
  BY DEF Handoffs, Session, RunState

LEMMA HandoffKept ==
  \A R \in Resumptions : SafeIn(R) /\ (CreateHandoff \/ ClearHandoff) => KeptIn(R)
  BY SafeInMeans, HandoffTypes, WithHandoffFit, SavedKept, UnsavedKept, ReturnTypes
     DEF CreateHandoff, ClearHandoff

LEMMA ResetKept == \A R \in Resumptions : SafeIn(R) /\ ResetSession => KeptIn(R)
  BY SafeInMeans, ResetFit, SavedKept, UnsavedKept, ReturnTypes DEF ResetSession

LEMMA RouteTypes ==
  \A mode \in Modes, c \in Classifications :
    /\ SelectedFlow(mode, c) \in Flows
    /\ NextPhase(mode, c) \in Phases \ {"paused", "cancelled"}
  BY DEF SelectedFlow, NextPhase, DefaultFlowForClass, DefaultPhaseForFlow, Flows, Phases

LEMMA HandleInputKept == \A R \in Resumptions : SafeIn(R) /\ HandleInput => KeptIn(R)
<1> SUFFICES ASSUME NEW R \in Resumptions, SafeIn(R), HandleInput PROVE KeptIn(R)
  OBVIOUS
<1>1. PICK slash \in BOOLEAN, mode \in Modes, c \in Classifications, text \in Goals :
        LET opened == IF slash THEN Reopened(session) ELSE Cleared(session)
            flow == SelectedFlow(mode, c)
            phase == NextPhase(mode, c)
            routed == WithFlow(opened, flow)
            planned == Planned(routed, IF c.empty THEN EmptyRequest ELSE text, flow = "milestone")
            entered == WithGoal(InPhase(routed, phase),
                                IF c.empty THEN routed.state.goalSummary ELSE text)
        IN  \/ /\ \E o \in {"refused", "invalid_transition"} : Unsaved(routed, disk, o)
               /\ evidence' = StillKnown(routed)
            \/ /\ Saved(IF flow = "worker_validator" THEN WithFlow(planned, flow) ELSE planned)
               /\ evidence' = {}
            \/ /\ Saved(IF phase = "implementing" /\ entered.state.activeTaskId = NoTask
                        THEN Started(WithActiveTask(entered, 1), 1) ELSE entered)
               /\ evidence' = StillKnown(routed)
  BY DEF HandleInput
<1> DEFINE opened == IF slash THEN Reopened(session) ELSE Cleared(session)
           flow == SelectedFlow(mode, c)
           phase == NextPhase(mode, c)
           routed == WithFlow(opened, flow)
           request == IF c.empty THEN EmptyRequest ELSE text
           planned == Planned(routed, request, flow = "milestone")
           goal == IF c.empty THEN routed.state.goalSummary ELSE text
           moved == InPhase(routed, phase)
           entered == WithGoal(moved, goal)
           onTask == WithActiveTask(entered, 1)
<1>2. session \in Session /\ Fit(R, session) /\ Fit(R, disk) /\ evidence \subseteq TaskIds
  BY SafeInMeans
<1>3. flow \in Flows /\ phase \in Phases \ {"paused", "cancelled"}
  BY RouteTypes
<1>4. opened \in Session /\ Fit(R, opened)
  BY <1>2, ReopenedFit, ClearedFit DEF Fit
<1> HIDE DEF opened, flow, phase
<1>5. routed \in Session /\ Fit(R, routed)
  BY <1>3, <1>4, WithFlowFit DEF Fit
<1>6. request \in GoalSummaries /\ goal \in GoalSummaries
  BY <1>5, GoalTypes DEF Session, RunState
<1> HIDE DEF routed, request, goal
<1>7. planned \in Session /\ Fit(R, planned)
  BY <1>5, <1>6, PlannedFit DEF Fit
<1>8. Fit(R, WithFlow(planned, flow))
  BY <1>3, <1>7, WithFlowFit
<1>9. moved \in Session /\ Fit(R, moved)
  BY <1>3, <1>5, InPhaseFit DEF Fit
<1>10. entered \in Session /\ Fit(R, entered)
  BY <1>6, <1>9, WithGoalFit DEF Fit
<1>11. onTask \in Session /\ Fit(R, onTask)
  BY <1>10, WithActiveTaskFit, Values DEF Fit
<1>12. Fit(R, Started(onTask, 1))
  BY <1>11, StartedFit, Values
<1> HIDE DEF planned, entered, onTask
<1>13. \/ /\ \E o \in {"refused", "invalid_transition"} : Unsaved(routed, disk, o)
          /\ evidence' = StillKnown(routed)
       \/ /\ Saved(IF flow = "worker_validator" THEN WithFlow(planned, flow) ELSE planned)
          /\ evidence' = {}
       \/ /\ \E s \in {Started(onTask, 1), entered} : Saved(s)
          /\ evidence' = StillKnown(routed)
  BY <1>1 DEF opened, flow, phase, routed, request, goal, planned, entered, onTask
<1>14. QED
  BY <1>2, <1>5, <1>7, <1>8, <1>10, <1>12, <1>13,
     StillKnownType, SavedKept, UnsavedKept, ReturnTypes

LEMMA CommandsKept ==
  \A R \in Resumptions :
    /\ SafeIn(R) /\ VerifyCommand => KeptIn(R)
    /\ SafeIn(R) /\ Continue => KeptIn(R)
    /\ SafeIn(R) /\ ExecuteCurrentTask => KeptIn(R)
    /\ SafeIn(R) /\ Create => KeptIn(R)
<1> SUFFICES ASSUME NEW R \in Resumptions, SafeIn(R)
             PROVE  /\ VerifyCommand => KeptIn(R)
                    /\ Continue => KeptIn(R)
                    /\ ExecuteCurrentTask => KeptIn(R)
                    /\ Create => KeptIn(R)
  OBVIOUS
<1>1. VerifyCommand => KeptIn(R)
  BY SafeInMeans, VerifyKept DEF VerifyCommand
<1>2. Continue => KeptIn(R)
  BY SafeInMeans, ContinueTaskLoopKept DEF Continue
<1>3. ExecuteCurrentTask => KeptIn(R)
  BY SafeInMeans, ExecuteKept DEF ExecuteCurrentTask
<1>4. Create => KeptIn(R)
  BY SafeInMeans, LoadedFit, FitIsHalved, SavedKept DEF Create
<1>5. QED
  BY <1>1, <1>2, <1>3, <1>4

\* A loop that starts runs nothing yet.
LEMMA UnchangedKept ==
  ASSUME NEW R \in Resumptions, SafeIn(R), session' = session, disk' = disk,
         evidence' = evidence, reply' = Replied("none")
  PROVE  KeptIn(R)
  BY SafeInMeans, ReturnTypes DEF KeptIn, Replied

LEMMA LoopStartKept ==
  \A R \in Resumptions :
    SafeIn(R) /\ RunCompletionLoop => KeptIn(R) /\ loop' \in LoopStates
  BY UnchangedKept, LoopTypes, CommandAssumption DEF RunCompletionLoop

LEMMA LoopStopSafe == \A R \in Resumptions : SafeIn(R) /\ LoopStop => SafeIn(R)'
<1> SUFFICES ASSUME NEW R \in Resumptions, SafeIn(R), LoopStop PROVE SafeIn(R)'
  OBVIOUS
<1>1. session' = session /\ disk' = disk /\ reply' = reply /\ evidence' = evidence
      /\ loop' \in LoopStates
  BY LoopTypes DEF LoopStop
<1>2. QED
  BY <1>1 DEF SafeIn, TypeOK, PointersAgree, BlockedIsExplained, ReportsAreWhole, LoopStates

LEMMA LoopStepKept ==
  \A R \in Resumptions : SafeIn(R) /\ LoopStep => KeptIn(R) /\ loop' \in LoopStates
<1> SUFFICES ASSUME NEW R \in Resumptions, SafeIn(R), LoopStep
             PROVE  KeptIn(R) /\ loop' \in LoopStates
  OBVIOUS
<1>1. KeptIn(R)
  BY SafeInMeans, ContinueTaskLoopKept DEF LoopStep
<1>2. loop \in LoopStates /\ loop.left > 0
  BY SafeInMeans DEF LoopStep
<1>3. loop.left - 1 \in 0..MaxSteps
  BY <1>2, CommandAssumption DEF LoopStates
<1>4. \/ \E r \in StopReasons : loop' = Stopped(r)
      \/ loop' = loop
      \/ loop' = Running(loop.left - 1)
  BY LoopTypes DEF LoopStep
<1>5. QED
  BY <1>1, <1>2, <1>3, <1>4, LoopTypes

LEMMA RunAutoKept ==
  \A R \in Resumptions : SafeIn(R) /\ RunAuto => KeptIn(R) /\ loop' \in LoopStates
<1> SUFFICES ASSUME NEW R \in Resumptions, SafeIn(R), RunAuto
             PROVE  KeptIn(R) /\ loop' \in LoopStates
  OBVIOUS
<1>1. PICK goal \in Goals \cup {NoGoal}, maxSteps \in 1..MaxSteps :
        \/ Unsaved(session, disk, "refused") /\ UNCHANGED <<loop, evidence>>
        \/ Saved(Planned(session, goal, TRUE)) /\ loop' = Running(maxSteps) /\ evidence' = {}
        \/ /\ loop' = Running(maxSteps) /\ reply' = Replied("none")
           /\ UNCHANGED <<session, disk, evidence>>
  BY DEF RunAuto
<1>2. session \in Session /\ Fit(R, session) /\ Fit(R, disk) /\ evidence \subseteq TaskIds
      /\ loop \in LoopStates
  BY SafeInMeans
<1>3. Fit(R, Planned(session, goal, TRUE))
  BY <1>2, GoalTypes, PlannedFit
<1>4. maxSteps \in 0..MaxSteps
  BY CommandAssumption
<1>5. loop' \in LoopStates
  BY <1>1, <1>2, <1>4, LoopTypes
<1>6. KeptIn(R)
  BY <1>1, <1>2, <1>3, SavedKept, UnsavedKept, UnchangedKept, ReturnTypes
<1>7. QED
  BY <1>5, <1>6

\* Every command returns as KeptIn says; the end of a loop returns nothing new.
LEMMA CommandKept ==
  ASSUME NEW R \in Resumptions, SafeIn(R), Command
  PROVE  LoopStop \/ (KeptIn(R) /\ loop' \in LoopStates)
<1>1. loop \in LoopStates
  BY SafeInMeans
<1>2. CASE Plan
  BY <1>1, <1>2, PlanKept DEF Plan
<1>3. CASE VerifyCommand
  BY <1>1, <1>3, CommandsKept DEF VerifyCommand
<1>4. CASE Review
  BY <1>1, <1>4, ReviewKept DEF Review
<1>5. CASE AdvanceMilestone
  BY <1>1, <1>5, AdvanceKept DEF AdvanceMilestone
<1>6. CASE Continue
  BY <1>1, <1>6, CommandsKept DEF Continue
<1>7. CASE ExecuteCurrentTask
  BY <1>1, <1>7, CommandsKept DEF ExecuteCurrentTask
<1>8. CASE EnterWorkerValidator
  BY <1>1, <1>8, EnterWorkerValidatorKept DEF EnterWorkerValidator
<1>9. CASE CompleteCurrentTask \/ BlockCurrentTask \/ UnblockCurrentTask
  <2>1. loop' = loop
    BY <1>9 DEF CompleteCurrentTask, BlockCurrentTask, UnblockCurrentTask, OnActiveTask
  <2>2. QED
    BY <1>1, <1>9, <2>1, OverrideKept
<1>10. CASE Resume
  BY <1>1, <1>10, ResumeKept DEF Resume
<1>11. CASE CreateHandoff \/ ClearHandoff
  <2>1. loop' = loop
    BY <1>11 DEF CreateHandoff, ClearHandoff
  <2>2. QED
    BY <1>1, <1>11, <2>1, HandoffKept
<1>12. CASE ResetSession
  BY <1>1, <1>12, ResetKept DEF ResetSession
<1>13. CASE HandleInput
  <2>1. loop' = loop
    BY <1>13 DEF HandleInput
  <2>2. QED
    BY <1>1, <1>13, <2>1, HandleInputKept
<1>14. CASE RunCompletionLoop \/ LoopStep \/ RunAuto
  BY <1>14, LoopStartKept, LoopStepKept, RunAutoKept
<1>15. QED
  BY <1>2, <1>3, <1>4, <1>5, <1>6, <1>7, <1>8, <1>9, <1>10, <1>11, <1>12, <1>13, <1>14
     DEF Command

LEMMA CommandSafeIn == \A R \in Resumptions : SafeIn(R) /\ Command => SafeIn(R)'
  BY CommandKept, LoopStopSafe, KeptMeans

\* Every command keeps the invariant, and so does a new process.
LEMMA NextSafeIn == \A R \in Resumptions : SafeIn(R) /\ [Next]_vars => SafeIn(R)'
<1> SUFFICES ASSUME NEW R \in Resumptions, SafeIn(R), [Next]_vars PROVE SafeIn(R)'
  OBVIOUS
<1>1. CASE Command
  BY <1>1, CommandSafeIn
<1>2. CASE Create
  BY <1>2, CommandsKept, LoopTypes, KeptMeans DEF Create
<1>3. CASE UNCHANGED vars
  BY <1>3 DEF vars, SafeIn, TypeOK, PointersAgree, BlockedIsExplained, ReportsAreWhole
<1>4. QED
  BY <1>1, <1>2, <1>3 DEF Next

LEMMA InitSafe == Init => Safe
  BY InitSafeIn, Resumption DEF Safe

LEMMA NextSafe == Safe /\ [Next]_vars => Safe'
  BY NextSafeIn, Resumption DEF Safe

LEMMA SpecSafe == Spec => []Safe
  BY InitSafe, NextSafe, PTL DEF Spec

\* Memory, files, loop and reply always hold values of their types.  That the
\* fallback task T<index + 2> of advanceMilestone exists is the one place where
\* this rests on more than the assignments: a plan has no fewer tasks than
\* milestones.
THEOREM TypeCorrect == Spec => []TypeOK
<1>1. Safe => TypeOK
  BY DEF Safe, SafeIn
<1>2. QED
  BY <1>1, SpecSafe, PTL

\* The run state and the ledger agree on active task, active milestone, verdict, report
\* and handoff after every command, whatever failed, and after every restart.
THEOREM PointersAlwaysAgree == Spec => []PointersAgree
<1>1. Safe => PointersAgree
  BY DEF Safe, SafeIn
<1>2. QED
  BY <1>1, SpecSafe, PTL

\* A paused run always knows a phase of work to resume into, so that resume
\* never throws.
THEOREM PausedAlwaysResumable == Spec => []PausedIsResumable
<1>1. Safe => PausedIsResumable
  BY DEF Safe, SafeIn, Going, PausedIsResumable, Resumable, WorkPhases
<1>2. QED
  BY <1>1, SpecSafe, PTL

\* A blocked task has a blocker of its own, whoever blocked it: the operator, its
\* worker, a check, or a new process that found the blocker in one file only.
THEOREM BlockedAlwaysExplained == Spec => []BlockedIsExplained
<1>1. Safe => BlockedIsExplained
  BY DEF Safe, SafeIn
<1>2. QED
  BY <1>1, SpecSafe, PTL

-----------------------------------------------------------------------------
(* A new process finds the run that the last completed command left.          *)
(* reconcileSession has copies to choose from, and verdicts and blockers to    *)
(* infer; on halves that agree, with a report that has a verdict, every choice *)
(* returns what was there.                                                     *)

\* The parts of a session that CreateIsTransparent compares, and the flow, the plan and
\* the report that go with them.
SameRun(s, r) ==
  /\ r.state.phase = s.state.phase
  /\ r.state.currentFlow = s.state.currentFlow
  /\ r.state.activePlanPath = s.state.activePlanPath
  /\ r.state.lastVerificationPath = s.state.lastVerificationPath
  /\ s.state.activeTaskId = NoTask =>
       r.taskState.activeMilestoneId = s.taskState.activeMilestoneId
  /\ r.taskState.tasks = s.taskState.tasks
  /\ r.taskState.milestones = s.taskState.milestones
  /\ r.state.activeTaskId = s.state.activeTaskId
  /\ r.state.lastVerificationStatus = s.state.lastVerificationStatus

\* Copying what the halves agree on into both of them.
LEMMA AgreedSame ==
  ASSUME NEW s \in Session, Sound(s), NEW m \in MilestoneIds \cup {NoMilestone},
         NEW path \in BOOLEAN, NEW handoff \in Handoffs,
         s.state.activeTaskId = NoTask => m = s.taskState.activeMilestoneId,
         path = s.state.lastVerificationPath,
         path => s.state.lastVerificationStatus # "none"
  PROVE  SameRun(s, Agreed(s, s.state.activeTaskId, m, s.state.lastVerificationStatus,
                           path, handoff))
<1> DEFINE t == s.state.activeTaskId
           v == s.state.lastVerificationStatus
           onTask == WithActiveTask(s, t)
           onMilestone == WithMilestone(onTask, m)
           reported == WithReport(onMilestone, v, path)
<1>1. t \in TaskIds \cup {NoTask} /\ v \in VerificationStatuses
  BY DEF Session, RunState
<1>2. onTask \in Session /\ Sound(onTask) /\ SameRun(s, onTask)
  BY <1>1, WithActiveTaskSound DEF Sound, SameRun, WithActiveTask, Session, RunState, TaskState
<1>3. /\ onTask.state.activeTaskId = NoTask => m = onTask.taskState.activeMilestoneId
      /\ onTask.state.activeTaskId = s.state.activeTaskId
  BY <1>2 DEF SameRun
<1> HIDE DEF onTask, t
<1>4. onMilestone \in Session /\ Sound(onMilestone)
  BY <1>2, WithMilestoneSound DEF Sound
<1>5. SameRun(onTask, onMilestone)
  BY <1>2, <1>3 DEF SameRun, WithMilestone, Session, RunState, TaskState
<1> HIDE DEF onMilestone
<1>6. reported \in Session /\ Sound(reported)
  BY <1>1, <1>4, WithReportSound DEF Sound
<1>7. SameRun(s, reported)
  BY <1>2, <1>4, <1>5 DEF SameRun, WithReport, Session, RunState, TaskState
<1> HIDE DEF reported, v
<1>8. SameRun(reported, WithHandoff(reported, handoff))
  BY <1>6 DEF SameRun, WithHandoff, Session, RunState, TaskState
<1>9. QED
  BY <1>7, <1>8 DEF SameRun, Agreed, onTask, onMilestone, reported, t, v

\* Blockers are told and dropped, statuses are not touched.
LEMMA WithKnownBlockerSame ==
  ASSUME NEW s \in Session, NEW t
  PROVE  SameRun(s, WithKnownBlocker(s, t))
<1>1. \A b : /\ SameRun(s, WithBlocker(s, b))
             /\ SameRun(s, WithTaskBlocker(s, t, b))
             /\ SameRun(s, WithHint(WithTaskBlocker(WithBlocker(s, b), t, b), t, b))
  BY DEF SameRun, WithBlocker, WithTaskBlocker, WithHint, Session, RunState, TaskState
<1>2. SameRun(s, s)
  BY DEF SameRun
<1>3. QED
  BY <1>1, <1>2 DEF WithKnownBlocker

LEMMA HydratedSame ==
  ASSUME NEW s \in Session
  PROVE  SameRun(s, Hydrated(s))
  BY DEF SameRun, Hydrated, Session, TaskState

LEMMA ReconciledSame ==
  ASSUME NEW s \in Session, Sound(s)
  PROVE  Reconciled(s) \in Session /\ SameRun(s, Reconciled(s))
<1> DEFINE t == ActiveTask(s)
           tag == IF t = NoTask THEN NoMilestone ELSE s.taskState.taskMilestones[t]
           m == OrElse(tag, OrElse(s.taskState.activeMilestoneId, s.state.activeMilestoneId))
           path == s.state.lastVerificationPath \/ s.taskState.lastVerificationPath
           recorded == IF s.state.lastVerificationStatus # "none"
                       THEN s.state.lastVerificationStatus ELSE s.taskState.lastVerificationStatus
           verdict == IF recorded = "none" /\ path THEN InferredVerdict(StatusOf(s, t)) ELSE recorded
           handoff == IF s.state.lastHandoffPath # NoHandoff
                      THEN s.state.lastHandoffPath ELSE s.taskState.lastHandoffPath
           agreed == Agreed(s, t, m, verdict, path, handoff)
<1>1. t = s.state.activeTaskId /\ t \in TaskIds \cup {NoTask}
  BY DEF ActiveTask, OrElse, Sound, Agree, Session, RunState
<1>2. verdict = s.state.lastVerificationStatus /\ path = s.state.lastVerificationPath
      /\ (path => verdict # "none")
  BY DEF Sound, Agree, Reported, Session, RunState, TaskState
<1>3. verdict \in VerificationStatuses /\ path \in BOOLEAN /\ handoff \in Handoffs
  BY <1>2 DEF Session, RunState, TaskState
<1>4. /\ m \in MilestoneIds \cup {NoMilestone}
      /\ s.state.activeTaskId = NoTask => m = s.taskState.activeMilestoneId
  BY <1>1 DEF OrElse, Sound, Agree, Session, TaskState, RunState, NoMilestone
<1>5. Reconciled(s) = WithKnownBlocker(agreed, t)
  BY DEF Reconciled
<1> HIDE DEF t, m, path, verdict, handoff
<1>6. agreed \in Session /\ SameRun(s, agreed)
  BY <1>1, <1>2, <1>3, <1>4, AgreedSound, AgreedSame DEF Sound
<1> HIDE DEF agreed
<1>7. SameRun(agreed, Reconciled(s))
  BY <1>5, <1>6, WithKnownBlockerSame
<1>8. QED
  BY <1>6, <1>7, ReconciledSound DEF SameRun, Sound

LEMMA LoadedSame ==
  ASSUME NEW s \in Session, Sound(s)
  PROVE  SameRun(s, Loaded(s))
  BY ReconciledSame, HydratedSame DEF Loaded, SameRun

-----------------------------------------------------------------------------

\* HarnessRuntime.create continues a run whose last command persisted: phase, task
\* and milestone statuses, active task and verdict are what they were, whatever the
\* ledger's tags and blockers say.
THEOREM RestartsAreTransparent == Spec => CreateIsTransparent
<1> DEFINE Same ==
      Create /\ session = disk =>
        /\ session'.state.phase = session.state.phase
        /\ session'.taskState.tasks = session.taskState.tasks
        /\ session'.taskState.milestones = session.taskState.milestones
        /\ session'.state.activeTaskId = session.state.activeTaskId
        /\ session'.state.lastVerificationStatus = session.state.lastVerificationStatus
<1>1. Safe => [Same]_vars
  <2> SUFFICES ASSUME Safe, Create, session = disk
               PROVE  Same
    OBVIOUS
  <2>1. session \in Session /\ Sound(session)
    BY SafeMeans
  <2>2. session' = Loaded(session)
    BY DEF Create, Saved, Return
  <2>3. QED
    BY <2>1, <2>2, LoadedSame DEF SameRun
<1>2. QED
  BY <1>1, SpecSafe, PTL DEF CreateIsTransparent
=============================================================================
