----------------------------- MODULE LoopProofs -----------------------------
(***************************************************************************)
(* What continueTaskLoop, review and the operator's block, unblock, resume  *)
(* and reset can rely on, for every plan, every outcome of a worker and any *)
(* number of restarts.  Ordered says which status the active task has in    *)
(* which phase and that nothing else is at work; the disk may be behind the *)
(* memory by an execution that threw; and what is validated is in evidence. *)
(* The theorems are at the end.                                            *)
(***************************************************************************)
EXTENDS StatusViews, HarnessRuntimeProofs

\* The phases in which the active task can have each status.
PhaseFits(s) ==
  LET phase == s.state.phase
      status == ActiveStatus(s)
  IN  /\ phase = "idle" => \A t \in TaskIds : s.taskState.tasks[t] = "absent"
      /\ status = "absent" => phase \in {"idle", "completed"} /\ Active(s) = NoTask
      /\ status \in {"todo", "blocked"} => phase \in {"planning", "paused", "implementing"}
      /\ status = "in_progress" => phase \in {"planning", "implementing", "verifying"}
      /\ status = "validated" => PassedReview(s)
      /\ status = "done" =>
           \/ phase = "completed"
           \/ phase \in {"planning", "paused", "implementing"} /\ CanAdvance(s)

\* Blockers and recovery hints are those of blocked tasks.
NotedWhenBlocked(s) ==
  \A t \in TaskIds :
    s.taskState.tasks[t] # "blocked" =>
      s.taskState.taskBlockers[t] = "none" /\ s.taskState.taskRecoveryHints[t] = "none"

\* The run waits for the milestones its next milestone depends on.
Waits(s) ==
  LET m == s.taskState.activeMilestoneId
  IN  /\ s.state.phase = "paused" /\ ActiveStatus(s) = "done"
      /\ NextTodoTask(s, Active(s)) = NoTask /\ NextPendingTask(s, Active(s)) = NoTask
      /\ s.taskState.milestones[m] = "done"
      /\ NextMilestone(s, m) # NoMilestone
      /\ UnsatisfiedMilestoneDependencies(s, NextMilestone(s, m)) # {}

\* The run's blocker is that of its active task, or such a wait.
BlockerFits(s) ==
  s.state.blocker # "none" =>
    \/ /\ ActiveStatus(s) = "blocked"
       /\ s.taskState.taskBlockers[Active(s)] = s.state.blocker
    \/ Waits(s)

\* A run with a task is in a flow with tasks; one in the milestone flow has its
\* milestones in the ledger.
Staged(s) ==
  /\ Active(s) # NoTask => s.state.currentFlow # "auto"
  /\ \/ \A m \in MilestoneIds : s.taskState.milestones[m] # "absent"
     \/ /\ s.state.currentFlow # "milestone"
        /\ \A m \in MilestoneIds : s.taskState.milestones[m] = "absent"

Ordered(s) ==
  OneAtWork(s) /\ PhaseFits(s) /\ NotedWhenBlocked(s) /\ BlockerFits(s) /\ Staged(s)

\* The disk knows of every task what the memory knows, or still has it queued: the
\* command that took it up threw before it saved.
Behind(s, d) ==
  \A t \in TaskIds : d.taskState.tasks[t] \in {s.taskState.tasks[t], "todo", "blocked"}

\* What is validated has a passing report made after its last execution.
Covered(s, tasks) == \A t \in TaskIds : s.taskState.tasks[t] = "validated" => t \in tasks

-----------------------------------------------------------------------------
(* One step's effect on the tasks, and what it leaves alone. *)

\* Of the tasks, r differs from s in t only.
OnlyTouches(s, r, t) ==
  \A u \in TaskIds \ {t} :
    /\ r.taskState.tasks[u] = s.taskState.tasks[u]
    /\ r.taskState.taskBlockers[u] = s.taskState.taskBlockers[u]
    /\ r.taskState.taskRecoveryHints[u] = s.taskState.taskRecoveryHints[u]

\* The run is on the same task and milestone of the same plan, in the same flow.
SamePlace(s, r) ==
  /\ r.taskState.planned = s.taskState.planned
  /\ r.state.currentFlow = s.state.currentFlow
  /\ r.taskState.activeTaskId = s.taskState.activeTaskId
  /\ r.taskState.activeMilestoneId = s.taskState.activeMilestoneId
  /\ r.taskState.milestones = s.taskState.milestones
  /\ r.taskState.taskMilestones = s.taskState.taskMilestones

\* A step that touches the active task alone keeps Ordered when phase and blocker fit.
LEMMA TouchedOrdered ==
  ASSUME NEW s \in Session, Ordered(s), NEW r \in Session, NEW t \in TaskIds, t = Active(s),
         OnlyTouches(s, r, t), SamePlace(s, r), PhaseFits(r),
         r.taskState.tasks[t] # "blocked" => /\ r.taskState.taskBlockers[t] = "none"
                                             /\ r.taskState.taskRecoveryHints[t] = "none"
                                             /\ r.state.blocker = "none",
         r.taskState.tasks[t] = "blocked" => r.state.blocker \in {"none", r.taskState.taskBlockers[t]}
  PROVE  Ordered(r)
<1>1. t # NoTask /\ Active(r) = t
  BY DEF SamePlace, Active, TaskIds, NoTask
<1>2. OneAtWork(r)
  BY <1>1 DEF Ordered, OneAtWork, OnlyTouches
<1>3. NotedWhenBlocked(r)
  BY DEF Ordered, NotedWhenBlocked, OnlyTouches
<1>4. BlockerFits(r)
  BY <1>1 DEF BlockerFits, ActiveStatus, StatusOf
<1>5. Staged(r)
  BY <1>1 DEF Ordered, Staged, SamePlace, Active
<1>6. QED
  BY <1>2, <1>3, <1>4, <1>5 DEF Ordered

\* What the operators of HarnessSession leave alone.
LEMMA MarkedEffect ==
  ASSUME NEW s \in Session, NEW t \in TaskIds, NEW v \in TaskStatuses, NEW b \in Blockers, NEW h \in Hints
  PROVE  LET r == Marked(s, t, v, b, h)
         IN /\ OnlyTouches(s, r, t) /\ SamePlace(s, r)
            /\ r.taskState.tasks[t] = v /\ r.taskState.taskBlockers[t] = b
            /\ r.taskState.taskRecoveryHints[t] = h /\ r.state.blocker = b
            /\ r.state.phase = s.state.phase
  BY DEF Marked, WithHint, WithTaskBlocker, WithStatus, WithBlocker, OnlyTouches, SamePlace, Session, RunState, TaskState

LEMMA EnteredEffect ==
  ASSUME NEW s \in Session, NEW p, NEW q, NEW t
  PROVE  LET r == Entered(s, p, q)
         IN /\ OnlyTouches(s, r, t) /\ SamePlace(s, r)
            /\ r.taskState.tasks = s.taskState.tasks 
            /\ r.taskState.taskBlockers = s.taskState.taskBlockers
            /\ r.taskState.taskRecoveryHints = s.taskState.taskRecoveryHints
            /\ r.state.blocker = s.state.blocker
            /\ r.state.phase = p
  BY DEF Entered, OnlyTouches, SamePlace, Session, RunState, TaskState

\* What Ordered looks at.
SameView(s, r) ==
  /\ SamePlace(s, r)
  /\ r.state.phase = s.state.phase
  /\ r.state.blocker = s.state.blocker
  /\ r.state.lastVerificationStatus = s.state.lastVerificationStatus
  /\ r.state.lastVerificationPath = s.state.lastVerificationPath
  /\ r.taskState.tasks = s.taskState.tasks
  /\ r.taskState.taskBlockers = s.taskState.taskBlockers
  /\ r.taskState.taskRecoveryHints = s.taskState.taskRecoveryHints

\* A session that looks the same is as good.
LEMMA SameViewOrdered ==
  ASSUME NEW s \in Session, NEW r \in Session, Ordered(s), SameView(s, r)
  PROVE  Ordered(r)
<1>1. /\ Active(r) = Active(s) /\ ActiveStatus(r) = ActiveStatus(s)
      /\ OpenTasks(r) = OpenTasks(s) /\ Milestones(r) = Milestones(s)
      /\ \A m : UnsatisfiedMilestoneDependencies(r, m) = UnsatisfiedMilestoneDependencies(s, m)
      /\ \A t : UnsatisfiedDependencies(r, t) = UnsatisfiedDependencies(s, t)
  BY DEF SameView, SamePlace, Active, ActiveStatus, StatusOf, OpenTasks, Milestones,
     UnsatisfiedMilestoneDependencies, UnsatisfiedDependencies
<1>2. /\ NextTodoTask(r, Active(r)) = NextTodoTask(s, Active(s))
       /\ NextPendingTask(r, Active(r)) = NextPendingTask(s, Active(s))
  BY <1>1 DEF NextTodoTask, NextPendingTask, Ready
<1>3. \A m : NextMilestone(r, m) = NextMilestone(s, m)
  BY <1>1 DEF NextMilestone
<1>4. PassedReview(r) <=> PassedReview(s)
  BY DEF PassedReview, SameView
<1>5. CanAdvance(r) <=> CanAdvance(s)
  BY <1>1 DEF CanAdvance, SameView, SamePlace
<1>6. OneAtWork(r) /\ NotedWhenBlocked(r) /\ Staged(r)
  BY <1>1 DEF Ordered, OneAtWork, NotedWhenBlocked, Staged, SameView, SamePlace
<1>7. PhaseFits(r)
  BY <1>1, <1>4, <1>5 DEF Ordered, PhaseFits, SameView
<1>8. Waits(s) => Waits(r)
  BY <1>1, <1>3, <1>2 DEF Waits, SameView, SamePlace
<1>9. BlockerFits(r)
  BY <1>1, <1>8 DEF Ordered, BlockerFits, SameView
<1>10. QED
  BY <1>6, <1>7, <1>9 DEF Ordered

LEMMA HandoffOrdered ==
  ASSUME NEW s \in Session, Sound(s), Ordered(s), NEW h \in Handoffs
  PROVE  Ordered(WithHandoff(s, h)) /\ SameView(s, WithHandoff(s, h))
<1>1. WithHandoff(s, h) \in Session
  BY WithHandoffSound DEF Sound
<1>2. SameView(s, WithHandoff(s, h))
  BY DEF WithHandoff, SameView, SamePlace, Session, RunState, TaskState
<1>3. QED
  BY <1>1, <1>2, SameViewOrdered

\* The session goes on from the same place, in another phase, without a blocker.
SameWork(s, r) ==
  /\ SamePlace(s, r)
  /\ r.taskState.tasks = s.taskState.tasks
  /\ r.taskState.taskBlockers = s.taskState.taskBlockers
  /\ r.taskState.taskRecoveryHints = s.taskState.taskRecoveryHints

\* resume, from the command or from continueTaskLoop.
LEMMA ResumedOrdered ==
  ASSUME NEW s \in Session, Sound(s), Ordered(s), s.state.phase = "paused"
  PROVE  /\ Ordered(Resumed(s)) /\ SameWork(s, Resumed(s))
         /\ Resumed(s).state.phase \in {"planning", "implementing"}
         /\ Resumed(s).state.blocker = "none"
<1> DEFINE r == Resumed(s)
<1>1. ResumeTarget(s) \in {"planning", "implementing"}
  BY DEF ResumeTarget, Sound, Live, Resumable
<1>2. /\ SameWork(s, r)
      /\ r.state.phase = ResumeTarget(s)
      /\ r.state.blocker = "none"
  BY DEF Resumed, WithBlocker, Entered, SameWork, SamePlace, Session, RunState, TaskState
<1>3. r \in Session
  BY ResumedSound DEF Sound
<1> HIDE DEF r
<1>4. Active(r) = Active(s) /\ ActiveStatus(r) = ActiveStatus(s)
      /\ (CanAdvance(s) => CanAdvance(r))
  BY <1>2 DEF SameWork, SamePlace, Active, ActiveStatus, StatusOf, CanAdvance, Milestones
<1>5. ActiveStatus(s) \notin {"absent", "validated"}
  BY DEF Ordered, PhaseFits, PassedReview
<1>6. ActiveStatus(s) # "in_progress"
  BY DEF Ordered, PhaseFits
<1>7. PhaseFits(r)
  BY <1>1, <1>2, <1>4, <1>5, <1>6 DEF Ordered, PhaseFits
<1>8. OneAtWork(r) /\ NotedWhenBlocked(r) /\ Staged(r) /\ BlockerFits(r)
  BY <1>2, <1>4 DEF Ordered, OneAtWork, NotedWhenBlocked, Staged, BlockerFits, SameWork, SamePlace
<1>9. QED
  BY <1>1, <1>2, <1>7, <1>8 DEF Ordered, r

\* Nobody is at work, and the run turns to a task that is queued.
LEMMA TurnedOrdered ==
  ASSUME NEW s \in Session, Ordered(s), Active(s) # NoTask, ActiveStatus(s) \in {"todo", "done"},
         NEW r \in Session, NEW t \in TaskIds, s.taskState.tasks[t] = "todo",
         r.taskState.activeTaskId = t,
         r.taskState.tasks = s.taskState.tasks,
         r.taskState.taskBlockers = s.taskState.taskBlockers,
         r.taskState.taskRecoveryHints = s.taskState.taskRecoveryHints,
         r.taskState.milestones = s.taskState.milestones,
         r.state.currentFlow = s.state.currentFlow,
         r.state.phase \in {"planning", "paused"}, r.state.blocker = "none"
  PROVE  Ordered(r)
<1>1. \A u \in TaskIds : s.taskState.tasks[u] \notin InWork
  BY DEF Ordered, OneAtWork, ActiveStatus, StatusOf, InWork
<1>2. Active(r) = t /\ ActiveStatus(r) = "todo"
  BY DEF Active, ActiveStatus, StatusOf, TaskIds, NoTask
<1>3. OneAtWork(r) /\ PhaseFits(r) /\ NotedWhenBlocked(r) /\ BlockerFits(r) /\ Staged(r)
  BY <1>1, <1>2 DEF Ordered, OneAtWork, PhaseFits, NotedWhenBlocked, BlockerFits, Staged
<1>4. QED
  BY <1>3 DEF Ordered

\* A queued task carries nothing that would keep a worker from it.
LEMMA QueuedIsClean ==
  ASSUME NEW s \in Session, Ordered(s), NEW t \in TaskIds, t = Active(s),
         s.taskState.tasks[t] \in {"todo", "in_progress", "validated"}
  PROVE  /\ t # NoTask /\ ActiveStatus(s) = s.taskState.tasks[t]
         /\ s.state.blocker = "none"
         /\ s.taskState.taskBlockers[t] = "none" /\ s.taskState.taskRecoveryHints[t] = "none"
         /\ s.state.currentFlow # "auto"
<1>1. t # NoTask
  BY DEF TaskIds, NoTask
<1>2. ActiveStatus(s) = s.taskState.tasks[t]
  BY <1>1 DEF ActiveStatus, StatusOf
<1>3. ~Waits(s)
  BY <1>2 DEF Waits
<1>4. QED
  BY <1>1, <1>2, <1>3 DEF Ordered, NotedWhenBlocked, BlockerFits, Staged

LEMMA PausedOnOrdered ==
  ASSUME NEW s \in Session, Sound(s), Ordered(s), NEW t \in TaskIds,
         s.taskState.tasks[t] = "todo", s.state.blocker = "none",
         Active(s) # NoTask, ActiveStatus(s) \in {"todo", "done"}
  PROVE  /\ Ordered(PausedOn(s, t))
         /\ Ordered(InPhase(WithActiveTask(s, t), "planning"))
<1> DEFINE p == PausedOn(s, t)
           r == InPhase(WithActiveTask(s, t), "planning")
           Turned(q) == /\ q.taskState.activeTaskId = t
                        /\ q.taskState.tasks = s.taskState.tasks
                        /\ q.taskState.taskBlockers = s.taskState.taskBlockers
                        /\ q.taskState.taskRecoveryHints = s.taskState.taskRecoveryHints
                        /\ q.taskState.milestones = s.taskState.milestones
                        /\ q.state.currentFlow = s.state.currentFlow
                        /\ q.state.blocker = "none"
<1>1. p \in Session /\ r \in Session
  BY PausedOnSound, PickedSound DEF Sound
<1>2. Turned(p) /\ p.state.phase = "paused"
  BY DEF PausedOn, Entered, WithActiveTask, Session, RunState, TaskState
<1>3. Turned(r) /\ r.state.phase = "planning"
  BY DEF InPhase, WithActiveTask, Session, RunState, TaskState
<1> HIDE DEF p, r
<1>4. Ordered(p)
  BY <1>1, <1>2, TurnedOrdered
<1>5. Ordered(r)
  BY <1>1, <1>3, TurnedOrdered
<1>6. QED
  BY <1>4, <1>5 DEF p, r

LEMMA EnteredOrdered ==
  ASSUME NEW s \in Session, NEW t \in TaskIds, NEW v \in TaskStatuses, NEW b \in Blockers,
         NEW h \in Hints, NEW p \in {"planning", "paused"}, Sound(s), Ordered(s), t = Active(s),
         v = "blocked" \/ (v = "todo" /\ b = "none" /\ h = "none"),
         v = "blocked" => b # "none"
  PROVE  LET r == Entered(Marked(s, t, v, b, h), p, "implementing")
         IN  /\ Ordered(r) /\ OnlyTouches(s, r, t) /\ SamePlace(s, r)
             /\ r.state.phase = p /\ r.state.blocker = b
             /\ r.taskState.tasks[t] = v
<1> DEFINE marked == Marked(s, t, v, b, h)
           r == Entered(marked, p, "implementing")
<1>1. marked \in Session
  BY MarkedSound DEF Sound
<1>2. r \in Session
  BY MarkedEnteredSound, Values DEF Sound
<1>3. /\ OnlyTouches(s, marked, t) /\ SamePlace(s, marked)
      /\ marked.taskState.tasks[t] = v /\ marked.taskState.taskBlockers[t] = b
      /\ marked.taskState.taskRecoveryHints[t] = h /\ marked.state.blocker = b
  BY MarkedEffect
<1> HIDE DEF marked
<1>4. /\ OnlyTouches(marked, r, t) /\ SamePlace(marked, r)
      /\ r.taskState.tasks = marked.taskState.tasks
      /\ r.taskState.taskBlockers = marked.taskState.taskBlockers
      /\ r.taskState.taskRecoveryHints = marked.taskState.taskRecoveryHints
      /\ r.state.blocker = marked.state.blocker
      /\ r.state.phase = p
  BY <1>1, EnteredEffect
<1> HIDE DEF r
<1>5. /\ OnlyTouches(s, r, t) /\ SamePlace(s, r)
      /\ r.taskState.tasks[t] = v /\ r.taskState.taskBlockers[t] = b
      /\ r.taskState.taskRecoveryHints[t] = h /\ r.state.blocker = b
      /\ r.state.phase = p
  BY <1>3, <1>4 DEF OnlyTouches, SamePlace
<1> HIDE DEF r
<1>6. ActiveStatus(r) = v
  BY <1>5 DEF SamePlace, Active, ActiveStatus, StatusOf, TaskIds, NoTask
<1>7. PhaseFits(r)
  BY <1>5, <1>6 DEF PhaseFits
<1>8. Ordered(r)
  BY <1>2, <1>5, <1>7, TouchedOrdered
<1>9. QED
  BY <1>5, <1>8 DEF r, marked

\* The operator's block, and what the loop or the operator does to lift one.
LEMMA OverridesOrdered ==
  ASSUME NEW s \in Session, Sound(s), Ordered(s), NEW t \in TaskIds, t = Active(s)
  PROVE  /\ Ordered(TaskBlocked(s, t)) /\ Ordered(TaskUnblocked(s, t))
         /\ TaskBlocked(s, t).taskState.tasks[t] = "blocked" /\ OnlyTouches(s, TaskBlocked(s, t), t)
         /\ TaskUnblocked(s, t).taskState.tasks[t] = "todo" /\ OnlyTouches(s, TaskUnblocked(s, t), t)
         /\ TaskUnblocked(s, t).state.phase = "paused" /\ TaskUnblocked(s, t).state.blocker = "none"
         /\ SamePlace(s, TaskBlocked(s, t)) /\ SamePlace(s, TaskUnblocked(s, t))
  BY EnteredOrdered, Values DEF TaskBlocked, TaskUnblocked

LEMMA AutoRecoveredOrdered ==
  ASSUME NEW s \in Session, Sound(s), Ordered(s), NEW t \in TaskIds, t = Active(s)
  PROVE  /\ Ordered(AutoRecovered(s, t)) /\ OnlyTouches(s, AutoRecovered(s, t), t)
         /\ SamePlace(s, AutoRecovered(s, t))
         /\ AutoRecovered(s, t).taskState.tasks[t] = "todo"
         /\ AutoRecovered(s, t).state.phase = "planning"
  BY EnteredOrdered, Values DEF AutoRecovered

-----------------------------------------------------------------------------
(* Execution. *)

Workable == {"planning", "paused", "implementing"}

\* What executeCurrentTask makes of a queued active task before it awaits the worker.
LEMMA BegunEffect ==
  ASSUME NEW s \in Session, Sound(s), NEW t \in TaskIds, t = Active(s),
         s.state.phase \in Workable, s.state.currentFlow # "auto"
  PROVE  LET r == ExecutionStarted(s)
         IN  /\ r \in Session /\ Sound(r)
             /\ OnlyTouches(s, r, t) /\ SamePlace(s, r)
             /\ r.state.phase = "implementing" /\ r.state.blocker = s.state.blocker
             /\ r.state.activeTaskId = t
             /\ r.taskState.resumePhase = "implementing"
             /\ r.taskState.tasks[t] = "in_progress"
             /\ r.taskState.taskBlockers[t] = s.taskState.taskBlockers[t]
             /\ r.taskState.taskRecoveryHints[t] = s.taskState.taskRecoveryHints[t]
<1> DEFINE phased == IF s.state.phase \in {"planning", "paused"}
                     THEN InPhase(s, "implementing") ELSE s
           started == Started(phased, t)
           r == ExecutionStarted(s)
<1>1. s.state.activeTaskId = t /\ t # NoTask
  BY DEF Sound, Agree, Active, TaskIds, NoTask
<1>2. Reopened(s) = s
  BY DEF Workable, Reopened
<1>3. Routed(s) = s
  BY DEF Routed
<1>4. /\ phased \in Session /\ Sound(phased) /\ phased.taskState = s.taskState
      /\ phased.state.phase = "implementing" /\ phased.state.blocker = s.state.blocker
      /\ phased.state.currentFlow = s.state.currentFlow /\ phased.state.activeTaskId = t
  <2>1. phased \in Session /\ Sound(phased)
    BY InPhaseSound, Values DEF Sound
  <2>2. QED
    BY <1>1, <2>1 DEF Workable, InPhase, Session, RunState
<1>5. WithSomeTask(phased) = phased
  BY <1>1, <1>4 DEF WithSomeTask
<1>6. r = ResumingInto(started, "implementing")
  <2>1. r = ResumingInto(Started(WithSomeTask(phased), WithSomeTask(phased).state.activeTaskId),
                         "implementing")
    BY <1>2, <1>3 DEF ExecutionStarted
  <2> HIDE DEF phased, r
  <2>2. QED
    BY <1>4, <1>5, <2>1
<1> HIDE DEF phased
<1>7. /\ started.state = phased.state
      /\ OnlyTouches(phased, started, t) /\ SamePlace(phased, started)
      /\ started.taskState.tasks[t] = "in_progress"
      /\ started.taskState.taskBlockers = phased.taskState.taskBlockers
      /\ started.taskState.taskRecoveryHints = phased.taskState.taskRecoveryHints
  BY <1>4 DEF Started, WithStatus, OnlyTouches, SamePlace, Session, TaskState
<1>8. started \in Session /\ Sound(started)
  BY <1>4, StartedSound DEF Sound
<1> HIDE DEF started
<1>9. /\ r.state = started.state
      /\ OnlyTouches(started, r, t) /\ SamePlace(started, r)
      /\ r.taskState.resumePhase = "implementing"
      /\ r.taskState.tasks = started.taskState.tasks
      /\ r.taskState.taskBlockers = started.taskState.taskBlockers
      /\ r.taskState.taskRecoveryHints = started.taskState.taskRecoveryHints
  BY <1>6, <1>8 DEF ResumingInto, OnlyTouches, SamePlace, Session, TaskState
<1>10. r \in Session /\ Sound(r)
  BY ExecutionStartedSound DEF Sound
<1> HIDE DEF r
<1>11. OnlyTouches(s, r, t) /\ SamePlace(s, r)
  BY <1>4, <1>7, <1>9 DEF OnlyTouches, SamePlace
<1>12. QED
  BY <1>4, <1>7, <1>9, <1>10, <1>11 DEF r

\* ... and why that is in order.
LEMMA BegunOrdered ==
  ASSUME NEW s \in Session, Sound(s), Ordered(s), NEW t \in TaskIds, t = Active(s),
         s.taskState.tasks[t] = "todo"
  PROVE  LET r == ExecutionStarted(s)
         IN  /\ Ordered(r) /\ r.state.activeTaskId = t /\ Active(r) = t
             /\ OnlyTouches(s, r, t) /\ SamePlace(s, r) /\ r.taskState.tasks[t] = "in_progress"
             /\ r.state.phase = "implementing" /\ r.state.blocker = "none"
             /\ r.taskState.taskBlockers[t] = "none"
             /\ r.taskState.resumePhase = "implementing"
<1> DEFINE r == ExecutionStarted(s)
<1>1. /\ t # NoTask /\ ActiveStatus(s) = "todo" /\ s.state.currentFlow # "auto"
      /\ s.state.blocker = "none" /\ s.taskState.taskBlockers[t] = "none"
      /\ s.taskState.taskRecoveryHints[t] = "none"
  BY QueuedIsClean
<1>2. s.state.phase \in Workable
  BY <1>1 DEF Ordered, PhaseFits, Workable
<1>3. /\ r \in Session /\ Sound(r)
      /\ OnlyTouches(s, r, t) /\ SamePlace(s, r)
      /\ r.state.phase = "implementing" /\ r.state.blocker = s.state.blocker
      /\ r.state.activeTaskId = t
      /\ r.taskState.resumePhase = "implementing"
      /\ r.taskState.tasks[t] = "in_progress"
      /\ r.taskState.taskBlockers[t] = s.taskState.taskBlockers[t]
      /\ r.taskState.taskRecoveryHints[t] = s.taskState.taskRecoveryHints[t]
  BY <1>1, <1>2, BegunEffect
<1> HIDE DEF r
<1>4. ActiveStatus(r) = "in_progress" /\ Active(r) = t
  BY <1>1, <1>3 DEF SamePlace, Active, ActiveStatus, StatusOf
<1>5. PhaseFits(r)
  BY <1>3, <1>4 DEF PhaseFits
<1>6. Ordered(r)
  BY <1>1, <1>3, <1>5, TouchedOrdered
<1>7. QED
  BY <1>1, <1>3, <1>4, <1>6 DEF r

\* The end of an execution: the task is in progress, or blocked with a hint.
LEMMA ExecutionEndedOrdered ==
  ASSUME NEW s \in Session, Sound(s), Ordered(s), NEW t \in TaskIds, t = Active(s),
         NEW satisfied \in BOOLEAN, s.taskState.tasks[t] = "in_progress",
         s.state.phase = "implementing", s.taskState.resumePhase = "implementing"
  PROVE  LET r == ExecutionEnded(s, t, satisfied)
         IN  /\ Ordered(r) /\ OnlyTouches(s, r, t) /\ SamePlace(s, r) /\ Active(r) = t
             /\ r.taskState.tasks[t] \in {"in_progress", "blocked"}
<1> DEFINE noted == WithHint(WithOutput(Invalidated(s), t), t, "none")
           marked == Marked(noted, t, "blocked", "no_changes", "implementation_no_changes")
           r == ExecutionEnded(s, t, satisfied)
<1>1. s.state.blocker = "none" /\ s.taskState.taskBlockers[t] = "none" /\ t # NoTask
  BY QueuedIsClean
<1>2. noted \in Session /\ Sound(noted)
  <2>1. Invalidated(s) \in Session /\ Sound(Invalidated(s))
    BY InvalidatedSound DEF Sound
  <2>2. WithOutput(Invalidated(s), t) \in Session /\ Sound(WithOutput(Invalidated(s), t))
    BY <2>1, WithOutputSound DEF Sound
  <2>3. QED
    BY <2>2, WithHintSound, Values DEF Sound
<1>3. /\ OnlyTouches(s, noted, t) /\ SamePlace(s, noted)
      /\ noted.taskState.tasks = s.taskState.tasks
      /\ noted.taskState.taskBlockers = s.taskState.taskBlockers
      /\ noted.taskState.taskRecoveryHints[t] = "none"
      /\ noted.state.phase = "implementing" /\ noted.state.blocker = "none"
  BY <1>1 DEF WithHint, WithOutput, Invalidated, WithReport, OnlyTouches, SamePlace, Session,
     RunState, TaskState
<1> HIDE DEF noted
<1>4. /\ OnlyTouches(noted, marked, t) /\ SamePlace(noted, marked)
      /\ marked.taskState.tasks[t] = "blocked" /\ marked.taskState.taskBlockers[t] = "no_changes"
      /\ marked.state.blocker = "no_changes"
  <2>1. noted \in Session
    BY <1>2
  <2>2. QED
    BY <2>1, MarkedEffect, Values
<1>5. marked \in Session
  BY <1>2, MarkedSound, Values DEF Sound
<1> HIDE DEF marked
<1>6. InPhase(marked, "paused").taskState = marked.taskState
      /\ InPhase(marked, "paused").state.phase = "paused"
      /\ InPhase(marked, "paused").state.blocker = marked.state.blocker
      /\ InPhase(marked, "paused").state.currentFlow = marked.state.currentFlow
  BY <1>5 DEF InPhase, Session, RunState
<1>7. r = IF satisfied THEN noted ELSE InPhase(marked, "paused")
  BY DEF ExecutionEnded, noted, marked
<1>8. r \in Session
  BY ExecutionEndedSound DEF Sound
<1>9. /\ OnlyTouches(s, r, t) /\ SamePlace(s, r)
      /\ \/ /\ r.taskState.tasks[t] = "in_progress" /\ r.state.phase = "implementing"
            /\ r.taskState.taskBlockers[t] = "none" /\ r.taskState.taskRecoveryHints[t] = "none"
            /\ r.state.blocker = "none"
         \/ /\ r.taskState.tasks[t] = "blocked" /\ r.state.phase = "paused"
            /\ r.taskState.taskBlockers[t] = "no_changes" /\ r.state.blocker = "no_changes"
  BY <1>1, <1>3, <1>4, <1>6, <1>7 DEF OnlyTouches, SamePlace
<1> HIDE DEF r
<1>10. ActiveStatus(r) = r.taskState.tasks[t]
  BY <1>1, <1>9 DEF SamePlace, Active, ActiveStatus, StatusOf
<1>11. PhaseFits(r)
  BY <1>9, <1>10 DEF PhaseFits
<1>12. Ordered(r)
  BY <1>9, <1>8, <1>11, TouchedOrdered
<1>13. QED
  BY <1>9, <1>12 DEF r, SamePlace, Active

-----------------------------------------------------------------------------
(* Verification, of a task that has been started. *)

LEMMA StartedOrdered ==
  ASSUME NEW s \in Session, Sound(s), Ordered(s), NEW t \in TaskIds, t = Active(s),
         s.taskState.tasks[t] = "todo", s.state.phase # "paused"
  PROVE  LET r == Started(s, t)
         IN  /\ Sound(r) /\ Ordered(r) /\ OnlyTouches(s, r, t) /\ SamePlace(s, r)
             /\ Active(r) = t /\ r.taskState.tasks[t] = "in_progress"
<1> DEFINE r == Started(s, t)
<1>1. /\ t # NoTask /\ ActiveStatus(s) = "todo" /\ s.state.blocker = "none"
      /\ s.taskState.taskBlockers[t] = "none" /\ s.taskState.taskRecoveryHints[t] = "none"
  BY QueuedIsClean
<1>2. /\ r.state = s.state
      /\ OnlyTouches(s, r, t) /\ SamePlace(s, r)
      /\ r.taskState.tasks[t] = "in_progress"
      /\ r.taskState.taskBlockers = s.taskState.taskBlockers
      /\ r.taskState.taskRecoveryHints = s.taskState.taskRecoveryHints
  BY DEF Started, WithStatus, OnlyTouches, SamePlace, Session, TaskState
<1>3. r \in Session /\ Sound(r)
  BY StartedSound DEF Sound
<1> HIDE DEF r
<1>4. Active(r) = t /\ ActiveStatus(r) = "in_progress"
  BY <1>1, <1>2 DEF SamePlace, Active, ActiveStatus, StatusOf
<1>5. PhaseFits(r)
  BY <1>1, <1>2, <1>4 DEF PhaseFits, Ordered
<1>6. Ordered(r)
  BY <1>1, <1>2, <1>3, <1>5, TouchedOrdered
<1>7. QED
  BY <1>2, <1>3, <1>4, <1>6 DEF r

\* verify of a task at work may enter the verifying phase.
LEMMA OpenedOrdered ==
  ASSUME NEW s \in Session, Sound(s), Ordered(s), NEW t \in TaskIds, t = Active(s),
         s.taskState.tasks[t] = "in_progress"
  PROVE  LET opened == VerificationStarted(s)
             checked == InPhase(opened, "verifying")
         IN  /\ CanTransition(opened.state.phase, "verifying")
             /\ Sound(checked) /\ Ordered(checked) /\ SamePlace(s, checked)
             /\ checked.taskState = s.taskState /\ checked.state.activeTaskId = t
             /\ checked.state.phase = "verifying"
<1> DEFINE opened == VerificationStarted(s)
           checked == InPhase(opened, "verifying")
<1>1. /\ t # NoTask /\ ActiveStatus(s) = "in_progress" /\ s.state.blocker = "none"
      /\ s.taskState.taskBlockers[t] = "none" /\ s.taskState.taskRecoveryHints[t] = "none"
  BY QueuedIsClean
<1>2. s.state.phase \in {"planning", "implementing", "verifying"}
  BY <1>1 DEF Ordered, PhaseFits
<1>3. opened = IF s.state.phase = "planning" THEN InPhase(s, "implementing") ELSE s
  BY <1>2 DEF VerificationStarted
<1>4. opened \in Session /\ Sound(opened)
  BY VerificationStartedSound DEF Sound
<1>5. /\ opened.taskState = s.taskState
      /\ opened.state.phase \in {"implementing", "verifying"}
      /\ opened.state.activeTaskId = s.state.activeTaskId
      /\ opened.state.blocker = s.state.blocker
      /\ opened.state.currentFlow = s.state.currentFlow
  BY <1>2, <1>3 DEF InPhase, Session, RunState
<1>6. CanTransition(opened.state.phase, "verifying")
  BY <1>5 DEF CanTransition, AllowedTransitions, Phases
<1> HIDE DEF opened
<1>7. checked \in Session /\ Sound(checked)
  BY <1>4, InPhaseSound, Values DEF Sound
<1>8. /\ checked.taskState = s.taskState
      /\ checked.state.phase = "verifying"
      /\ checked.state.activeTaskId = s.state.activeTaskId
      /\ checked.state.blocker = "none"
      /\ checked.state.currentFlow = s.state.currentFlow
  BY <1>1, <1>4, <1>5 DEF InPhase, Session, RunState
<1> HIDE DEF checked
<1>9. OnlyTouches(s, checked, t) /\ SamePlace(s, checked)
  BY <1>8 DEF OnlyTouches, SamePlace
<1>10. ActiveStatus(checked) = "in_progress"
  BY <1>1, <1>8 DEF Active, ActiveStatus, StatusOf
<1>11. PhaseFits(checked)
  BY <1>8, <1>10 DEF PhaseFits
<1>12. Ordered(checked)
  BY <1>1, <1>7, <1>8, <1>9, <1>11, TouchedOrdered
<1>13. s.state.activeTaskId = t
  BY DEF Sound, Agree, Active
<1>14. QED
  BY <1>6, <1>7, <1>8, <1>9, <1>12, <1>13 DEF opened, checked

\* The end of a verification: the task is validated, or blocked with what failed.
LEMMA VerdictOrdered ==
  ASSUME NEW s \in Session, Sound(s), Ordered(s), NEW t \in TaskIds, t = Active(s),
         s.taskState.tasks[t] = "in_progress", NEW failed
  PROVE  LET r == VerificationEnded(s, failed)
         IN  /\ Ordered(r) /\ OnlyTouches(s, r, t) /\ SamePlace(s, r) /\ Active(r) = t
             /\ r.taskState.tasks[t] \in {"validated", "blocked"}
             /\ r.taskState.tasks[t] = "validated" <=> VerificationStatus(s, failed) = "pass"
<1> DEFINE status == VerificationStatus(s, failed)
           text == FailureText(failed)
           hint == RecoveryHint(s, failed)
           reported == WithReport(s, status, TRUE)
           accepted == WithHint(WithStatus(reported, t, "validated"), t, "none")
           rejected == Marked(reported, t, "blocked", text, hint)
           verdict == VerdictRecorded(s, failed)
           r == VerificationEnded(s, failed)
<1>1. /\ t # NoTask /\ s.state.blocker = "none"
      /\ s.taskState.taskBlockers[t] = "none" /\ s.taskState.taskRecoveryHints[t] = "none"
      /\ s.state.activeTaskId = t
  BY QueuedIsClean DEF Sound, Agree, Active
<1>2. status \in VerificationStatuses /\ text \in Blockers \ {"none"} /\ hint \in Hints
  BY VerdictTypes, Values
<1>3. status = IF failed = {} THEN "pass" ELSE "fail"
  BY <1>1 DEF VerificationStatus
<1>4. verdict = IF failed = {} THEN accepted ELSE rejected
  BY <1>1, <1>3 DEF VerdictRecorded, Active
<1>5. reported \in Session /\ Sound(reported)
  BY <1>2, <1>3, WithReportSound, Values DEF Sound
<1>6. /\ OnlyTouches(s, reported, t) /\ SamePlace(s, reported)
      /\ reported.taskState.taskBlockers = s.taskState.taskBlockers
      /\ reported.state.blocker = "none"
      /\ reported.state.lastVerificationStatus = status
      /\ reported.state.lastVerificationPath = TRUE
  BY <1>1 DEF WithReport, OnlyTouches, SamePlace, Session, RunState, TaskState
<1> HIDE DEF reported, status, text, hint
<1>7. /\ OnlyTouches(reported, accepted, t) /\ SamePlace(reported, accepted)
      /\ accepted.taskState.tasks[t] = "validated"
      /\ accepted.taskState.taskBlockers = reported.taskState.taskBlockers
      /\ accepted.taskState.taskRecoveryHints[t] = "none"
      /\ accepted.state = reported.state
  BY <1>5 DEF WithHint, WithStatus, OnlyTouches, SamePlace, Session, TaskState
<1>8. /\ OnlyTouches(reported, rejected, t) /\ SamePlace(reported, rejected)
      /\ rejected.taskState.tasks[t] = "blocked" /\ rejected.taskState.taskBlockers[t] = text
      /\ rejected.state.blocker = text
  <2>1. "blocked" \in TaskStatuses /\ text \in Blockers
    BY <1>2, Values
  <2>2. QED
    BY <1>2, <1>5, <2>1, MarkedEffect
<1> HIDE DEF accepted, rejected
<1>9. verdict \in Session /\ Sound(verdict)
  BY VerdictRecordedSound
<1> HIDE DEF verdict
<1>10. /\ OnlyTouches(s, verdict, t) /\ SamePlace(s, verdict)
       /\ failed = {} => /\ verdict.taskState.tasks[t] = "validated"
                         /\ verdict.taskState.taskBlockers[t] = "none"
                         /\ verdict.taskState.taskRecoveryHints[t] = "none"
                         /\ verdict.state.blocker = "none"
                         /\ verdict.state.lastVerificationStatus = "pass"
                         /\ verdict.state.lastVerificationPath = TRUE
       /\ failed # {} => /\ verdict.taskState.tasks[t] = "blocked"
                         /\ verdict.taskState.taskBlockers[t] = text
                         /\ verdict.state.blocker = text
  BY <1>1, <1>3, <1>4, <1>6, <1>7, <1>8 DEF OnlyTouches, SamePlace
<1>11. r \in Session
  BY VerificationEndedSound DEF Sound
<1>12. /\ OnlyTouches(verdict, r, t) /\ SamePlace(verdict, r)
       /\ r.taskState.tasks = verdict.taskState.tasks
       /\ r.taskState.taskBlockers = verdict.taskState.taskBlockers
       /\ r.taskState.taskRecoveryHints = verdict.taskState.taskRecoveryHints
       /\ r.state.blocker = verdict.state.blocker
       /\ r.state.phase = VerdictPhase(s, failed)
  BY <1>9, EnteredEffect DEF VerificationEnded, verdict
<1>13. /\ r.state.lastVerificationStatus = verdict.state.lastVerificationStatus
       /\ r.state.lastVerificationPath = verdict.state.lastVerificationPath
  BY <1>9 DEF VerificationEnded, verdict, Entered, Session, RunState
<1>14. VerdictPhase(s, failed) = IF failed = {} THEN "reviewing" ELSE "paused"
  BY <1>3 DEF VerdictPhase, status
<1> HIDE DEF r
<1>15. OnlyTouches(s, r, t) /\ SamePlace(s, r)
  BY <1>10, <1>12 DEF OnlyTouches, SamePlace
<1>16. ActiveStatus(r) = r.taskState.tasks[t]
  BY <1>1, <1>15 DEF SamePlace, Active, ActiveStatus, StatusOf
<1>17. PhaseFits(r)
  BY <1>10, <1>12, <1>13, <1>14, <1>16 DEF PhaseFits, PassedReview
<1>18. Ordered(r)
  BY <1>10, <1>11, <1>12, <1>15, <1>17, TouchedOrdered
<1>19. QED
  BY <1>3, <1>10, <1>12, <1>15, <1>18 DEF r, status, SamePlace, Active

-----------------------------------------------------------------------------
(* Review and advance. *)

\* Nobody is at work: the active task is done, or the run has none.
AtRest(s) == \A t \in TaskIds : s.taskState.tasks[t] \notin InWork

\* Only a verified task is under review.
LEMMA ValidatedUnderReview ==
  ASSUME NEW s \in Session, Ordered(s), s.state.phase = "reviewing"
  PROVE  /\ Active(s) \in TaskIds /\ s.taskState.tasks[Active(s)] = "validated"
         /\ PassedReview(s)
<1>1. ActiveStatus(s) \in TaskStatuses
  BY DEF ActiveStatus, StatusOf, Active, Session, TaskState, TaskStatuses
<1>2. ActiveStatus(s) = "validated"
  BY <1>1 DEF Ordered, PhaseFits, TaskStatuses
<1>3. QED
  BY <1>2 DEF Ordered, PhaseFits, ActiveStatus, StatusOf, Active, Session, TaskState

\* reviewTask accepts a run under review, and does nothing to another.
LEMMA ReviewedOrdered ==
  ASSUME NEW s \in Session, Sound(s), Ordered(s)
  PROVE  LET r == Reviewed(s)
         IN  /\ Ordered(r) /\ OnlyTouches(s, r, Active(s))
             /\ s.state.phase # "reviewing" => r = s
             /\ s.state.phase = "reviewing" => r.taskState.tasks[Active(s)] = "done"
<1>1. CASE s.state.phase # "reviewing"
  BY <1>1 DEF Reviewed, PassedReview, OnlyTouches
<1>2. CASE s.state.phase = "reviewing"
  <2> DEFINE t == s.taskState.activeTaskId
             m == s.taskState.activeMilestoneId
             single == s.state.currentFlow # "milestone" \/ m = NoMilestone
             accepted == WithStatus(s, t, "done")
             finished == Entered(accepted, "completed", "none")
             waiting == Entered(accepted, "paused", "planning")
             left == IF ~single /\ HasNextMilestone(s, m) THEN waiting ELSE finished
             r == Reviewed(s)
  <2>1. t \in TaskIds /\ s.taskState.tasks[t] = "validated" /\ PassedReview(s)
    BY <1>2, ValidatedUnderReview DEF Active
  <2>2. t # NoTask /\ s.state.blocker = "none" /\ m \in MilestoneIds \cup {NoMilestone}
    BY <2>1, QueuedIsClean DEF Active, Session, TaskState
  <2>3. r = IF single THEN left ELSE WithMilestoneStatus(left, m, "done")
    BY <2>1, <2>2 DEF Reviewed
  <2>4. accepted \in Session /\ Sound(accepted)
    BY <2>1, WithStatusSound, Values DEF Sound
  <2>5. /\ OnlyTouches(s, accepted, t) /\ SamePlace(s, accepted)
        /\ accepted.taskState.tasks[t] = "done"
        /\ accepted.taskState.taskBlockers = s.taskState.taskBlockers
        /\ accepted.taskState.taskRecoveryHints = s.taskState.taskRecoveryHints
        /\ accepted.state.blocker = "none"
    BY <2>1, <2>2 DEF WithStatus, OnlyTouches, SamePlace, Session, TaskState
  <2> HIDE DEF accepted
  <2>6. left \in Session
    BY <2>4, EnteredSound, Resumption, Values DEF Sound
  <2>7. /\ SamePlace(s, left) /\ OnlyTouches(s, left, t)
        /\ left.taskState.tasks[t] = "done"
        /\ left.taskState.taskBlockers = s.taskState.taskBlockers
        /\ left.taskState.taskRecoveryHints = s.taskState.taskRecoveryHints
        /\ left.state.blocker = "none"
        /\ left.state.phase = IF ~single /\ HasNextMilestone(s, m) THEN "paused" ELSE "completed"
    BY <2>4, <2>5 DEF Entered, OnlyTouches, SamePlace, Session, RunState, TaskState
  <2> HIDE DEF left
  <2>8. r \in Session
    BY ReviewedSound DEF Sound
  <2>9. /\ r.state = left.state
        /\ r.taskState.activeTaskId = t /\ r.taskState.activeMilestoneId = m
        /\ r.taskState.tasks = left.taskState.tasks
        /\ r.taskState.taskBlockers = s.taskState.taskBlockers
        /\ r.taskState.taskRecoveryHints = s.taskState.taskRecoveryHints
        /\ r.state.currentFlow = s.state.currentFlow
        /\ r.taskState.milestones =
             IF single THEN s.taskState.milestones ELSE [s.taskState.milestones EXCEPT ![m] = "done"]
    BY <2>3, <2>6, <2>7 DEF WithMilestoneStatus, SamePlace, Session, TaskState
  <2> HIDE DEF r
  <2>10. OnlyTouches(s, r, t)
    BY <2>7, <2>9 DEF OnlyTouches
  <2>11. AtRest(r)
    BY <2>1, <2>7, <2>9, <2>10 DEF AtRest, OnlyTouches, Ordered, OneAtWork, Active, InWork
  <2>12. ActiveStatus(r) = "done" /\ Active(r) = t
    BY <2>2, <2>7, <2>9 DEF ActiveStatus, StatusOf, Active
  <2>13. Staged(r)
    BY <2>2, <2>9, <2>12 DEF Ordered, Staged, Active, Session, TaskState
  <2>14. ~single => CanAdvance(r)
    BY <2>2, <2>9 DEF CanAdvance, Milestones, Session, TaskState
  <2>15. PhaseFits(r)
    BY <2>7, <2>9, <2>12, <2>14 DEF PhaseFits
  <2>16. NotedWhenBlocked(r)
    BY <2>1, <2>9, <2>10 DEF NotedWhenBlocked, OnlyTouches, Ordered
  <2>17. BlockerFits(r) /\ OneAtWork(r)
    BY <2>7, <2>9, <2>11 DEF BlockerFits, OneAtWork, AtRest
  <2>18. Ordered(r)
    BY <2>13, <2>15, <2>16, <2>17 DEF Ordered
  <2>19. QED
    BY <1>2, <2>7, <2>9, <2>10, <2>18 DEF r, Active
<1>3. QED
  BY <1>1, <1>2

\* A milestone starts with a queued task: the phase is planning, nobody is at work.
LEMMA ActivatedEffect ==
  ASSUME NEW s \in Session, Sound(s), NEW m \in MilestoneIds, NEW t \in TaskIds
  PROVE  LET r == Activated(s, m, t)
         IN  /\ r.state.phase = "planning" /\ r.state.blocker = s.state.blocker
             /\ r.state.currentFlow = "milestone"
             /\ r.taskState.activeTaskId = t /\ r.taskState.activeMilestoneId = m
             /\ r.taskState.tasks = [s.taskState.tasks EXCEPT ![t] = "todo"]
             /\ r.taskState.milestones = [s.taskState.milestones EXCEPT ![m] = "in_progress"]
             /\ r.taskState.taskMilestones = s.taskState.taskMilestones
             /\ r.taskState.planned = s.taskState.planned
             /\ r.taskState.taskBlockers = s.taskState.taskBlockers
             /\ r.taskState.taskRecoveryHints = s.taskState.taskRecoveryHints
<1> DEFINE onTask == WithStatus(WithActiveTask(s, t), t, "todo")
           tagged == WithMilestone(onTask, m)
           onMilestone == WithMilestoneStatus(tagged, m, "in_progress")
           routed == WithFlow(InPhase(onMilestone, "planning"), "milestone")
           r == Activated(s, m, t)
           Same(x, y) == /\ y.taskState.taskMilestones = x.taskState.taskMilestones
                         /\ y.taskState.planned = x.taskState.planned
                         /\ y.taskState.taskBlockers = x.taskState.taskBlockers
                         /\ y.taskState.taskRecoveryHints = x.taskState.taskRecoveryHints
<1>1. /\ onTask \in Session
      /\ Same(s, onTask) /\ onTask.taskState.milestones = s.taskState.milestones
      /\ onTask.state.blocker = s.state.blocker
      /\ onTask.taskState.activeTaskId = t
      /\ onTask.taskState.tasks = [s.taskState.tasks EXCEPT ![t] = "todo"]
  BY WithActiveTaskSound, WithStatusSound, Values
     DEF Sound, WithStatus, WithActiveTask, Session, RunState, TaskState
<1> HIDE DEF onTask
<1>2. /\ tagged \in Session /\ Same(onTask, tagged)
      /\ tagged.taskState.milestones = onTask.taskState.milestones
      /\ tagged.taskState.tasks = onTask.taskState.tasks
      /\ tagged.state.blocker = onTask.state.blocker
      /\ tagged.taskState.activeTaskId = t /\ tagged.taskState.activeMilestoneId = m
  BY <1>1 DEF WithMilestone, Session, RunState, TaskState
<1> HIDE DEF tagged
<1>3. /\ onMilestone.taskState = [tagged.taskState EXCEPT !.milestones[m] = "in_progress"]
      /\ onMilestone.state = tagged.state /\ onMilestone \in Session
  BY <1>2, Values DEF WithMilestoneStatus, Session, TaskState
<1>4. /\ Same(tagged, onMilestone)
      /\ onMilestone.taskState.milestones = [tagged.taskState.milestones EXCEPT ![m] = "in_progress"]
      /\ onMilestone.taskState.tasks = tagged.taskState.tasks
      /\ onMilestone.taskState.activeTaskId = t /\ onMilestone.taskState.activeMilestoneId = m
  BY <1>2, <1>3 DEF Session, TaskState
<1> HIDE DEF onMilestone
<1>5. /\ routed \in Session /\ routed.taskState = onMilestone.taskState
      /\ routed.state.blocker = onMilestone.state.blocker
      /\ routed.state.phase = "planning" /\ routed.state.currentFlow = "milestone"
  BY <1>3, Values DEF WithFlow, InPhase, Session, RunState
<1> HIDE DEF routed
<1>6. r = Invalidated(routed)
  BY DEF Activated, routed, onMilestone, tagged, onTask
<1> HIDE DEF r
<1>7. /\ Same(routed, r) /\ r.taskState.milestones = routed.taskState.milestones
      /\ r.taskState.tasks = routed.taskState.tasks
      /\ r.state.blocker = routed.state.blocker /\ r.state.phase = "planning"
      /\ r.state.currentFlow = "milestone"
      /\ r.taskState.activeTaskId = routed.taskState.activeTaskId
      /\ r.taskState.activeMilestoneId = routed.taskState.activeMilestoneId
  <2>1. /\ Same(routed, r) /\ r.taskState.milestones = routed.taskState.milestones
        /\ r.taskState.tasks = routed.taskState.tasks
        /\ r.taskState.activeTaskId = routed.taskState.activeTaskId
        /\ r.taskState.activeMilestoneId = routed.taskState.activeMilestoneId
    BY <1>5, <1>6 DEF Invalidated, WithReport, Session, TaskState
  <2>2. /\ r.state.blocker = routed.state.blocker /\ r.state.phase = "planning"
        /\ r.state.currentFlow = "milestone"
    BY <1>5, <1>6 DEF Invalidated, WithReport, Session, RunState
  <2>3. QED
    BY <2>1, <2>2
<1>8. /\ r.taskState.tasks = onTask.taskState.tasks
      /\ r.taskState.milestones = [onTask.taskState.milestones EXCEPT ![m] = "in_progress"]
  BY <1>2, <1>4, <1>5, <1>7
<1>9. Same(s, r) /\ r.state.blocker = s.state.blocker
      /\ r.taskState.activeTaskId = t /\ r.taskState.activeMilestoneId = m
  BY <1>1, <1>2, <1>3, <1>4, <1>5, <1>7
<1>10. QED
  BY <1>1, <1>7, <1>8, <1>9 DEF r

\* advanceMilestone, from a run whose active task is done.
LEMMA AdvancedOrdered ==
  ASSUME NEW s \in Session, Sound(s), Ordered(s), CanAdvance(s), ActiveStatus(s) = "done",
         NextTodoTask(s, Active(s)) = NoTask, NextPendingTask(s, Active(s)) = NoTask
  PROVE  LET r == Advanced(s)
         IN  /\ Ordered(r) /\ AtRest(r)
             /\ r.state.phase = "planning" =>
                  /\ Active(r) \in TaskIds /\ r.taskState.tasks[Active(r)] = "todo"
                  /\ OnlyTouches(s, r, Active(r))
             /\ r.state.phase # "planning" =>
                  r.state.phase \in {"completed", "paused"} /\ r.taskState.tasks = s.taskState.tasks
             /\ r.state.phase = "planning" => r.state.blocker = "none"
<1> DEFINE m == s.taskState.activeMilestoneId
           closed == WithMilestoneStatus(s, m, "done")
           next == NextMilestone(s, m)
           task == OrElse(FirstReadyTaskForMilestone(closed, next), FallbackTask(m))
           idle == WithMilestone(WithActiveTask(closed, NoTask), m)
           r == Advanced(s)
<1>1. m \in MilestoneIds /\ s.taskState.milestones[m] # "absent"
  BY DEF CanAdvance, Milestones
<1>2. AtRest(s) /\ Active(s) \in TaskIds /\ Active(s) # NoTask
      /\ s.taskState.tasks[Active(s)] = "done"
  BY DEF AtRest, Ordered, OneAtWork, ActiveStatus, StatusOf, Active, InWork, Session, TaskState
<1>3. /\ \A n \in MilestoneIds : s.taskState.milestones[n] # "absent"
      /\ s.state.currentFlow # "auto"
  BY <1>1, <1>2 DEF Ordered, Staged
<1>4. s.state.blocker # "none" => Waits(s)
  BY <1>2 DEF Ordered, BlockerFits, ActiveStatus, StatusOf
<1>5. /\ closed \in Session /\ Sound(closed)
  BY <1>1, WithMilestoneStatusSound, Values DEF Sound
<1>6. /\ closed.state = s.state
      /\ closed.taskState.tasks = s.taskState.tasks
      /\ closed.taskState.taskMilestones = s.taskState.taskMilestones
      /\ closed.taskState.planned = s.taskState.planned
      /\ closed.taskState.activeTaskId = s.taskState.activeTaskId
      /\ closed.taskState.activeMilestoneId = m
      /\ closed.taskState.taskBlockers = s.taskState.taskBlockers
      /\ closed.taskState.taskRecoveryHints = s.taskState.taskRecoveryHints
      /\ closed.taskState.milestones = [s.taskState.milestones EXCEPT ![m] = "done"]
  BY DEF WithMilestoneStatus, Session, TaskState
<1>7. \A n \in MilestoneIds : closed.taskState.milestones[n] # "absent"
  BY <1>3, <1>6 DEF Session, TaskState
<1>8. r = IF next = NoMilestone THEN Concluded(closed, m)
          ELSE IF UnsatisfiedMilestoneDependencies(closed, next) # {} THEN WaitingForMilestone(closed)
          ELSE Activated(closed, next, task)
  BY DEF Advanced
<1>9. r \in Session
  BY AdvancedSound DEF Sound
<1>10. NextMilestone(closed, m) = next
  <2>1. Milestones(closed) = Milestones(s)
    BY <1>3, <1>7 DEF Milestones
  <2>2. QED
    BY <2>1 DEF NextMilestone
<1> HIDE DEF r, closed, next, task
<1>11. CASE next = NoMilestone
  <2>1. s.state.blocker = "none"
    BY <1>4, <1>11 DEF Waits, next
  <2>2. /\ idle \in Session
        /\ idle.taskState.tasks = s.taskState.tasks
        /\ idle.taskState.activeTaskId = NoTask
        /\ idle.taskState.milestones = closed.taskState.milestones
        /\ idle.taskState.taskBlockers = s.taskState.taskBlockers
        /\ idle.taskState.taskRecoveryHints = s.taskState.taskRecoveryHints
        /\ idle.state.blocker = "none"
    <3>1. WithActiveTask(closed, NoTask) \in Session
      BY <1>5, WithActiveTaskSound DEF Sound
    <3>2. idle \in Session
      BY <1>1, <3>1 DEF WithMilestone, Session, RunState, TaskState
    <3>3. QED
      BY <1>5, <1>6, <2>1, <3>2 DEF WithMilestone, WithActiveTask, Session, RunState, TaskState
  <2> HIDE DEF idle
  <2>3. /\ r.taskState = idle.taskState /\ r.state.blocker = idle.state.blocker
        /\ r.state.phase = "completed"
    BY <1>8, <1>11, <2>2 DEF Concluded, InPhase, idle, Session, RunState
  <2>4. Active(r) = NoTask /\ ActiveStatus(r) = "absent"
    BY <2>2, <2>3 DEF Active, ActiveStatus, StatusOf
  <2>5. AtRest(r) /\ OneAtWork(r) /\ NotedWhenBlocked(r) /\ BlockerFits(r) /\ PhaseFits(r) /\ Staged(r)
    BY <1>2, <1>7, <2>2, <2>3, <2>4
       DEF Ordered, AtRest, OneAtWork, NotedWhenBlocked, BlockerFits, PhaseFits, Staged
  <2>6. QED
    BY <2>2, <2>3, <2>5 DEF Ordered, r
<1>12. CASE next # NoMilestone /\ UnsatisfiedMilestoneDependencies(closed, next) # {}
  <2>1. r = WaitingForMilestone(closed)
    BY <1>8, <1>12
  <2>2. /\ r.taskState.tasks = closed.taskState.tasks
        /\ r.taskState.taskMilestones = closed.taskState.taskMilestones
        /\ r.taskState.planned = closed.taskState.planned
        /\ r.taskState.activeTaskId = closed.taskState.activeTaskId
        /\ r.taskState.activeMilestoneId = m
        /\ r.taskState.milestones = closed.taskState.milestones
        /\ r.taskState.taskBlockers = closed.taskState.taskBlockers
        /\ r.taskState.taskRecoveryHints = closed.taskState.taskRecoveryHints
        /\ r.state.currentFlow = s.state.currentFlow
        /\ r.state.phase = "paused"
    BY <1>5, <1>6, <2>1 DEF WaitingForMilestone, WithBlocker, Entered, Session, RunState, TaskState
  <2>3. Active(r) = Active(s) /\ ActiveStatus(r) = "done"
    BY <1>2, <1>6, <2>2 DEF Active, ActiveStatus, StatusOf
  <2>4. Waits(r)
    <3>1. OpenTasks(r) = OpenTasks(s) /\ (\A t : UnsatisfiedDependencies(r, t) = UnsatisfiedDependencies(s, t))
      BY <1>6, <2>2 DEF OpenTasks, UnsatisfiedDependencies
    <3>2. NextTodoTask(r, Active(r)) = NoTask /\ NextPendingTask(r, Active(r)) = NoTask
      BY <2>3, <3>1 DEF NextTodoTask, NextPendingTask, Ready
    <3>3. Milestones(r) = Milestones(closed)
          /\ UnsatisfiedMilestoneDependencies(r, next) = UnsatisfiedMilestoneDependencies(closed, next)
      BY <2>2 DEF Milestones, UnsatisfiedMilestoneDependencies
    <3>4. NextMilestone(r, m) = next
      BY <1>10, <3>3 DEF NextMilestone
    <3>5. r.taskState.milestones[m] = "done"
      BY <1>1, <1>6, <2>2 DEF Session, TaskState
    <3>6. QED
      BY <1>12, <2>2, <2>3, <3>2, <3>3, <3>4, <3>5 DEF Waits
  <2>5. CanAdvance(r)
    BY <1>1, <1>7, <2>2 DEF CanAdvance, Milestones, NoMilestone, MilestoneIds
  <2>6. AtRest(r) /\ OneAtWork(r) /\ NotedWhenBlocked(r) /\ BlockerFits(r) /\ PhaseFits(r) /\ Staged(r)
    BY <1>2, <1>3, <1>6, <1>7, <2>2, <2>3, <2>4, <2>5
       DEF Ordered, AtRest, OneAtWork, NotedWhenBlocked, BlockerFits, PhaseFits, Staged
  <2>7. QED
    BY <1>6, <2>2, <2>6 DEF Ordered, r
<1>13. CASE next # NoMilestone /\ UnsatisfiedMilestoneDependencies(closed, next) = {}
  <2>1. r = Activated(closed, next, task)
    BY <1>8, <1>13
  <2>2. next \in MilestoneIds /\ task \in TaskIds
    <3>1. next \in MilestoneIds /\ FallbackTask(m) \in TaskIds
      BY <1>1, <1>13, FallbackTaskType DEF next
    <3>2. FirstReadyTaskForMilestone(closed, next) \in TaskIds \cup {0}
      BY FirstOfType DEF FirstReadyTaskForMilestone, Ready
    <3>3. QED
      BY <3>1, <3>2 DEF OrElse, task
  <2>3. s.state.blocker = "none"
    <3>1. ASSUME Waits(s) PROVE FALSE
      <4>1. s.taskState.milestones[m] = "done" /\ UnsatisfiedMilestoneDependencies(s, next) # {}
        BY <3>1 DEF Waits, next
      <4>2. UnsatisfiedMilestoneDependencies(closed, next) = UnsatisfiedMilestoneDependencies(s, next)
        BY <1>1, <1>6, <4>1 DEF UnsatisfiedMilestoneDependencies, Session, TaskState
      <4>3. QED
        BY <1>13, <4>1, <4>2
    <3>2. QED
      BY <1>4, <3>1
  <2>4. /\ r.state.phase = "planning" /\ r.state.blocker = "none"
        /\ r.state.currentFlow = "milestone"
        /\ r.taskState.activeTaskId = task
        /\ r.taskState.tasks = [s.taskState.tasks EXCEPT ![task] = "todo"]
        /\ r.taskState.milestones = [closed.taskState.milestones EXCEPT ![next] = "in_progress"]
        /\ r.taskState.taskBlockers = s.taskState.taskBlockers
        /\ r.taskState.taskRecoveryHints = s.taskState.taskRecoveryHints
    BY <1>5, <1>6, <2>1, <2>2, <2>3, ActivatedEffect
  <2>5. s.taskState.tasks \in [TaskIds -> TaskStatuses]
    BY DEF Session, TaskState
  <2>6. /\ r.taskState.tasks[task] = "todo"
         /\ \A u \in TaskIds \ {task} : r.taskState.tasks[u] = s.taskState.tasks[u]
    BY <2>2, <2>4, <2>5
  <2>7. /\ Active(r) = task /\ r.taskState.tasks[task] = "todo" /\ ActiveStatus(r) = "todo"
        /\ task # NoTask
        /\ \A u \in TaskIds \ {task} : r.taskState.tasks[u] = s.taskState.tasks[u]
    BY <2>2, <2>4, <2>6 DEF Active, ActiveStatus, StatusOf, TaskIds, NoTask
  <2>8. \A n \in MilestoneIds : r.taskState.milestones[n] # "absent"
    BY <1>5, <1>7, <2>4 DEF Session, TaskState
  <2>9. AtRest(r) /\ OnlyTouches(s, r, task)
    BY <1>2, <2>4, <2>7 DEF AtRest, InWork, OnlyTouches
  <2>10. \A t \in TaskIds : s.taskState.tasks[t] # "blocked"
    BY <1>2 DEF AtRest, InWork
  <2>11. OneAtWork(r) /\ NotedWhenBlocked(r) /\ BlockerFits(r)
    BY <2>4, <2>9, <2>10 DEF Ordered, AtRest, OneAtWork, NotedWhenBlocked, BlockerFits
  <2>12. PhaseFits(r) /\ Staged(r)
    BY <2>4, <2>7, <2>8 DEF PhaseFits, Staged
  <2>13. QED
    BY <2>2, <2>4, <2>7, <2>9, <2>11, <2>12 DEF Ordered, r
<1>14. QED
  BY <1>11, <1>12, <1>13

-----------------------------------------------------------------------------
(* A plan, a reset, a new process. *)

LEMMA InitialOrdered == Ordered(InitialSession) /\ AtRest(InitialSession)
  BY DEF InitialSession, InitialRunState, InitialTaskState, Ordered, AtRest, OneAtWork, PhaseFits,
     NotedWhenBlocked, BlockerFits, Staged, Active, ActiveStatus, StatusOf, InWork, NoTask

LEMMA ResetOrdered ==
  ASSUME NEW s \in Session
  PROVE  Ordered(Reset(s)) /\ AtRest(Reset(s))
<1> DEFINE r == Reset(s)
<1>1. /\ r.state.phase = "idle" /\ r.state.currentFlow = "auto" /\ r.state.blocker = "none"
      /\ r.taskState.activeTaskId = NoTask
      /\ r.taskState.milestones = [m \in MilestoneIds |-> "absent"]
      /\ r.taskState.tasks = [t \in TaskIds |-> "absent"]
      /\ r.taskState.taskBlockers = [t \in TaskIds |-> "none"]
      /\ r.taskState.taskRecoveryHints = [t \in TaskIds |-> "none"]
  BY DEF Reset, InitialRunState, InitialTaskState
<1> HIDE DEF r
<1>2. Active(r) = NoTask /\ ActiveStatus(r) = "absent"
  BY <1>1 DEF Active, ActiveStatus, StatusOf
<1>3. OneAtWork(r) /\ AtRest(r) /\ PhaseFits(r) /\ NotedWhenBlocked(r) /\ BlockerFits(r) /\ Staged(r)
  BY <1>1, <1>2 DEF OneAtWork, AtRest, PhaseFits, NotedWhenBlocked, BlockerFits, Staged, InWork
<1>4. QED
  BY <1>3 DEF Ordered, r

\* A new plan has every task queued.
LEMMA PlannedOrdered ==
  ASSUME NEW s \in Session, NEW goal, NEW longRunning \in BOOLEAN
  PROVE  Ordered(Planned(s, goal, longRunning)) /\ AtRest(Planned(s, goal, longRunning))
<1> DEFINE r == Planned(s, goal, longRunning)
<1>1. /\ r.state.phase = "planning" /\ r.state.blocker = "none"
      /\ r.state.currentFlow = IF longRunning THEN "milestone" ELSE "disciplined_single"
      /\ r.taskState.activeTaskId = 1
      /\ r.taskState.milestones = [m \in MilestoneIds |->
            IF ~longRunning THEN "absent" ELSE IF m = 1 THEN "in_progress" ELSE "todo"]
      /\ r.taskState.tasks = [t \in TaskIds |-> "todo"]
      /\ r.taskState.taskBlockers = [t \in TaskIds |-> "none"]
      /\ r.taskState.taskRecoveryHints = [t \in TaskIds |-> "none"]
  BY DEF Planned, Cleared, InitialRunState, InitialTaskState
<1> HIDE DEF r
<1>2. Active(r) = 1 /\ ActiveStatus(r) = "todo"
  BY <1>1, Values DEF Active, ActiveStatus, StatusOf, NoTask
<1>3. OneAtWork(r) /\ AtRest(r) /\ PhaseFits(r) /\ NotedWhenBlocked(r) /\ BlockerFits(r)
  BY <1>1, <1>2 DEF OneAtWork, AtRest, PhaseFits, NotedWhenBlocked, BlockerFits, InWork
<1>4. Staged(r)
  BY <1>1 DEF Staged
<1>5. QED
  BY <1>3, <1>4 DEF Ordered, r

\* What reconcileSession copies into both halves leaves the rest of the run alone.
Copied(s, r, t, m, v, path) ==
  /\ r.state.phase = s.state.phase /\ r.state.currentFlow = s.state.currentFlow
  /\ r.state.blocker = s.state.blocker
  /\ r.state.lastVerificationStatus = v /\ r.state.lastVerificationPath = path
  /\ r.taskState.activeTaskId = t /\ r.taskState.activeMilestoneId = m
  /\ r.taskState.milestones = s.taskState.milestones
  /\ r.taskState.tasks = s.taskState.tasks
  /\ r.taskState.taskBlockers = s.taskState.taskBlockers
  /\ r.taskState.taskRecoveryHints = s.taskState.taskRecoveryHints

LEMMA AgreedEffect ==
  ASSUME NEW s \in Session, NEW t \in TaskIds \cup {NoTask}, NEW m \in MilestoneIds \cup {NoMilestone},
         NEW v \in VerificationStatuses, NEW path \in BOOLEAN, NEW handoff \in Handoffs
  PROVE  Copied(s, Agreed(s, t, m, v, path, handoff), t, m, v, path)
<1> DEFINE onTask == WithActiveTask(s, t)
           onMilestone == WithMilestone(onTask, m)
           reported == WithReport(onMilestone, v, path)
           r == Agreed(s, t, m, v, path, handoff)
           Same(x, y) == /\ y.state.phase = x.state.phase
                         /\ y.state.currentFlow = x.state.currentFlow
                         /\ y.state.blocker = x.state.blocker
                         /\ y.taskState.milestones = x.taskState.milestones
                         /\ y.taskState.tasks = x.taskState.tasks
                         /\ y.taskState.taskBlockers = x.taskState.taskBlockers
                         /\ y.taskState.taskRecoveryHints = x.taskState.taskRecoveryHints
<1>1. onTask \in Session /\ Same(s, onTask) /\ onTask.taskState.activeTaskId = t
  BY DEF WithActiveTask, Session, RunState, TaskState
<1> HIDE DEF onTask
<1>2. onMilestone \in Session /\ Same(onTask, onMilestone)
      /\ onMilestone.taskState.activeTaskId = t /\ onMilestone.taskState.activeMilestoneId = m
  BY <1>1 DEF WithMilestone, Session, RunState, TaskState
<1> HIDE DEF onMilestone
<1>3. reported \in Session /\ Same(onMilestone, reported)
      /\ reported.taskState.activeTaskId = t /\ reported.taskState.activeMilestoneId = m
      /\ reported.state.lastVerificationStatus = v /\ reported.state.lastVerificationPath = path
  BY <1>2 DEF WithReport, Session, RunState, TaskState
<1> HIDE DEF reported
<1>4. r = WithHandoff(reported, handoff)
  BY DEF Agreed, reported, onMilestone, onTask
<1> HIDE DEF r
<1>5. /\ Same(reported, r)
      /\ r.taskState.activeTaskId = t /\ r.taskState.activeMilestoneId = m
      /\ r.state.lastVerificationStatus = v /\ r.state.lastVerificationPath = path
  BY <1>3, <1>4 DEF WithHandoff, Session, RunState, TaskState
<1>6. QED
  BY <1>1, <1>2, <1>3, <1>5 DEF r, Copied

\* Blockers that are not the active task's are dropped, the active task's is known.
LEMMA KnownBlockerOrdered ==
  ASSUME NEW s \in Session, Ordered(s), NEW a \in Session, NEW t \in TaskIds \cup {NoTask},
         t = Active(s), a.taskState.activeTaskId = t,
         a.state.phase = s.state.phase, a.state.currentFlow = s.state.currentFlow,
         a.state.blocker = s.state.blocker,
         a.state.lastVerificationStatus = s.state.lastVerificationStatus,
         a.state.lastVerificationPath = s.state.lastVerificationPath,
         s.taskState.activeMilestoneId # NoMilestone => a.taskState.activeMilestoneId # NoMilestone,
         a.taskState.milestones = s.taskState.milestones,
         a.taskState.tasks = s.taskState.tasks,
         a.taskState.taskBlockers = s.taskState.taskBlockers,
         a.taskState.taskRecoveryHints = s.taskState.taskRecoveryHints
  PROVE  /\ Ordered(WithKnownBlocker(a, t))
         /\ ~Waits(WithKnownBlocker(a, t)) \/ WithKnownBlocker(a, t).state.blocker = "none"
<1> DEFINE r == WithKnownBlocker(a, t)
<1>1. ActiveStatus(s) = StatusOf(a, t) /\ BlockerOf(a, t) = BlockerOf(s, t)
  BY DEF ActiveStatus, StatusOf, BlockerOf
<1>2. /\ r.state.phase = s.state.phase /\ r.state.currentFlow = s.state.currentFlow
      /\ r.state.lastVerificationStatus = s.state.lastVerificationStatus
      /\ r.state.lastVerificationPath = s.state.lastVerificationPath
      /\ r.taskState.activeTaskId = t
      /\ r.taskState.activeMilestoneId = a.taskState.activeMilestoneId
      /\ r.taskState.milestones = s.taskState.milestones
      /\ r.taskState.tasks = s.taskState.tasks
  <2>1. \A b : LET x == WithBlocker(a, b)
                   y == WithTaskBlocker(a, t, b)
                   z == WithHint(WithTaskBlocker(WithBlocker(a, b), t, b), t, b)
                   Same(q) == /\ q.state.phase = a.state.phase
                              /\ q.state.currentFlow = a.state.currentFlow
                              /\ q.state.lastVerificationStatus = a.state.lastVerificationStatus
                              /\ q.state.lastVerificationPath = a.state.lastVerificationPath
                              /\ q.taskState.activeTaskId = t
                              /\ q.taskState.activeMilestoneId = a.taskState.activeMilestoneId
                              /\ q.taskState.milestones = a.taskState.milestones
                              /\ q.taskState.tasks = a.taskState.tasks
               IN  Same(x) /\ Same(y) /\ Same(z)
    BY DEF WithBlocker, WithTaskBlocker, WithHint, Session, RunState, TaskState
  <2> HIDE DEF r
  <2>2. QED
    BY <2>1 DEF WithKnownBlocker, r
<1>3. ASSUME t = NoTask \/ StatusOf(a, t) # "blocked"
      PROVE  /\ r.state.blocker = "none"
             /\ \A u \in TaskIds \ {t} : /\ r.taskState.taskBlockers[u] = s.taskState.taskBlockers[u]
                                         /\ r.taskState.taskRecoveryHints[u] = s.taskState.taskRecoveryHints[u]
             /\ t # NoTask => r.taskState.taskBlockers[t] = "none" /\ r.taskState.taskRecoveryHints[t] = "none"
  <2>1. CASE t = NoTask
    <3>1. r = WithBlocker(a, "none")
      BY <2>1 DEF WithKnownBlocker, StatusOf
    <3>2. QED
      BY <2>1, <3>1 DEF WithBlocker, Session, RunState, TaskState
  <2>2. CASE t # NoTask
    <3>1. r = WithHint(WithTaskBlocker(WithBlocker(a, "none"), t, "none"), t, "none")
      BY <1>3, <2>2 DEF WithKnownBlocker
    <3> DEFINE b == WithBlocker(a, "none")
    <3>2. b \in Session /\ b.taskState = a.taskState /\ b.state.blocker = "none"
      BY Values DEF WithBlocker, Session, RunState
    <3>3. r = WithHint(WithTaskBlocker(b, t, "none"), t, "none")
      BY <3>1
    <3> HIDE DEF b, r
    <3>4. r.state = b.state
      BY <3>2, <3>3 DEF WithHint, WithTaskBlocker, Session
    <3>5. /\ r.taskState.taskBlockers = [b.taskState.taskBlockers EXCEPT ![t] = "none"]
          /\ r.taskState.taskRecoveryHints = [b.taskState.taskRecoveryHints EXCEPT ![t] = "none"]
      BY <3>2, <3>3 DEF WithHint, WithTaskBlocker, Session, TaskState
    <3>6. /\ a.taskState.taskBlockers \in [TaskIds -> Blockers]
          /\ a.taskState.taskRecoveryHints \in [TaskIds -> Hints]
      BY DEF Session, TaskState
    <3>7. QED
      BY <2>2, <3>2, <3>4, <3>5, <3>6
  <2>3. QED
    BY <2>1, <2>2
<1>4. ASSUME t # NoTask, StatusOf(a, t) = "blocked"
      PROVE  /\ r.state.blocker \in {"none", r.taskState.taskBlockers[t]}
             /\ \A u \in TaskIds \ {t} : r.taskState.taskBlockers[u] = s.taskState.taskBlockers[u]
             /\ r.taskState.taskRecoveryHints = s.taskState.taskRecoveryHints
  <2>1. t \in TaskIds
    BY <1>4
  <2>2. CASE a.state.blocker = "none"
    <3>1. r = WithBlocker(a, BlockerOf(a, t))
      BY <1>4, <2>2 DEF WithKnownBlocker
    <3>2. QED
      BY <1>4, <3>1 DEF WithBlocker, BlockerOf, Session, RunState, TaskState
  <2>3. CASE a.state.blocker # "none" /\ BlockerOf(a, t) = "none"
    <3>1. r = WithTaskBlocker(a, t, a.state.blocker)
      BY <1>4, <2>3 DEF WithKnownBlocker
    <3>2. QED
      BY <2>1, <3>1 DEF WithTaskBlocker, Session, RunState, TaskState
  <2>4. CASE a.state.blocker # "none" /\ BlockerOf(a, t) # "none"
    <3>1. r = a
      BY <1>4, <2>4 DEF WithKnownBlocker
    <3>2. ~Waits(s)
      BY <1>1, <1>4 DEF Waits
    <3>3. a.state.blocker = s.taskState.taskBlockers[t]
      BY <2>4, <3>2 DEF Ordered, BlockerFits
    <3>4. QED
      BY <3>1, <3>3
  <2>5. QED
    BY <2>2, <2>3, <2>4
<1> HIDE DEF r
<1>5. Active(r) = Active(s) /\ ActiveStatus(r) = ActiveStatus(s)
  BY <1>2 DEF Active, ActiveStatus, StatusOf
<1>6. OneAtWork(r) /\ Staged(r)
  BY <1>2, <1>5 DEF Ordered, OneAtWork, Staged
<1>7. CanAdvance(s) => CanAdvance(r)
  <2>1. a.taskState.activeMilestoneId \in MilestoneIds \cup {NoMilestone}
    BY DEF Session, TaskState
  <2>2. CanAdvance(s) => \A n \in MilestoneIds : s.taskState.milestones[n] # "absent"
    BY DEF Ordered, Staged, CanAdvance, Milestones
  <2>3. QED
    BY <1>2, <2>1, <2>2 DEF CanAdvance, Milestones
<1>8. PassedReview(s) => PassedReview(r)
  BY <1>2 DEF PassedReview
<1>9. PhaseFits(r)
  BY <1>2, <1>5, <1>7, <1>8 DEF Ordered, PhaseFits
<1>10. NotedWhenBlocked(r)
  <2> SUFFICES ASSUME NEW u \in TaskIds, r.taskState.tasks[u] # "blocked"
               PROVE  r.taskState.taskBlockers[u] = "none" /\ r.taskState.taskRecoveryHints[u] = "none"
    BY DEF NotedWhenBlocked
  <2>1. s.taskState.taskBlockers[u] = "none" /\ s.taskState.taskRecoveryHints[u] = "none"
    BY <1>2 DEF Ordered, NotedWhenBlocked
  <2>2. CASE t = NoTask \/ StatusOf(a, t) # "blocked"
    BY <1>3, <2>1, <2>2 DEF NoTask, TaskIds
  <2>3. CASE t # NoTask /\ StatusOf(a, t) = "blocked"
    <3>1. u # t
      BY <1>2, <2>3 DEF StatusOf
    <3>2. QED
      BY <1>4, <2>1, <2>3, <3>1
  <2>4. QED
    BY <2>2, <2>3
<1>11. BlockerFits(r)
  BY <1>1, <1>2, <1>3, <1>4, <1>5 DEF BlockerFits
<1>12. ~Waits(r) \/ r.state.blocker = "none"
  BY <1>1, <1>3, <1>5 DEF Waits, ActiveStatus, StatusOf
<1>13. QED
  BY <1>6, <1>9, <1>10, <1>11, <1>12 DEF Ordered, r

LEMMA HydratedEffect ==
  ASSUME NEW s \in Session
  PROVE  LET r == Hydrated(s)
         IN  /\ r.state = s.state /\ r.taskState.activeTaskId = s.taskState.activeTaskId
             /\ r.taskState.activeMilestoneId = s.taskState.activeMilestoneId
             /\ r.taskState.milestones = s.taskState.milestones
             /\ r.taskState.tasks = s.taskState.tasks
             /\ r.taskState.taskBlockers = s.taskState.taskBlockers
             /\ r.taskState.taskRecoveryHints = s.taskState.taskRecoveryHints
<1> DEFINE tags == [t \in TaskIds |-> OrElse(s.taskState.taskMilestones[t], OrElse(PlanMilestone[t],
                      IF t \in Milestones(s) THEN t ELSE NoMilestone))]
           l == [s.taskState EXCEPT !.planned = TRUE, !.taskMilestones = tags]
<1>1. ASSUME s.state.activePlanPath
      PROVE  Hydrated(s) = [state |-> s.state, taskState |-> l]
  BY <1>1 DEF Hydrated, Session, TaskState
<1>2. ~s.state.activePlanPath => Hydrated(s) = s
  BY DEF Hydrated
<1> HIDE DEF tags
<1>3. /\ l.activeTaskId = s.taskState.activeTaskId
      /\ l.activeMilestoneId = s.taskState.activeMilestoneId
      /\ l.milestones = s.taskState.milestones
      /\ l.tasks = s.taskState.tasks
      /\ l.taskBlockers = s.taskState.taskBlockers
      /\ l.taskRecoveryHints = s.taskState.taskRecoveryHints
  BY DEF Session, TaskState
<1> HIDE DEF l
<1>4. QED
  BY <1>1, <1>2, <1>3

\* A new process finds the run that it loads.
LEMMA LoadedOrdered ==
  ASSUME NEW s \in Session, Sound(s), Ordered(s)
  PROVE  Ordered(Loaded(s)) /\ Loaded(s).taskState.tasks = s.taskState.tasks
<1> DEFINE t == ActiveTask(s)
           tag == IF t = NoTask THEN NoMilestone ELSE s.taskState.taskMilestones[t]
           m == OrElse(tag, OrElse(s.taskState.activeMilestoneId, s.state.activeMilestoneId))
           path == s.state.lastVerificationPath \/ s.taskState.lastVerificationPath
           recorded == IF s.state.lastVerificationStatus # "none"
                       THEN s.state.lastVerificationStatus ELSE s.taskState.lastVerificationStatus
           verdict == IF recorded = "none" /\ path THEN InferredVerdict(StatusOf(s, t)) ELSE recorded
           handoff == IF s.state.lastHandoffPath # NoHandoff
                      THEN s.state.lastHandoffPath ELSE s.taskState.lastHandoffPath
           agreed == Agreed(s, t, m, verdict, path, handoff)
           known == Reconciled(s)
           r == Loaded(s)
<1>1. t = Active(s) /\ t \in TaskIds \cup {NoTask}
  BY DEF ActiveTask, OrElse, Sound, Agree, Session, RunState, TaskState, Active
<1>2. verdict = s.state.lastVerificationStatus /\ path = s.state.lastVerificationPath
      /\ (path => verdict # "none")
  BY DEF Sound, Agree, Reported, Session, RunState, TaskState
<1>3. verdict \in VerificationStatuses /\ path \in BOOLEAN /\ handoff \in Handoffs
  BY <1>2 DEF Session, RunState, TaskState
<1>4. m \in MilestoneIds \cup {NoMilestone}
      /\ (s.taskState.activeMilestoneId # NoMilestone => m # NoMilestone)
  BY <1>1 DEF OrElse, Session, TaskState, RunState, NoMilestone, MilestoneIds
<1>5. known = WithKnownBlocker(agreed, t)
  BY DEF Reconciled
<1> HIDE DEF t, m, path, verdict, handoff
<1>6. agreed \in Session
  BY <1>1, <1>2, <1>3, <1>4, AgreedSound DEF Sound
<1>7. /\ agreed.state.phase = s.state.phase /\ agreed.state.currentFlow = s.state.currentFlow
      /\ agreed.state.blocker = s.state.blocker
      /\ agreed.state.lastVerificationStatus = s.state.lastVerificationStatus
      /\ agreed.state.lastVerificationPath = s.state.lastVerificationPath
      /\ agreed.taskState.activeTaskId = t /\ agreed.taskState.activeMilestoneId = m
      /\ agreed.taskState.milestones = s.taskState.milestones
      /\ agreed.taskState.tasks = s.taskState.tasks
      /\ agreed.taskState.taskBlockers = s.taskState.taskBlockers
      /\ agreed.taskState.taskRecoveryHints = s.taskState.taskRecoveryHints
  <2>1. Copied(s, agreed, t, m, verdict, path)
    BY <1>1, <1>3, <1>4, AgreedEffect
  <2>2. QED
    BY <1>2, <2>1 DEF Copied
<1> HIDE DEF agreed
<1>8. known \in Session /\ Ordered(known) /\ (~Waits(known) \/ known.state.blocker = "none")
  BY <1>1, <1>4, <1>5, <1>6, <1>7, KnownBlockerOrdered, ReconciledSound DEF Sound
<1> HIDE DEF known
<1>9. r = Hydrated(known) /\ r \in Session /\ r.taskState.tasks = s.taskState.tasks
  BY LoadedSound, LoadedSame DEF Loaded, known, Sound, SameRun
<1>10. /\ r.state = known.state /\ r.taskState.activeTaskId = known.taskState.activeTaskId
       /\ r.taskState.activeMilestoneId = known.taskState.activeMilestoneId
       /\ r.taskState.milestones = known.taskState.milestones
       /\ r.taskState.tasks = known.taskState.tasks
       /\ r.taskState.taskBlockers = known.taskState.taskBlockers
       /\ r.taskState.taskRecoveryHints = known.taskState.taskRecoveryHints
  BY <1>8, <1>9, HydratedEffect
<1> HIDE DEF r
<1>11. Active(r) = Active(known) /\ ActiveStatus(r) = ActiveStatus(known)
       /\ (CanAdvance(known) => CanAdvance(r)) /\ (PassedReview(known) => PassedReview(r))
  BY <1>10 DEF Active, ActiveStatus, StatusOf, CanAdvance, Milestones, PassedReview
<1>12. OneAtWork(r) /\ PhaseFits(r) /\ NotedWhenBlocked(r) /\ BlockerFits(r) /\ Staged(r)
  BY <1>8, <1>10, <1>11 DEF Ordered, OneAtWork, PhaseFits, NotedWhenBlocked, BlockerFits, Staged
<1>13. QED
  BY <1>9, <1>12 DEF Ordered, r

-----------------------------------------------------------------------------
(* continueTaskLoop, from the innermost call out.  It goes on from a session s, *)
(* with a persisted session d behind it.                                         *)

\* The invariant of the memory s, the disk d and the tasks in evidence.
Steady(s, d, tasks) == Ordered(s) /\ Ordered(d) /\ Behind(s, d) /\ Covered(s, tasks)

\* A call on s ends in the invariant, neither throws a refused transition nor gives a
\* worker read-only tools, and finishes only what was validated.
Moved(s) ==
  /\ Steady(session', disk', evidence')
  /\ reply'.outcome \notin {"hung", "invalid_transition"} /\ reply'.tools # "read_only"
  /\ \A t \in TaskIds : session'.taskState.tasks[t] = "done" =>
                          s.taskState.tasks[t] \in {"done", "validated"}

LEMMA NoneValidated ==
  ASSUME NEW s \in Session, Ordered(s), ActiveStatus(s) # "validated", NEW tasks
  PROVE  Covered(s, tasks)
  BY DEF Covered, Ordered, OneAtWork, ActiveStatus, StatusOf, InWork, TaskIds, NoTask

LEMMA SavedMoved ==
  ASSUME NEW s \in Session, NEW r \in Session, Ordered(r), Covered(r, evidence'), Saved(r),
         \A t \in TaskIds : r.taskState.tasks[t] = "done" => s.taskState.tasks[t] \in {"done", "validated"}
  PROVE  Moved(s)
<1>1. Behind(r, r)
  BY DEF Behind
<1>2. session' = r /\ disk' = r /\ reply' = [outcome |-> "ok", tools |-> "none"]
  BY DEF Saved, Return, Replied
<1>3. QED
  BY <1>1, <1>2 DEF Moved, Steady

\* The parts of continueTaskLoop.
LEMMA ExecuteMoved ==
  ASSUME NEW s \in Session, Sound(s), Ordered(s), NEW d \in Session, Ordered(d), Behind(s, d),
         NEW t \in TaskIds, t = Active(s), s.taskState.tasks[t] = "todo", Execute(s, d)
  PROVE  Moved(s)
<1> DEFINE begun == ExecutionStarted(s)
           tools == GrantedTools(begun, t)
<1>1. /\ Ordered(begun) /\ begun.state.activeTaskId = t /\ Active(begun) = t
      /\ OnlyTouches(s, begun, t) /\ begun.taskState.tasks[t] = "in_progress"
      /\ begun.state.phase = "implementing" /\ begun.state.blocker = "none"
      /\ begun.taskState.taskBlockers[t] = "none"
      /\ begun.taskState.resumePhase = "implementing"
  BY BegunOrdered
<1>2. begun \in Session /\ Sound(begun)
  BY ExecutionStartedSound DEF Sound
<1>3. tools # "read_only"
  <2>1. t # NoTask
    BY DEF TaskIds, NoTask
  <2>2. UsesAgent(begun, t) => TaskKind(begun, t) \in {"none", "implementation"}
    BY DEF UsesAgent
  <2>3. UsesAgent(begun, t) => MayWrite(begun, t)
    BY <1>1, <2>1, <2>2 DEF MayWrite, StatusOf, BlockerOf
  <2>4. QED
    BY <2>3 DEF GrantedTools
<1>4. ASSUME NEW satisfied \in BOOLEAN,
             Return(ExecutionEnded(begun, t, satisfied), ExecutionEnded(begun, t, satisfied),
                    [outcome |-> "ok", tools |-> tools])
      PROVE  Moved(s)
  <2> HIDE DEF begun
  <2> DEFINE ended == ExecutionEnded(begun, t, satisfied)
  <2>1. /\ Ordered(ended) /\ OnlyTouches(begun, ended, t)
        /\ ended.taskState.tasks[t] \in {"in_progress", "blocked"}
        /\ Active(ended) = t
    BY <1>1, <1>2, ExecutionEndedOrdered
  <2>2. ended \in Session
    <3>1. begun.taskState.resumePhase = "implementing"
      BY <1>1
    <3>2. QED
      BY <1>2, <3>1, ExecutionEndedSound DEF Sound
  <2>3. session' = ended /\ disk' = ended /\ reply'.outcome = "ok" /\ reply'.tools = tools
    BY <1>4 DEF Return
  <2> HIDE DEF ended, tools
  <2>4. ActiveStatus(ended) # "validated"
    BY <2>1 DEF ActiveStatus, StatusOf
  <2>5. Covered(ended, evidence')
    BY <2>1, <2>2, <2>4, NoneValidated
  <2>6. \A u \in TaskIds : ended.taskState.tasks[u] = "done" => s.taskState.tasks[u] = "done"
    BY <1>1, <2>1 DEF OnlyTouches
  <2>7. QED
    BY <1>3, <2>1, <2>3, <2>5, <2>6 DEF Moved, Steady, Behind
<1>5. ASSUME Return(begun, d, [outcome |-> "agent_failed", tools |-> tools])
      PROVE  Moved(s)
  <2>1. session' = begun /\ disk' = d /\ reply'.outcome = "agent_failed" /\ reply'.tools = tools
    BY <1>5 DEF Return
  <2> HIDE DEF begun, tools
  <2>2. ActiveStatus(begun) # "validated"
    BY <1>1 DEF ActiveStatus, StatusOf
  <2>3. Covered(begun, evidence')
    BY <1>1, <1>2, <2>2, NoneValidated
  <2>4. Behind(begun, d)
    BY <1>1 DEF Behind, OnlyTouches
  <2>5. \A u \in TaskIds : begun.taskState.tasks[u] = "done" => s.taskState.tasks[u] = "done"
    BY <1>1 DEF OnlyTouches
  <2>6. QED
    BY <1>1, <1>3, <2>1, <2>3, <2>4, <2>5 DEF Moved, Steady
<1>6. QED
  BY <1>1, <1>4, <1>5 DEF Execute

LEMMA VerifyMoved ==
  ASSUME NEW s \in Session, Sound(s), Ordered(s), NEW d \in Session, Ordered(d), Behind(s, d),
         NEW t \in TaskIds, t = Active(s), s.taskState.tasks[t] = "in_progress", Verify(s, d)
  PROVE  Moved(s)
<1> DEFINE opened == VerificationStarted(s)
           checked == InPhase(opened, "verifying")
           target == checked.state.activeTaskId
<1>1. /\ CanTransition(opened.state.phase, "verifying")
      /\ Sound(checked) /\ Ordered(checked)
      /\ checked.taskState = s.taskState /\ target = t
  BY OpenedOrdered
<1>2. checked \in Session /\ Active(checked) = t
  BY <1>1 DEF Sound, Active
<1>3. ASSUME NEW commandsPass \in BOOLEAN,
             Saved(VerificationEnded(checked, FailedChecks(checked, target, commandsPass))),
             evidence' = IF VerificationStatus(checked, FailedChecks(checked, target, commandsPass)) = "pass"
                         THEN StillKnown(checked) \cup {target}
                         ELSE StillKnown(checked) \ {target}
      PROVE  Moved(s)
  <2> DEFINE failed == FailedChecks(checked, target, commandsPass)
             ended == VerificationEnded(checked, failed)
  <2>1. /\ Ordered(ended) /\ OnlyTouches(checked, ended, t) /\ Active(ended) = t
        /\ ended.taskState.tasks[t] \in {"validated", "blocked"}
        /\ ended.taskState.tasks[t] = "validated" <=> VerificationStatus(checked, failed) = "pass"
    <3> HIDE DEF checked, failed, target
    <3>1. QED
      BY <1>1, <1>2, VerdictOrdered
  <2>2. ended \in Session
    <3> HIDE DEF checked, failed, target
    <3>1. QED
      BY <1>1, <1>2, VerificationEndedSound DEF Sound
  <2>3. Saved(ended) /\ (VerificationStatus(checked, failed) = "pass" => t \in evidence')
    BY <1>1, <1>3
  <2> HIDE DEF ended, failed, checked, target
  <2>4. Covered(ended, evidence')
    <3>1. CASE ended.taskState.tasks[t] = "validated"
      BY <2>1, <2>3, <3>1 DEF Covered, Ordered, OneAtWork, InWork
    <3>2. CASE ended.taskState.tasks[t] # "validated"
      BY <2>1, <2>2, <3>2, NoneValidated DEF ActiveStatus, StatusOf
    <3>3. QED
      BY <3>1, <3>2
  <2>5. \A u \in TaskIds : ended.taskState.tasks[u] = "done" => s.taskState.tasks[u] = "done"
    BY <1>1, <2>1 DEF OnlyTouches
  <2>6. QED
    BY <2>1, <2>2, <2>3, <2>4, <2>5, SavedMoved
<1>4. ASSUME Unsaved(checked, d, "checks_failed")
      PROVE  Moved(s)
  <2>1. session' = checked /\ disk' = d /\ reply' = [outcome |-> "checks_failed", tools |-> "none"]
    BY <1>4 DEF Unsaved, Return, Replied
  <2> HIDE DEF checked
  <2>2. ActiveStatus(checked) # "validated"
    BY <1>1, <1>2 DEF ActiveStatus, StatusOf, Active
  <2>3. Covered(checked, evidence')
    BY <1>1, <1>2, <2>2, NoneValidated
  <2>4. Behind(checked, d)
    BY <1>1 DEF Behind
  <2>5. QED
    BY <1>1, <2>1, <2>3, <2>4 DEF Moved, Steady
<1>5. QED
  BY <1>1, <1>3, <1>4 DEF Verify

LEMMA StartTaskMoved ==
  ASSUME NEW s \in Session, Sound(s), Ordered(s), NEW d \in Session, Ordered(d), Behind(s, d),
         NEW t \in TaskIds, t = Active(s), s.taskState.tasks[t] = "todo", s.state.phase # "paused",
         StartTask(s, d)
  PROVE  Moved(s)
<1> DEFINE begun == Started(s, t)
           paused == PausedOn(s, t)
<1>1. t # NoTask /\ ActiveStatus(s) = "todo" /\ s.state.blocker = "none" /\ t = s.taskState.activeTaskId
  BY QueuedIsClean DEF Active
<1>2. CASE Saved(paused)
  <2>1. Ordered(paused)
    BY <1>1, PausedOnOrdered DEF Active
  <2>2. paused \in Session
    BY PausedOnSound DEF Sound
  <2>3. paused.taskState.tasks = s.taskState.tasks /\ paused.taskState.activeTaskId = t
    BY DEF PausedOn, Entered, WithActiveTask, Session, TaskState
  <2> HIDE DEF paused
  <2>4. Covered(paused, evidence')
    BY <1>1, <2>1, <2>2, <2>3, NoneValidated DEF ActiveStatus, StatusOf, Active
  <2>5. QED
    BY <1>2, <2>1, <2>2, <2>3, <2>4, SavedMoved
<1>3. CASE Verify(begun, begun)
  <2>1. /\ Sound(begun) /\ Ordered(begun) /\ OnlyTouches(s, begun, t)
        /\ Active(begun) = t /\ begun.taskState.tasks[t] = "in_progress"
    BY StartedOrdered
  <2>2. Behind(begun, begun) /\ begun \in Session
    BY <2>1 DEF Behind, Sound
  <2> HIDE DEF begun
  <2>3. Moved(begun)
    BY <1>3, <2>1, <2>2, VerifyMoved
  <2>4. QED
    BY <2>1, <2>3 DEF Moved, OnlyTouches
<1>4. CASE Execute(s, d)
  BY <1>4, ExecuteMoved
<1>5. QED
  BY <1>1, <1>2, <1>3, <1>4 DEF StartTask

\* A done active task is left for the next one, or for the next milestone.
LEMMA LeaveTaskMoved ==
  ASSUME NEW s \in Session, Sound(s), Ordered(s), NEW d \in Session, Ordered(d), Behind(s, d),
         ActiveStatus(s) = "done", s.state.phase # "completed", LeaveTask(s, d)
  PROVE  Moved(s)
<1> DEFINE t == s.taskState.activeTaskId
           next == NextTodoTask(s, t)
           pending == NextPendingTask(s, t)
           advanced == Advanced(s)
           turned == InPhase(WithActiveTask(s, next), "planning")
           paused == PausedOn(s, pending)
<1>1. t \in TaskIds /\ t # NoTask /\ CanAdvance(s)
  BY DEF Ordered, PhaseFits, ActiveStatus, StatusOf, Active, Session, TaskState
<1>2. next # NoTask \/ pending # NoTask => s.state.blocker = "none"
  BY DEF Ordered, BlockerFits, Waits, Active
<1>3. /\ next # NoTask => next \in TaskIds /\ s.taskState.tasks[next] = "todo"
      /\ pending # NoTask => pending \in TaskIds /\ s.taskState.tasks[pending] = "todo"
  BY FirstOfType DEF NextTodoTask, NextPendingTask, Ready, After, OpenTasks, NoTask
<1>4. ASSUME NEW u \in TaskIds, s.taskState.tasks[u] = "todo", s.state.blocker = "none",
             NEW r, r \in {InPhase(WithActiveTask(s, u), "planning"), PausedOn(s, u)}, Saved(r)
      PROVE  Moved(s)
  <2>1. Ordered(r) /\ r \in Session
    BY <1>1, <1>4, PausedOnOrdered, PausedOnSound, PickedSound DEF Active, Sound
  <2>2. r.taskState.tasks = s.taskState.tasks /\ r.taskState.activeTaskId = u
    <3>1. CASE r = InPhase(WithActiveTask(s, u), "planning")
      BY <3>1 DEF InPhase, WithActiveTask, Session, TaskState
    <3>2. CASE r = PausedOn(s, u)
      BY <3>2 DEF PausedOn, Entered, WithActiveTask, Session, TaskState
    <3>3. QED
      BY <1>4, <3>1, <3>2
  <2>3. Covered(r, evidence')
    BY <1>4, <2>1, <2>2, NoneValidated DEF ActiveStatus, StatusOf, Active
  <2>4. QED
    BY <1>4, <2>1, <2>2, <2>3, SavedMoved
<1>5. CASE next # NoTask /\ Saved(turned)
  BY <1>2, <1>3, <1>4, <1>5
<1>6. CASE pending # NoTask /\ Saved(paused)
  BY <1>2, <1>3, <1>4, <1>6
<1>7. ASSUME next = NoTask, pending = NoTask
      PROVE  /\ Ordered(advanced) /\ AtRest(advanced) /\ advanced \in Session /\ Sound(advanced)
             /\ advanced.state.phase = "planning" =>
                  /\ Active(advanced) \in TaskIds /\ advanced.taskState.tasks[Active(advanced)] = "todo"
                  /\ OnlyTouches(s, advanced, Active(advanced))
             /\ advanced.state.phase # "planning" => advanced.taskState.tasks = s.taskState.tasks
             /\ \A u \in TaskIds : advanced.taskState.tasks[u] = "done" => s.taskState.tasks[u] = "done"
  <2>1. NextTodoTask(s, Active(s)) = NoTask /\ NextPendingTask(s, Active(s)) = NoTask
    BY <1>7 DEF Active
  <2>2. advanced \in Session /\ Sound(advanced)
    BY <1>1, AdvancedSound DEF Sound
  <2>3. /\ Ordered(advanced) /\ AtRest(advanced)
        /\ advanced.state.phase = "planning" =>
                  /\ Active(advanced) \in TaskIds /\ advanced.taskState.tasks[Active(advanced)] = "todo"
                  /\ OnlyTouches(s, advanced, Active(advanced))
        /\ advanced.state.phase # "planning" => advanced.taskState.tasks = s.taskState.tasks
    BY <1>1, <2>1, AdvancedOrdered
  <2> HIDE DEF advanced
  <2>4. \A u \in TaskIds : advanced.taskState.tasks[u] = "done" => s.taskState.tasks[u] = "done"
    BY <2>3 DEF OnlyTouches
  <2>5. QED
    BY <2>2, <2>3, <2>4
<1>8. CASE next = NoTask /\ pending = NoTask /\ Saved(advanced)
  <2> HIDE DEF advanced
  <2>1. Covered(advanced, evidence')
    BY <1>7, <1>8 DEF Covered, AtRest, InWork
  <2>2. QED
    BY <1>7, <1>8, <2>1, SavedMoved
<1>9. CASE next = NoTask /\ pending = NoTask /\ advanced.state.phase = "planning" /\ StartTask(advanced, advanced)
  <2> HIDE DEF advanced
  <2>1. Behind(advanced, advanced)
    BY DEF Behind
  <2>2. Moved(advanced)
    BY <1>7, <1>9, <2>1, StartTaskMoved
  <2>3. \A u \in TaskIds : advanced.taskState.tasks[u] = "validated" => FALSE
    BY <1>7, <1>9 DEF AtRest, InWork
  <2>4. QED
    BY <1>7, <1>9, <2>2, <2>3 DEF Moved
<1>10. QED
  BY <1>1, <1>5, <1>6, <1>8, <1>9 DEF LeaveTask

LEMMA RefusedMoved ==
  ASSUME NEW s \in Session, NEW d \in Session, Steady(s, d, evidence), evidence' = evidence,
         Unsaved(s, d, "refused")
  PROVE  Moved(s)
<1>1. session' = s /\ disk' = d /\ reply' = [outcome |-> "refused", tools |-> "none"]
  BY DEF Unsaved, Return, Replied
<1>2. QED
  BY <1>1 DEF Moved

LEMMA RunTaskMoved ==
  ASSUME NEW s \in Session, Sound(s), NEW d \in Session, Steady(s, d, evidence),
         s.state.phase # "completed", s.state.phase = "paused" => s.state.blocker # "none",
         RunTask(s, d)
  PROVE  Moved(s)
<1> DEFINE t == s.taskState.activeTaskId
           requeued == AutoRecovered(s, t)
<1>1. /\ t \in TaskIds \cup {NoTask} /\ t = Active(s) /\ StatusOf(s, t) = ActiveStatus(s)
      /\ Ordered(s) /\ Ordered(d) /\ Behind(s, d)
  BY DEF Session, TaskState, Active, ActiveStatus, Steady
<1>2. StatusOf(s, t) # "absent" => t \in TaskIds /\ StatusOf(s, t) = s.taskState.tasks[t]
  BY <1>1 DEF StatusOf
<1>3. CASE StatusOf(s, t) = "todo" /\ StartTask(s, d)
  <2>1. t \in TaskIds /\ s.taskState.tasks[t] = "todo" /\ s.state.phase # "paused"
    BY <1>1, <1>2, <1>3, QueuedIsClean
  <2>2. QED
    BY <1>1, <1>3, <2>1, StartTaskMoved
<1>4. CASE StatusOf(s, t) = "in_progress" /\ Verify(s, d)
  BY <1>1, <1>2, <1>4, VerifyMoved
<1>5. CASE StatusOf(s, t) = "validated" /\ Saved(Reviewed(s)) /\ evidence' = evidence
  <2> DEFINE r == Reviewed(s)
  <2>1. /\ t \in TaskIds /\ s.taskState.tasks[t] = "validated"
        /\ s.state.phase = "reviewing"
    BY <1>1, <1>2, <1>5 DEF Ordered, PhaseFits, PassedReview
  <2>2. r \in Session
    BY ReviewedSound DEF Sound
  <2>3. Ordered(r) /\ OnlyTouches(s, r, t) /\ r.taskState.tasks[t] = "done"
    BY <1>1, <2>1, ReviewedOrdered
  <2> HIDE DEF r
  <2>4. Covered(r, evidence')
    BY <1>5, <2>1, <2>3 DEF Steady, Covered, OnlyTouches
  <2>5. \A u \in TaskIds : r.taskState.tasks[u] = "done" => s.taskState.tasks[u] \in {"done", "validated"}
    BY <2>1, <2>3 DEF OnlyTouches
  <2>6. QED
    BY <1>5, <2>2, <2>3, <2>4, <2>5, SavedMoved DEF r
<1>6. CASE StatusOf(s, t) = "done" /\ LeaveTask(s, d)
  BY <1>1, <1>6, LeaveTaskMoved
<1>7. CASE StatusOf(s, t) = "blocked" /\ StartTask(requeued, requeued)
  <2>1. t \in TaskIds /\ s.taskState.tasks[t] = "blocked"
    BY <1>2, <1>7
  <2>2. /\ Ordered(requeued) /\ OnlyTouches(s, requeued, t) /\ SamePlace(s, requeued)
        /\ requeued.taskState.tasks[t] = "todo" /\ requeued.state.phase = "planning"
    BY <1>1, <2>1, AutoRecoveredOrdered
  <2>3. Sound(requeued) /\ requeued \in Session
    BY <2>1, OverridesSound DEF Sound
  <2> HIDE DEF requeued
  <2>4. Behind(requeued, requeued) /\ Active(requeued) = t
    BY <1>1, <2>2 DEF Behind, SamePlace, Active
  <2>5. Moved(requeued)
    BY <1>7, <2>1, <2>2, <2>3, <2>4, StartTaskMoved
  <2>6. QED
    BY <2>2, <2>5 DEF Moved, OnlyTouches
<1>8. CASE Unsaved(s, d, "refused") /\ evidence' = evidence
  BY <1>8, RefusedMoved
<1>9. QED
  BY <1>3, <1>4, <1>5, <1>6, <1>7, <1>8 DEF RunTask

\* A run that is not completed has its active task, or no task to pick.
LEMMA NothingToPick ==
  ASSUME NEW s \in Session, Ordered(s), s.state.phase # "completed", Active(s) = NoTask
  PROVE  FirstReadyTask(s) = NoTask
<1>1. ActiveStatus(s) = "absent"
  BY DEF ActiveStatus, StatusOf
<1>2. \A t \in TaskIds : s.taskState.tasks[t] = "absent"
  BY <1>1 DEF Ordered, PhaseFits
<1>3. Ready(s, OpenTasks(s)) = {}
  BY <1>2 DEF Ready, OpenTasks
<1>4. QED
  BY <1>3, FirstOfType DEF FirstReadyTask, NoTask

LEMMA PickTaskMoved ==
  ASSUME NEW s \in Session, Sound(s), NEW d \in Session, Steady(s, d, evidence),
         s.state.phase # "completed", s.state.phase = "paused" => s.state.blocker # "none",
         PickTask(s, d)
  PROVE  Moved(s)
<1>1. ~(s.taskState.activeTaskId = NoTask /\ FirstReadyTask(s) # NoTask)
  BY NothingToPick DEF Steady, Active
<1>2. RunTask(s, d)
  BY <1>1 DEF PickTask
<1>3. QED
  BY <1>2, RunTaskMoved

\* The whole of it.
LEMMA ContinueTaskLoopMoved ==
  ASSUME NEW s \in Session, Sound(s), NEW d \in Session, Steady(s, d, evidence),
         ContinueTaskLoop(s, d)
  PROVE  Moved(s)
<1> DEFINE resumed == Resumed(s)
<1>1. PointersFromLedger(s) = s
  BY PointersFromLedgerSame
<1>2. CASE Unsaved(s, d, "refused") /\ evidence' = evidence
  BY <1>2, RefusedMoved
<1>3. CASE s.state.phase = "paused" /\ PickTask(resumed, resumed)
  <2>1. /\ Ordered(resumed) /\ SameWork(s, resumed)
        /\ resumed.state.phase \in {"planning", "implementing"}
    BY <1>3, ResumedOrdered DEF Steady
  <2>2. resumed \in Session /\ Sound(resumed)
    BY <1>3, ResumedSound DEF Sound
  <2> HIDE DEF resumed
  <2>3. Steady(resumed, resumed, evidence)
    BY <2>1 DEF Steady, Behind, Covered, SameWork
  <2>4. Moved(resumed)
    BY <1>3, <2>1, <2>2, <2>3, PickTaskMoved
  <2>5. QED
    BY <2>1, <2>4 DEF Moved, SameWork
<1>4. CASE /\ s.state.phase # "completed" /\ ~(s.state.phase = "paused" /\ s.state.blocker = "none")
           /\ PickTask(s, d)
  BY <1>4, PickTaskMoved
<1>5. QED
  BY <1>1, <1>2, <1>3, <1>4 DEF ContinueTaskLoop

-----------------------------------------------------------------------------
(* The commands. *)

LoopCommands == {"create", "plan", "continue", "loop", "auto", "review", "block", "unblock",
                 "resume", "handoff", "clear_handoff", "reset"}

InHand == Safe /\ Steady(session, disk, evidence)

\* A step that leaves the invariant and, of the tasks, finishes only validated ones.
Settled ==
  /\ Steady(session', disk', evidence')
  /\ reply'.outcome # "hung"
  /\ \A t \in TaskIds : session'.taskState.tasks[t] = "done" =>
       session.taskState.tasks[t] \in {"done", "validated"} \/ disk.taskState.tasks[t] = "done"

LEMMA InHandMeans ==
  InHand => /\ session \in Session /\ Sound(session) /\ Ordered(session)
            /\ disk \in Session /\ Sound(disk) /\ Ordered(disk)
            /\ Behind(session, disk) /\ Covered(session, evidence)
            /\ Steady(session, disk, evidence)
  BY SafeMeans DEF InHand, Steady

LEMMA MovedSettled == InHand /\ (Moved(session) \/ Moved(disk)) => Settled
<1> SUFFICES ASSUME InHand, Moved(session) \/ Moved(disk) PROVE Settled
  OBVIOUS
<1>1. \A t \in TaskIds : disk.taskState.tasks[t] \in {session.taskState.tasks[t], "todo", "blocked"}
  BY InHandMeans DEF Behind
<1>2. QED
  BY <1>1 DEF Moved, Settled

\* A command that stores what it made of the active task, and one that refuses.
LEMMA SavedSettled ==
  ASSUME InHand, NEW r \in Session, Ordered(r), Saved(r), evidence' = evidence,
         NEW t, OnlyTouches(session, r, t),
         t \in TaskIds => r.taskState.tasks[t] # "validated",
         t \in TaskIds /\ r.taskState.tasks[t] = "done" =>
           session.taskState.tasks[t] \in {"done", "validated"}
  PROVE  Settled
<1>1. session \in Session /\ Covered(session, evidence)
  BY InHandMeans
<1>2. Covered(r, evidence')
  BY <1>1 DEF Covered, OnlyTouches
<1>3. \A u \in TaskIds : r.taskState.tasks[u] = "done" =>
                           session.taskState.tasks[u] \in {"done", "validated"}
  BY DEF OnlyTouches
<1>4. QED
  BY <1>1, <1>2, <1>3, SavedMoved, MovedSettled

LEMMA RefusedSettled ==
  ASSUME InHand, Unsaved(session, disk, "refused"), evidence' = evidence
  PROVE  Settled
  BY InHandMeans, RefusedMoved, MovedSettled

LEMMA FreshSettled ==
  ASSUME InHand, NEW r \in Session, Ordered(r), AtRest(r), Saved(r),
         \A t \in TaskIds : r.taskState.tasks[t] # "done"
  PROVE  Settled
<1>1. Covered(r, evidence')
  BY DEF Covered, AtRest, InWork
<1>2. QED
  BY <1>1, InHandMeans, SavedMoved, MovedSettled

\* The commands, one by one.
LEMMA PlanSettled ==
  ASSUME InHand, NEW goal \in GoalSummaries, NEW longRunning \in BOOLEAN,
         Saved(Planned(session, goal, longRunning))
  PROVE  Settled
<1> DEFINE r == Planned(session, goal, longRunning)
<1>1. session \in Session /\ Sound(session)
  BY InHandMeans
<1>2. r \in Session
  BY <1>1, PlannedSound DEF Sound
<1>3. Ordered(r) /\ AtRest(r)
  BY <1>1, PlannedOrdered
<1>4. r.taskState.tasks = [t \in TaskIds |-> "todo"]
  BY DEF Planned, Cleared, InitialTaskState
<1> HIDE DEF r
<1>5. QED
  BY <1>2, <1>3, <1>4, FreshSettled DEF r

LEMMA ReviewSettled == InHand /\ Review => Settled
<1> SUFFICES ASSUME InHand, Review PROVE Settled
  OBVIOUS
<1> DEFINE r == Reviewed(session)
<1>1. session \in Session /\ Sound(session) /\ Ordered(session)
  BY InHandMeans
<1>2. r \in Session
  BY <1>1, ReviewedSound DEF Sound
<1>3. /\ Ordered(r) /\ OnlyTouches(session, r, Active(session))
      /\ session.state.phase # "reviewing" => r = session
      /\ session.state.phase = "reviewing" => r.taskState.tasks[Active(session)] = "done"
  BY <1>1, ReviewedOrdered
<1>4. Saved(r) /\ evidence' = evidence
  BY DEF Review
<1> HIDE DEF r
<1>5. CASE session.state.phase # "reviewing"
  <2>1. Covered(r, evidence') /\ r = session
    BY <1>3, <1>4, <1>5, InHandMeans
  <2>2. QED
    BY <1>1, <1>3, <1>4, <2>1, SavedMoved, MovedSettled
<1>6. CASE session.state.phase = "reviewing"
  <2>1. session.taskState.tasks[Active(session)] = "validated"
    BY <1>1, <1>6, ValidatedUnderReview
  <2>2. QED
    BY <1>2, <1>3, <1>4, <1>6, <2>1, SavedSettled
<1>7. QED
  BY <1>5, <1>6

LEMMA OverrideSettled == InHand /\ (BlockCurrentTask \/ UnblockCurrentTask) => Settled
<1> SUFFICES ASSUME InHand, BlockCurrentTask \/ UnblockCurrentTask PROVE Settled
  OBVIOUS
<1> DEFINE t == session.taskState.activeTaskId
<1>1. session \in Session /\ Sound(session) /\ Ordered(session) /\ t = Active(session)
      /\ t \in TaskIds \cup {NoTask}
  BY InHandMeans DEF Active, Session, TaskState
<1>2. ASSUME t # NoTask, NEW r, r \in {TaskBlocked(session, t), TaskUnblocked(session, t)},
             Saved(r), evidence' = evidence
      PROVE  Settled
  <2>1. t \in TaskIds
    BY <1>1, <1>2
  <2>2. r \in Session /\ Ordered(r) /\ OnlyTouches(session, r, t)
        /\ r.taskState.tasks[t] \in {"todo", "blocked"}
    BY <1>1, <1>2, <2>1, OverridesSound, OverridesOrdered DEF Sound
  <2>3. QED
    BY <1>2, <2>2, SavedSettled
<1>3. /\ \/ /\ t # NoTask
            /\ Saved(TaskBlocked(session, t)) \/ Saved(TaskUnblocked(session, t))
         \/ Unsaved(session, disk, "refused")
      /\ evidence' = evidence
  BY DEF BlockCurrentTask, UnblockCurrentTask, OnActiveTask
<1>4. QED
  BY <1>2, <1>3, RefusedSettled

LEMMA ResumeSettled == InHand /\ Resume => Settled
<1> SUFFICES ASSUME InHand, Resume PROVE Settled
  OBVIOUS
<1> DEFINE r == Resumed(session)
<1>1. session \in Session /\ Sound(session) /\ Ordered(session) /\ evidence' = evidence
  BY InHandMeans DEF Resume
<1>2. CASE session.state.phase = "paused" /\ Saved(r)
  <2>1. r \in Session /\ Ordered(r) /\ SameWork(session, r)
    BY <1>1, <1>2, ResumedSound, ResumedOrdered DEF Sound
  <2> HIDE DEF r
  <2>2. Covered(r, evidence')
    BY <1>1, <2>1, InHandMeans DEF Covered, SameWork
  <2>3. QED
    BY <1>1, <1>2, <2>1, <2>2, SavedMoved, MovedSettled DEF SameWork
<1>3. CASE Unsaved(session, disk, "refused")
  BY <1>1, <1>3, RefusedSettled
<1>4. QED
  BY <1>2, <1>3 DEF Resume

LEMMA HandoffSettled == InHand /\ (CreateHandoff \/ ClearHandoff) => Settled
<1> SUFFICES ASSUME InHand, CreateHandoff \/ ClearHandoff PROVE Settled
  OBVIOUS
<1>1. session \in Session /\ Sound(session) /\ Ordered(session) /\ evidence' = evidence
  BY InHandMeans DEF CreateHandoff, ClearHandoff
<1>2. ASSUME NEW h \in Handoffs, Saved(WithHandoff(session, h))
      PROVE  Settled
  <2> DEFINE r == WithHandoff(session, h)
  <2>1. r \in Session /\ Ordered(r)
    BY <1>1, WithHandoffSound, HandoffOrdered DEF Sound
  <2>2. r.taskState.tasks = session.taskState.tasks
    BY <1>1 DEF WithHandoff, Session, TaskState
  <2> HIDE DEF r
  <2>3. Covered(r, evidence')
    BY <1>1, <2>2, InHandMeans DEF Covered
  <2>4. QED
    BY <1>1, <1>2, <2>1, <2>2, <2>3, SavedMoved, MovedSettled DEF r
<1>3. QED
  BY <1>1, <1>2, HandoffTypes, RefusedSettled DEF CreateHandoff, ClearHandoff

LEMMA ResetSettled == InHand /\ ResetSession => Settled
<1> SUFFICES ASSUME InHand, ResetSession PROVE Settled
  OBVIOUS
<1>1. CASE Saved(Reset(session))
  <2> DEFINE r == Reset(session)
  <2>1. r \in Session /\ Ordered(r) /\ AtRest(r)
    BY InHandMeans, ResetSound, ResetOrdered DEF Sound
  <2>2. r.taskState.tasks = [t \in TaskIds |-> "absent"]
    BY DEF Reset, InitialTaskState
  <2> HIDE DEF r
  <2>3. QED
    BY <1>1, <2>1, <2>2, FreshSettled DEF r
<1>2. CASE Unsaved(session, disk, "refused") /\ evidence' = evidence
  BY <1>2, RefusedSettled
<1>3. QED
  BY <1>1, <1>2 DEF ResetSession

LEMMA CreateSettled == InHand /\ Create => Settled
<1> SUFFICES ASSUME InHand, Create PROVE Settled
  OBVIOUS
<1> DEFINE r == Loaded(disk)
<1>1. disk \in Session /\ Sound(disk) /\ Ordered(disk) /\ Saved(r) /\ evidence' = evidence
  BY InHandMeans DEF Create
<1>2. r \in Session /\ Ordered(r) /\ r.taskState.tasks = disk.taskState.tasks
  BY <1>1, LoadedSound, LoadedOrdered DEF Sound
<1> HIDE DEF r
<1>3. Covered(r, evidence')
  <2>1. \A t \in TaskIds : disk.taskState.tasks[t] = "validated" => session.taskState.tasks[t] = "validated"
    BY InHandMeans DEF Behind
  <2>2. QED
    BY <1>1, <1>2, <2>1, InHandMeans DEF Covered
<1>4. Moved(disk)
  BY <1>1, <1>2, <1>3, SavedMoved
<1>5. QED
  BY <1>4, MovedSettled

LEMMA ContinueSettled ==
  InHand /\ (Continue \/ LoopStep) =>
    Settled /\ reply'.outcome # "invalid_transition" /\ reply'.tools # "read_only"
<1> SUFFICES ASSUME InHand, Continue \/ LoopStep
             PROVE  Settled /\ reply'.outcome # "invalid_transition" /\ reply'.tools # "read_only"
  OBVIOUS
<1>1. Moved(session)
  BY InHandMeans, ContinueTaskLoopMoved DEF Continue, LoopStep
<1>2. QED
  BY <1>1, MovedSettled DEF Moved

\* Starting or stopping the completion loop.
LEMMA IdleSettled ==
  ASSUME InHand, UNCHANGED <<session, disk, evidence>>, reply'.outcome # "hung"
  PROVE  Settled
  BY DEF InHand, Settled, Steady, Ordered, OneAtWork, PhaseFits, NotedWhenBlocked, BlockerFits,
     Staged, Behind, Covered

LEMMA RunAutoSettled == InHand /\ RunAuto => Settled
<1> SUFFICES ASSUME InHand, RunAuto PROVE Settled
  OBVIOUS
<1>1. PICK goal \in Goals \cup {NoGoal}, maxSteps \in 1..MaxSteps :
        \/ Unsaved(session, disk, "refused") /\ evidence' = evidence
        \/ Saved(Planned(session, goal, TRUE))
        \/ reply' = Replied("none") /\ UNCHANGED <<session, disk, evidence>>
  BY DEF RunAuto
<1>2. goal \in GoalSummaries
  BY GoalTypes
<1>3. Replied("none").outcome # "hung"
  BY DEF Replied
<1>4. QED
  BY <1>1, <1>2, <1>3, RefusedSettled, PlanSettled, IdleSettled

\* The commands that are not among LoopCommands are not issued.
OnlyLoopCommands == Commands \subseteq LoopCommands

LEMMA CommandSettled ==
  ASSUME OnlyLoopCommands
  PROVE  InHand /\ reply.outcome # "hung" /\ [Next]_vars => Settled
<1> SUFFICES ASSUME InHand, reply.outcome # "hung", [Next]_vars PROVE Settled
  OBVIOUS
<1>1. ~(VerifyCommand \/ AdvanceMilestone \/ ExecuteCurrentTask \/ EnterWorkerValidator
        \/ CompleteCurrentTask \/ HandleInput)
  BY DEF OnlyLoopCommands, LoopCommands, VerifyCommand, AdvanceMilestone, ExecuteCurrentTask,
     EnterWorkerValidator, CompleteCurrentTask, OnActiveTask, HandleInput, Issued
<1>2. CASE Plan
  BY <1>2, PlanSettled, GoalTypes DEF Plan
<1>3. CASE Review \/ Resume \/ CreateHandoff \/ ClearHandoff \/ ResetSession \/ Create
  BY <1>3, ReviewSettled, ResumeSettled, HandoffSettled, ResetSettled, CreateSettled
<1>4. CASE BlockCurrentTask \/ UnblockCurrentTask
  BY <1>4, OverrideSettled
<1>5. CASE Continue \/ LoopStep
  BY <1>5, ContinueSettled
<1>6. CASE RunCompletionLoop
  BY <1>6, IdleSettled DEF RunCompletionLoop, Replied
<1>7. CASE LoopStop
  BY <1>7, IdleSettled DEF LoopStop
<1>8. CASE RunAuto
  BY <1>8, RunAutoSettled
<1>9. CASE UNCHANGED vars
  BY <1>9, IdleSettled DEF vars
<1>10. QED
  BY <1>1, <1>2, <1>3, <1>4, <1>5, <1>6, <1>7, <1>8, <1>9 DEF Next, Command

\* The inductive invariant.
InHandInv == InHand /\ reply.outcome # "hung"

LEMMA NextInHand ==
  ASSUME OnlyLoopCommands
  PROVE  InHandInv /\ [Next]_vars => InHandInv'
<1> SUFFICES ASSUME InHandInv, [Next]_vars PROVE InHandInv'
  OBVIOUS
<1>1. Safe'
  BY NextSafe DEF InHandInv, InHand
<1>2. Settled
  BY CommandSettled DEF InHandInv
<1>3. Steady(session, disk, evidence)'
  BY <1>2 DEF Settled, Steady, Ordered, OneAtWork, PhaseFits, NotedWhenBlocked, BlockerFits,
     Staged, Behind, Covered
<1>4. QED
  BY <1>1, <1>2, <1>3 DEF InHandInv, InHand, Settled

LEMMA InitInHand == Init => InHandInv
<1> SUFFICES ASSUME Init PROVE InHandInv
  OBVIOUS
<1>1. Behind(InitialSession, InitialSession)
  BY DEF Behind
<1>2. Covered(InitialSession, evidence)
  BY InitialOrdered DEF Covered, AtRest, InWork
<1>3. Steady(session, disk, evidence)
  BY <1>1, <1>2, InitialOrdered DEF Init, Steady
<1>4. QED
  BY <1>3, InitSafe DEF InHandInv, InHand, Init, Replied

LEMMA SpecInHand ==
  ASSUME OnlyLoopCommands
  PROVE  Spec => []InHandInv
  BY InitInHand, NextInHand, PTL DEF Spec

-----------------------------------------------------------------------------
(* What the invariant says of the loop, for every plan and every kind of worker. *)

\* ReviewHasSubject always holds: the phase is reviewing only while the active task
\* has been verified and not yet accepted.
THEOREM ReviewAlwaysHasSubject ==
  ASSUME OnlyLoopCommands
  PROVE  Spec => []ReviewHasSubject
<1>1. InHandInv => ReviewHasSubject
  <2> SUFFICES ASSUME InHandInv, session.state.phase = "reviewing"
               PROVE  StatusOf(session, session.taskState.activeTaskId) \in {"validated", "done"}
    BY DEF ReviewHasSubject
  <2>1. /\ Active(session) \in TaskIds
        /\ session.taskState.tasks[Active(session)] = "validated"
    BY InHandMeans, ValidatedUnderReview DEF InHandInv
  <2>2. QED
    BY <2>1 DEF StatusOf, Active, TaskIds, NoTask
<1>2. QED
  BY <1>1, SpecInHand, PTL

\* ContinueReturns always holds: continueTaskLoop calls itself again only on a session
\* that has changed, so it comes to an end.
THEOREM ContinueAlwaysReturns ==
  ASSUME OnlyLoopCommands
  PROVE  Spec => []ContinueReturns
<1>1. InHandInv => ContinueReturns
  BY DEF InHandInv, ContinueReturns
<1>2. QED
  BY <1>1, SpecInHand, PTL

\* HintIsCurrent always holds: the recovery hint that the timeline shows is that of a
\* task which is blocked, for every task that is not has none.
THEOREM HintAlwaysCurrent ==
  ASSUME OnlyLoopCommands
  PROVE  Spec => []HintIsCurrent
<1>1. InHandInv => HintIsCurrent
  <2> DEFINE t == RecoveryTask(session)
             hinted == {u \in TaskIds : session.taskState.taskRecoveryHints[u] # "none"}
  <2> SUFFICES ASSUME InHandInv, TimelineRecovery(session).recoveryHint # "none"
               PROVE  StatusOf(session, t) = "blocked"
    BY DEF HintIsCurrent
  <2>1. t # NoTask /\ session.taskState.taskRecoveryHints[t] # "none"
    BY DEF TimelineRecovery
  <2>2. t \in TaskIds \cup {NoTask}
    BY FirstOfType DEF RecoveryTask, NoTask
  <2>3. NotedWhenBlocked(session)
    BY InHandMeans DEF InHandInv, Ordered
  <2>4. QED
    BY <2>1, <2>2, <2>3 DEF NotedWhenBlocked, StatusOf
<1>2. QED
  BY <1>1, SpecInHand, PTL

\* Every step keeps ContinueNeverThrows: the phase that continueTaskLoop asks for is one
\* the transition table allows from the phase the run is in.
THEOREM LoopNeverThrows ==
  ASSUME OnlyLoopCommands
  PROVE  Spec => ContinueNeverThrows
<1>1. InHandInv /\ [Next]_vars =>
        [Continue \/ LoopStep => reply'.outcome # "invalid_transition"]_vars
  BY ContinueSettled DEF InHandInv
<1>2. QED
  BY <1>1, SpecInHand, PTL DEF ContinueNeverThrows, Spec

\* Every step keeps WorkerCanWrite: when continueTaskLoop starts a worker, phase and
\* flow grant it the tools that write.
THEOREM WorkerAlwaysWrites ==
  ASSUME OnlyLoopCommands
  PROVE  Spec => WorkerCanWrite
<1>1. InHandInv /\ [Next]_vars =>
        [Continue \/ LoopStep => reply'.tools # "read_only"]_vars
  BY ContinueSettled DEF InHandInv
<1>2. QED
  BY <1>1, SpecInHand, PTL DEF WorkerCanWrite, Spec

\* Every step keeps QueuedReviewCloses: the review queue holds the active task alone,
\* under review and verified, and reviewTask accepts it.
THEOREM QueuedReviewAlwaysCloses ==
  ASSUME OnlyLoopCommands
  PROVE  Spec => QueuedReviewCloses
<1> DEFINE Closes ==
      Review => \A item \in ReviewQueue(session) :
                  session'.taskState.tasks[item.taskId] = "done"
<1>1. InHandInv => [Closes]_vars
  <2> SUFFICES ASSUME InHandInv, Review, NEW t \in TaskIds, QueueScore(session, t) > 0
               PROVE  session'.taskState.tasks[t] = "done"
    BY DEF ReviewQueue
  <2>1. session \in Session /\ Sound(session) /\ Ordered(session)
    BY InHandMeans DEF InHandInv
  <2>2. t # NoTask /\ ActiveTask(session) = Active(session)
    BY <2>1 DEF Sound, Agree, ActiveTask, OrElse, Active, TaskIds, NoTask
  <2>3. \/ session.taskState.tasks[t] = "validated"
        \/ t = ActiveTask(session) /\ session.state.phase = "reviewing"
    BY DEF QueueScore
  <2>4. t = Active(session)
    BY <2>1, <2>2, <2>3 DEF Ordered, OneAtWork, InWork
  <2>5. session.state.phase = "reviewing"
    BY <2>1, <2>2, <2>3, <2>4 DEF Ordered, PhaseFits, ActiveStatus, StatusOf, PassedReview
  <2>6. session' = Reviewed(session)
    BY DEF Review, Saved, Return
  <2>7. QED
    BY <2>1, <2>4, <2>5, <2>6, ReviewedOrdered
<1>2. QED
  BY <1>1, SpecInHand, PTL DEF QueuedReviewCloses, Spec

\* Every step of every command keeps CleanupAdviceIsRight: the two files agree on the
\* handoff, so what the dashboard and handoff inspect read of one is what
\* clearHandoff finds in either.
THEOREM CleanupAdviceAlwaysRight == Spec => CleanupAdviceIsRight
<1> DEFINE Right ==
      ClearHandoff =>
        /\ CleanupEligible(Status(session)) <=> reply'.outcome = "ok"
        /\ DashboardAuto(Status(session)) = "handoff_inspect" <=> reply'.outcome = "ok"
<1>1. Safe => [Right]_vars
  <2> SUFFICES ASSUME Safe, ClearHandoff PROVE Right
    OBVIOUS
  <2> DEFINE st == Status(session)
             clears == session.state.phase \in InactivePhases /\ HasHandoff(session)
  <2>1. session.state.lastHandoffPath = session.taskState.lastHandoffPath
    BY SafeMeans DEF Sound, Agree
  <2>2. clears <=> PreservedHandoff(st)
    BY <2>1 DEF PreservedHandoff, Status, HasHandoff
  <2>3. clears <=> reply'.outcome = "ok"
    BY DEF ClearHandoff, Saved, Unsaved, Return, Replied
  <2>4. DashboardAuto(st) = "handoff_inspect" <=> PreservedHandoff(st)
    <3> HIDE DEF st
    <3>1. QED
      BY DEF DashboardAuto
  <2>5. QED
    BY <2>2, <2>3, <2>4 DEF CleanupEligible
<1>2. QED
  BY <1>1, SpecSafe, PTL DEF CleanupAdviceIsRight
=============================================================================
