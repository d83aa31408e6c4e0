--------------------------- MODULE TemplateProofs ---------------------------
(***************************************************************************)
(* What holds of the plans buildPlanningArtifacts writes: one task in each  *)
(* milestone, which waits only for earlier ones.  The active task then      *)
(* splits the tasks as well as the milestones: everything before it is      *)
(* done, everything after it is untouched.  On top of LoopProofs this gives *)
(* the milestones their order, completion its meaning, and every task the   *)
(* life that TaskLifecycle promises.                                        *)
(***************************************************************************)
EXTENDS LoopProofs

\* The plans of the built-in templates, of any length.
OneByOne ==
  /\ NumMilestones = NumTasks
  /\ PlanMilestone = [t \in TaskIds |-> t]
  /\ \A t \in TaskIds : \A u \in PlanDeps[t] \cup MilestoneDeps[t] : u < t

\* No plan yet, or none any more.
Unplanned(s) ==
  /\ Active(s) = NoTask /\ s.state.phase = "idle"
  /\ \A t \in TaskIds : s.taskState.tasks[t] = "absent"
  /\ \A m \in MilestoneIds : s.taskState.milestones[m] = "absent"

\* A run outside the milestone flow ends with its first task.
WithoutMilestones(s) ==
  /\ s.state.currentFlow # "milestone" /\ Active(s) = 1
  /\ \A m \in MilestoneIds : s.taskState.milestones[m] = "absent"
  /\ ActiveStatus(s) = "done" => s.state.phase = "completed"

\* A run in the milestone flow is in the milestone of its task, and closes both.
InMilestone(s) ==
  LET a == Active(s)
  IN  /\ s.state.currentFlow = "milestone" /\ s.taskState.activeMilestoneId = a
      /\ \A m \in MilestoneIds :
           /\ m < a => s.taskState.milestones[m] = "done"
           /\ m > a => s.taskState.milestones[m] = "todo"
           /\ m = a => s.taskState.milestones[m] \in {"in_progress", "done"}
      /\ ActiveStatus(s) = "done" =>
           /\ s.taskState.milestones[a] = "done"
           /\ s.state.phase = "completed" <=> a = NumTasks

\* The active task splits the plan.
Split(s) ==
  LET a == Active(s)
  IN  /\ a \in TaskIds /\ s.taskState.planned
      /\ \A t \in TaskIds :
           /\ s.taskState.taskMilestones[t] = t
           /\ t < a => s.taskState.tasks[t] = "done"
           /\ t > a => s.taskState.tasks[t] = "todo"
      /\ WithoutMilestones(s) \/ InMilestone(s)

LinedUp(s) == Unplanned(s) \/ Split(s)

-----------------------------------------------------------------------------
(* The methods, one by one. *)

\* What touches the active task alone keeps the split, unless it finishes the task.
LEMMA TouchedSplit ==
  ASSUME NEW s \in Session, Split(s), NEW r \in Session,
         OnlyTouches(s, r, Active(s)), SamePlace(s, r),
         r.taskState.tasks[Active(s)] = "done" =>
           /\ s.taskState.tasks[Active(s)] = "done"
           /\ r.state.phase = "completed" <=> s.state.phase = "completed"
  PROVE  Split(r) /\ Active(r) = Active(s)
<1> DEFINE a == Active(s)
<1>1. a \in TaskIds /\ a # NoTask /\ Active(r) = a
  BY DEF Split, SamePlace, Active, TaskIds, NoTask
<1>2. /\ ActiveStatus(s) = s.taskState.tasks[a]
      /\ ActiveStatus(r) = r.taskState.tasks[a]
  BY <1>1 DEF ActiveStatus, StatusOf
<1> HIDE DEF a
<1>3. \A t \in TaskIds :
        /\ r.taskState.taskMilestones[t] = t
        /\ t < a => r.taskState.tasks[t] = "done"
        /\ t > a => r.taskState.tasks[t] = "todo"
  <2>1. TAKE t \in TaskIds
  <2>2. CASE t = a
    BY <1>1, <2>2 DEF Split, SamePlace, TaskIds, a
  <2>3. CASE t # a
    <3>1. r.taskState.tasks[t] = s.taskState.tasks[t]
      BY <2>3 DEF OnlyTouches, a
    <3>2. QED
      BY <3>1 DEF Split, SamePlace, a
  <2>4. QED
    BY <2>2, <2>3
<1>4. WithoutMilestones(s) => WithoutMilestones(r)
  BY <1>1, <1>2 DEF WithoutMilestones, SamePlace, a
<1>5. InMilestone(s) => InMilestone(r)
  BY <1>1, <1>2 DEF InMilestone, SamePlace, a
<1>6. r.taskState.planned
  BY DEF Split, SamePlace
<1>7. QED
  BY <1>1, <1>3, <1>4, <1>5, <1>6 DEF Split, a

\* The same tasks in the same place, the phase completed or not as before.
LEMMA SameSplit ==
  ASSUME NEW s \in Session, Split(s), NEW r \in Session, SamePlace(s, r),
         r.taskState.tasks = s.taskState.tasks,
         r.state.phase = "completed" <=> s.state.phase = "completed"
  PROVE  Split(r) /\ Active(r) = Active(s)
<1>1. Active(r) = Active(s) /\ ActiveStatus(r) = ActiveStatus(s)
  BY DEF SamePlace, Active, ActiveStatus, StatusOf
<1>2. WithoutMilestones(s) => WithoutMilestones(r)
  BY <1>1 DEF WithoutMilestones, SamePlace
<1>3. InMilestone(s) => InMilestone(r)
  BY <1>1 DEF InMilestone, SamePlace
<1>4. QED
  BY <1>1, <1>2, <1>3 DEF Split, SamePlace

\* A task of the plan is in the ledger.
LEMMA SplitMeans ==
  ASSUME NEW s \in Session, Split(s), Ordered(s)
  PROVE  /\ Active(s) \in TaskIds /\ Active(s) # NoTask
         /\ ActiveStatus(s) = s.taskState.tasks[Active(s)]
         /\ \A t \in TaskIds : s.taskState.tasks[t] # "absent"
<1> DEFINE a == Active(s)
<1>1. a \in TaskIds /\ a # NoTask /\ ActiveStatus(s) = s.taskState.tasks[a]
  BY DEF Split, TaskIds, NoTask, ActiveStatus, StatusOf
<1>2. s.taskState.tasks[a] # "absent"
  BY <1>1 DEF Ordered, PhaseFits
<1>3. \A t \in TaskIds : t < a \/ t = a \/ t > a
  BY <1>1 DEF TaskIds
<1>4. QED
  BY <1>1, <1>2, <1>3 DEF Split

\* review finishes the active task and its milestone, and the last one the run.
LEMMA ReviewedSplit ==
  ASSUME NEW s \in Session, Sound(s), Ordered(s), Split(s), OneByOne
  PROVE  Split(Reviewed(s))
<1> DEFINE a == Active(s)
           r == Reviewed(s)
           accepted == WithStatus(s, a, "done")
           finished == Entered(accepted, "completed", "none")
           paused == Entered(accepted, "paused", "planning")
<1>1. a \in TaskIds /\ a # NoTask /\ a = s.taskState.activeTaskId
  BY SplitMeans DEF Active
<1>2. CASE ~PassedReview(s)
  BY <1>2 DEF Reviewed
<1>3. ASSUME NEW phase \in {"completed", "paused"}, NEW q \in {"none", "planning"}
      PROVE  LET e == Entered(accepted, phase, q)
             IN  /\ e.state.phase = phase /\ SamePlace(s, e)
                 /\ e.taskState.tasks = [s.taskState.tasks EXCEPT ![a] = "done"]
                 /\ e.taskState.milestones = s.taskState.milestones
  BY DEF Entered, WithStatus, SamePlace, Session, RunState, TaskState
<1>4. [s.taskState.tasks EXCEPT ![a] = "done"][a] = "done"
      /\ \A t \in TaskIds : t # a => [s.taskState.tasks EXCEPT ![a] = "done"][t] = s.taskState.tasks[t]
  BY <1>1 DEF Session, TaskState
<1> DEFINE Finishes(e) ==
      /\ e.taskState.activeTaskId = a
      /\ e.taskState.planned
      /\ e.taskState.taskMilestones = s.taskState.taskMilestones
      /\ e.taskState.tasks[a] = "done"
      /\ \A t \in TaskIds : t # a => e.taskState.tasks[t] = s.taskState.tasks[t]
      /\ e.state.currentFlow = s.state.currentFlow
      /\ e.taskState.activeMilestoneId = s.taskState.activeMilestoneId
<1>5. ASSUME NEW phase \in {"completed", "paused"}, NEW q \in {"none", "planning"}
      PROVE  /\ Finishes(Entered(accepted, phase, q))
             /\ Entered(accepted, phase, q).state.phase = phase
             /\ Entered(accepted, phase, q).taskState.milestones = s.taskState.milestones
  <2> DEFINE e == Entered(accepted, phase, q)
  <2>1. /\ e.state.phase = phase /\ SamePlace(s, e)
        /\ e.taskState.tasks = [s.taskState.tasks EXCEPT ![a] = "done"]
        /\ e.taskState.milestones = s.taskState.milestones
    BY <1>3
  <2> HIDE DEF e
  <2>2. Finishes(e)
    BY <1>1, <1>4, <2>1 DEF SamePlace, Split
  <2>3. QED
    BY <2>1, <2>2 DEF e
<1>6. Finishes(finished) /\ Finishes(paused)
      /\ finished.state.phase = "completed" /\ paused.state.phase = "paused"
      /\ finished.taskState.milestones = s.taskState.milestones
      /\ paused.taskState.milestones = s.taskState.milestones
  <2> HIDE DEF Finishes, accepted
  <2>1. QED
    BY <1>5
<1>7. ASSUME NEW e, Finishes(e), WithoutMilestones(e) \/ InMilestone(e)
      PROVE  Split(e)
  BY <1>1, <1>7 DEF Split, Active, TaskIds
<1>8. ASSUME NEW e, Finishes(e)
      PROVE  ActiveStatus(e) = "done" /\ Active(e) = a
  BY <1>1, <1>8 DEF ActiveStatus, Active, StatusOf
<1>9. CASE PassedReview(s) /\ WithoutMilestones(s)
  <2>1. r = finished
    BY <1>1, <1>9 DEF Reviewed, WithoutMilestones
  <2> HIDE DEF finished, r
  <2>2. WithoutMilestones(finished)
    BY <1>6, <1>8, <1>9 DEF WithoutMilestones
  <2>3. Split(r)
    BY <1>6, <1>7, <2>1, <2>2
  <2>4. QED
    BY <2>3 DEF r
<1>10. CASE PassedReview(s) /\ InMilestone(s)
  <2>1. /\ s.taskState.activeMilestoneId = a /\ a # NoMilestone
        /\ s.state.currentFlow = "milestone" /\ a \in MilestoneIds
    BY <1>1, <1>10 DEF InMilestone, NoTask, NoMilestone, OneByOne, TaskIds, MilestoneIds
  <2> DEFINE e == IF HasNextMilestone(s, a) THEN paused ELSE finished
  <2>2. r = WithMilestoneStatus(e, a, "done")
    BY <1>1, <1>10, <2>1 DEF Reviewed
  <2>3. HasNextMilestone(s, a) <=> a # NumTasks
    <3>1. ASSUME a # NumTasks PROVE HasNextMilestone(s, a)
      <4>1. a + 1 \in MilestoneIds /\ a + 1 > a
        BY <1>1, <3>1, PlanShape DEF OneByOne, TaskIds, MilestoneIds
      <4>2. s.taskState.milestones[a + 1] = "todo"
        BY <1>10, <4>1 DEF InMilestone
      <4>3. QED
        BY <4>1, <4>2 DEF HasNextMilestone
    <3>2. ASSUME HasNextMilestone(s, a) PROVE a # NumTasks
      BY <1>1, <3>2, PlanShape DEF HasNextMilestone, OneByOne, TaskIds, MilestoneIds
    <3>3. QED
      BY <3>1, <3>2
  <2>4. /\ Finishes(e) /\ e.taskState.milestones = s.taskState.milestones
        /\ e.state.phase = "completed" <=> a = NumTasks
    <3> HIDE DEF Finishes, paused, finished, a
    <3>1. CASE a = NumTasks
      BY <1>6, <2>3, <3>1
    <3>2. CASE a # NumTasks
      BY <1>6, <2>3, <3>2
    <3>3. QED
      BY <3>1, <3>2
  <2>5. finished \in Session /\ paused \in Session
    BY <1>1, PlanShape DEF Entered, WithStatus, Session, RunState, TaskState, Phases, TaskStatuses
  <2>6. e \in Session
    BY <2>5
  <2> HIDE DEF e
  <2>7. /\ r.taskState.milestones = [s.taskState.milestones EXCEPT ![a] = "done"]
        /\ r.state = e.state /\ Finishes(r)
    BY <2>2, <2>4, <2>6 DEF WithMilestoneStatus, Session, TaskState
  <2> HIDE DEF r
  <2>8. /\ r.taskState.milestones[a] = "done"
        /\ \A m \in MilestoneIds : m # a => r.taskState.milestones[m] = s.taskState.milestones[m]
    BY <2>1, <2>7 DEF Session, TaskState
  <2>9. \A m \in MilestoneIds :
          /\ m < a => r.taskState.milestones[m] = "done"
          /\ m > a => r.taskState.milestones[m] = "todo"
          /\ m = a => r.taskState.milestones[m] \in {"in_progress", "done"}
    BY <1>1, <1>10, <2>8 DEF InMilestone, MilestoneIds, TaskIds
  <2>10. InMilestone(r)
    BY <1>8, <2>1, <2>4, <2>7, <2>8, <2>9 DEF InMilestone
  <2>11. Split(r)
    BY <1>7, <2>7, <2>10
  <2>12. QED
    BY <2>11 DEF r
<1>11. QED
  BY <1>2, <1>9, <1>10 DEF Split

\* A done task of the milestone flow leads to the next one, and to no other.
LEMMA DoneSplit ==
  ASSUME NEW s \in Session, Ordered(s), Split(s), OneByOne,
         ActiveStatus(s) = "done", s.state.phase # "completed"
  PROVE  LET a == Active(s)
         IN  /\ InMilestone(s) /\ CanAdvance(s) /\ a + 1 \in TaskIds
             /\ s.taskState.tasks[a] = "done" /\ s.taskState.tasks[a + 1] = "todo"
             /\ NextTodoTask(s, a) = NoTask /\ NextPendingTask(s, a) = NoTask
             /\ NextMilestone(s, a) = a + 1
             /\ UnsatisfiedMilestoneDependencies(s, a + 1) = {}
<1> DEFINE a == Active(s)
<1>1. a \in TaskIds /\ a # NoTask /\ s.taskState.tasks[a] = "done"
  BY SplitMeans
<1>2. InMilestone(s) /\ CanAdvance(s)
  BY DEF Split, WithoutMilestones, Ordered, PhaseFits
<1>3. a # NumTasks
  BY <1>2 DEF InMilestone
<1>4. a + 1 \in TaskIds /\ a + 1 > a
  BY <1>1, <1>3, PlanShape DEF TaskIds
<1>5. MilestoneIds = TaskIds
  BY DEF OneByOne, TaskIds, MilestoneIds
<1>6. s.taskState.tasks[a + 1] = "todo"
  BY <1>4 DEF Split
<1>7. OpenTasks(s) = {}
  <2>1. ASSUME NEW t \in OpenTasks(s) PROVE FALSE
    <3>1. t \in TaskIds /\ s.taskState.tasks[t] = "todo" /\ s.taskState.taskMilestones[t] = t
          /\ s.taskState.taskMilestones[t] \in {NoMilestone, s.taskState.activeMilestoneId}
      BY <2>1 DEF OpenTasks, Split
    <3>2. t = a
      BY <1>2, <3>1 DEF InMilestone, NoMilestone, TaskIds
    <3>3. QED
      BY <1>1, <3>1, <3>2
  <2>2. QED
    BY <2>1
<1>8. NextTodoTask(s, a) = NoTask /\ NextPendingTask(s, a) = NoTask
  <2>1. Ready(s, After(a, OpenTasks(s))) = {} /\ After(a, OpenTasks(s)) = {}
    BY <1>7 DEF Ready, After
  <2>2. QED
    BY <2>1, FirstOfType DEF NextTodoTask, NextPendingTask, NoTask
<1>9. NextMilestone(s, a) = a + 1
  <2> DEFINE later == {n \in Milestones(s) : n > a}
  <2>1. a + 1 \in later
    BY <1>2, <1>4, <1>5 DEF Milestones, InMilestone
  <2>2. \A n \in later : n \in TaskIds /\ a + 1 <= n
    BY <1>1, <1>5 DEF Milestones, TaskIds
  <2>3. IsFirst(a + 1, later)
    BY <2>1, <2>2 DEF IsFirst
  <2>4. \A n \in later : IsFirst(n, later) => n = a + 1
    BY <2>1, <2>2, <1>1 DEF IsFirst, TaskIds
  <2>5. FirstOf(later) = a + 1
    <3> HIDE DEF later
    <3>1. \A n : IsFirst(n, later) => n \in later
      BY DEF IsFirst
    <3>2. \A n : IsFirst(n, later) <=> n = a + 1
      BY <2>3, <2>4, <3>1
    <3>3. QED
      BY <2>1, <3>2 DEF FirstOf
  <2>6. QED
    BY <2>5 DEF NextMilestone
<1>10. UnsatisfiedMilestoneDependencies(s, a + 1) = {}
  <2>1. ASSUME NEW n \in UnsatisfiedMilestoneDependencies(s, a + 1) PROVE FALSE
    <3>1. n \in MilestoneDeps[a + 1] /\ s.taskState.milestones[n] # "done"
      BY <2>1 DEF UnsatisfiedMilestoneDependencies
    <3>2. n \in MilestoneIds /\ n < a + 1
      BY <1>4, <1>5, <3>1, PlanShape DEF OneByOne
    <3>3. n < a \/ n = a
      BY <1>1, <1>5, <3>2 DEF TaskIds
    <3>4. s.taskState.milestones[n] = "done"
      BY <1>2, <3>2, <3>3 DEF InMilestone
    <3>5. QED
      BY <3>1, <3>4
  <2>2. QED
    BY <2>1
<1>11. QED
  BY <1>1, <1>2, <1>4, <1>6, <1>8, <1>9, <1>10

\* advanceMilestone moves the split by one.
LEMMA AdvancedSplit ==
  ASSUME NEW s \in Session, Sound(s), Ordered(s), Split(s), OneByOne,
         ActiveStatus(s) = "done", s.state.phase # "completed"
  PROVE  LET r == Advanced(s)
         IN  /\ Split(r) /\ r.taskState.tasks = s.taskState.tasks
             /\ Active(r) \in TaskIds /\ r.taskState.tasks[Active(r)] = "todo"
             /\ r.state.phase = "planning"
<1> DEFINE a == Active(s)
           closed == WithMilestoneStatus(s, a, "done")
           task == OrElse(FirstReadyTaskForMilestone(closed, a + 1), FallbackTask(a))
           r == Advanced(s)
<1>1. /\ InMilestone(s) /\ CanAdvance(s) /\ a + 1 \in TaskIds
      /\ s.taskState.tasks[a] = "done" /\ s.taskState.tasks[a + 1] = "todo"
      /\ NextMilestone(s, a) = a + 1
      /\ UnsatisfiedMilestoneDependencies(s, a + 1) = {}
  BY DoneSplit
<1>2. a \in TaskIds /\ a + 1 # NoTask /\ MilestoneIds = TaskIds
      /\ s.taskState.activeMilestoneId = a
  BY <1>1, SplitMeans DEF OneByOne, TaskIds, MilestoneIds, NoTask, InMilestone
<1>3. closed \in Session /\ Sound(closed)
  BY <1>2, WithMilestoneStatusSound, Values DEF Sound
<1>4. closed.taskState.milestones = s.taskState.milestones
  <2>1. s.taskState.milestones[a] = "done"
    BY <1>1 DEF InMilestone
  <2>2. [s.taskState.milestones EXCEPT ![a] = "done"] = s.taskState.milestones
    BY <2>1 DEF Session, TaskState
  <2>3. QED
    BY <2>2 DEF WithMilestoneStatus, Session, TaskState
<1>5. /\ closed.state = s.state
      /\ closed.taskState.tasks = s.taskState.tasks
      /\ closed.taskState.taskMilestones = s.taskState.taskMilestones
      /\ closed.taskState.planned = s.taskState.planned
  BY DEF WithMilestoneStatus, Session, TaskState
<1> HIDE DEF closed
<1>6. UnsatisfiedMilestoneDependencies(closed, a + 1) = {} /\ NextMilestone(closed, a) = a + 1
  BY <1>1, <1>4 DEF UnsatisfiedMilestoneDependencies, NextMilestone, Milestones
<1>7. task = a + 1
  <2> DEFINE S == Ready(closed, {t \in TaskIds : /\ closed.taskState.tasks[t] = "todo"
                                                 /\ closed.taskState.taskMilestones[t] = a + 1})
  <2>1. S \subseteq {a + 1}
    BY <1>5 DEF Ready, Split
  <2>2. FirstReadyTaskForMilestone(closed, a + 1) \in S \cup {0}
    BY FirstOfType DEF FirstReadyTaskForMilestone
  <2>3. QED
    BY <2>1, <2>2 DEF OrElse, FallbackTask
<1>8. r = Activated(closed, a + 1, a + 1)
  <2>1. closed = WithMilestoneStatus(s, s.taskState.activeMilestoneId, "done")
    BY <1>2 DEF closed
  <2>2. a + 1 # NoMilestone
    BY <1>2 DEF NoTask, NoMilestone
  <2>3. NextMilestone(s, a) = a + 1
    BY <1>1
  <2>4. QED
    BY <1>2, <1>6, <1>7, <2>1, <2>2, <2>3 DEF Advanced
<1> HIDE DEF r
<1>9. /\ r.state.phase = "planning" /\ r.state.currentFlow = "milestone"
      /\ r.taskState.activeTaskId = a + 1 /\ r.taskState.activeMilestoneId = a + 1
      /\ r.taskState.tasks = [s.taskState.tasks EXCEPT ![a + 1] = "todo"]
      /\ r.taskState.milestones = [s.taskState.milestones EXCEPT ![a + 1] = "in_progress"]
      /\ r.taskState.taskMilestones = s.taskState.taskMilestones
      /\ r.taskState.planned = s.taskState.planned
  BY <1>1, <1>2, <1>3, <1>4, <1>5, <1>8, ActivatedEffect
<1>10. r.taskState.tasks = s.taskState.tasks
  BY <1>1, <1>9 DEF Session, TaskState
<1>11. Active(r) = a + 1 /\ ActiveStatus(r) = "todo"
  BY <1>1, <1>2, <1>9, <1>10 DEF Active, ActiveStatus, StatusOf
<1>12. /\ r.taskState.milestones[a + 1] = "in_progress"
       /\ \A m \in MilestoneIds : m # a + 1 => r.taskState.milestones[m] = s.taskState.milestones[m]
  BY <1>1, <1>2, <1>9 DEF Session, TaskState
<1>13. ASSUME NEW t \in TaskIds
       PROVE  /\ t < a + 1 => t < a \/ t = a
              /\ t > a + 1 => t > a
  BY <1>2 DEF TaskIds
<1>14. \A t \in TaskIds :
         /\ r.taskState.taskMilestones[t] = t
         /\ t < a + 1 => r.taskState.tasks[t] = "done"
         /\ t > a + 1 => r.taskState.tasks[t] = "todo"
  BY <1>1, <1>9, <1>10, <1>13 DEF Split
<1>15. \A m \in MilestoneIds :
         /\ m < a + 1 => r.taskState.milestones[m] = "done"
         /\ m > a + 1 => r.taskState.milestones[m] = "todo"
         /\ m = a + 1 => r.taskState.milestones[m] \in {"in_progress", "done"}
  <2>1. s.taskState.milestones[a] = "done"
    BY <1>1 DEF InMilestone
  <2>2. TAKE m \in MilestoneIds
  <2>3. CASE m = a + 1
    BY <1>2, <1>12, <2>3 DEF TaskIds
  <2>4. CASE m # a + 1
    BY <1>1, <1>2, <1>12, <1>13, <2>1, <2>4 DEF InMilestone
  <2>5. QED
    BY <2>3, <2>4
<1>16. InMilestone(r)
  BY <1>9, <1>11, <1>15 DEF InMilestone
<1>17. QED
  BY <1>1, <1>9, <1>10, <1>11, <1>14, <1>16 DEF Split, r

\* A plan, a reset, the first start.
LEMMA PlannedSplit ==
  ASSUME NEW s \in Session, OneByOne, NEW goal, NEW longRunning \in BOOLEAN
  PROVE  LinedUp(Planned(s, goal, longRunning))
<1> DEFINE r == Planned(s, goal, longRunning)
<1>1. 1 \in TaskIds /\ 1 # NoTask /\ \A t \in TaskIds : ~(t < 1) /\ t # 0 /\ (t = 1 \/ t > 1)
  BY PlanShape DEF TaskIds, NoTask
<1>2. MilestoneIds = TaskIds
  BY DEF OneByOne, TaskIds, MilestoneIds
<1>3. /\ r.taskState.tasks = [t \in TaskIds |-> "todo"]
      /\ r.taskState.taskMilestones = [t \in TaskIds |-> OrElse(PlanMilestone[t], s.taskState.taskMilestones[t])]
      /\ r.taskState.planned /\ r.taskState.activeTaskId = 1
      /\ r.taskState.activeMilestoneId = (IF longRunning THEN 1 ELSE NoMilestone)
      /\ r.taskState.milestones = [m \in MilestoneIds |->
            IF ~longRunning THEN "absent" ELSE IF m = 1 THEN "in_progress" ELSE "todo"]
      /\ r.state.currentFlow = (IF longRunning THEN "milestone" ELSE "disciplined_single")
  BY DEF Planned, Cleared, InitialTaskState, InitialRunState, Session, TaskState
<1> HIDE DEF r
<1>4. Active(r) = 1 /\ ActiveStatus(r) = "todo"
  BY <1>1, <1>3 DEF Active, ActiveStatus, StatusOf
<1>5. \A t \in TaskIds : r.taskState.taskMilestones[t] = t
  BY <1>1, <1>3 DEF OneByOne, OrElse
<1>6. \A t \in TaskIds :
         /\ t < 1 => r.taskState.tasks[t] = "done"
         /\ t > 1 => r.taskState.tasks[t] = "todo"
  BY <1>1, <1>3
<1>7. longRunning => InMilestone(r)
  BY <1>1, <1>2, <1>3, <1>4 DEF InMilestone
<1>8. ~longRunning => WithoutMilestones(r)
  BY <1>3, <1>4 DEF WithoutMilestones
<1>9. QED
  BY <1>1, <1>3, <1>4, <1>5, <1>6, <1>7, <1>8 DEF LinedUp, Split, r

LEMMA UnplannedSplit ==
  ASSUME NEW s \in Session
  PROVE  LinedUp(Reset(s)) /\ LinedUp(InitialSession)
  BY DEF LinedUp, Unplanned, Reset, InitialSession, InitialTaskState, InitialRunState, Active,
     Session, TaskState, RunState

\* What a session says of its plan.
SamePlan(s, r) ==
  /\ r.taskState.planned = s.taskState.planned
  /\ r.taskState.taskMilestones = s.taskState.taskMilestones

LEMMA WithKnownBlockerPlan ==
  ASSUME NEW s \in Session, NEW t
  PROVE  LET r == WithKnownBlocker(s, t)
         IN  SamePlan(s, r) /\ r.taskState.activeMilestoneId = s.taskState.activeMilestoneId
<1> DEFINE Stays(r) == SamePlan(s, r) /\ r.taskState.activeMilestoneId = s.taskState.activeMilestoneId
<1>1. \A b : /\ Stays(WithBlocker(s, b))
             /\ Stays(WithTaskBlocker(s, t, b))
             /\ Stays(WithHint(WithTaskBlocker(WithBlocker(s, b), t, b), t, b))
  BY DEF SamePlan, WithBlocker, WithTaskBlocker, WithHint, Session, RunState, TaskState
<1>2. Stays(s)
  BY DEF SamePlan
<1> HIDE DEF Stays
<1>3. Stays(WithKnownBlocker(s, t))
  BY <1>1, <1>2 DEF WithKnownBlocker
<1>4. QED
  BY <1>3 DEF Stays

LEMMA AgreedPlan ==
  ASSUME NEW s \in Session, NEW t \in TaskIds \cup {NoTask},
         NEW m \in MilestoneIds \cup {NoMilestone}, NEW v \in VerificationStatuses,
         NEW path \in BOOLEAN, NEW handoff \in Handoffs
  PROVE  LET r == Agreed(s, t, m, v, path, handoff)
         IN  SamePlan(s, r) /\ r.taskState.activeMilestoneId = m
<1> DEFINE onTask == WithActiveTask(s, t)
           onMilestone == WithMilestone(onTask, m)
           reported == WithReport(onMilestone, v, path)
<1>1. onTask \in Session /\ SamePlan(s, onTask)
  BY DEF SamePlan, WithActiveTask, Session, RunState, TaskState
<1> HIDE DEF onTask
<1>2. /\ onMilestone \in Session /\ SamePlan(s, onMilestone)
      /\ onMilestone.taskState.activeMilestoneId = m
  BY <1>1 DEF SamePlan, WithMilestone, Session, RunState, TaskState
<1> HIDE DEF onMilestone
<1>3. /\ reported \in Session /\ SamePlan(s, reported)
      /\ reported.taskState.activeMilestoneId = m
  BY <1>2 DEF SamePlan, WithReport, Session, RunState, TaskState
<1> HIDE DEF reported
<1>4. LET r == WithHandoff(reported, handoff)
      IN  SamePlan(s, r) /\ r.taskState.activeMilestoneId = m
  BY <1>3 DEF SamePlan, WithHandoff, Session, TaskState
<1>5. QED
  BY <1>4 DEF Agreed, reported, onMilestone, onTask

\* In a split plan the active task's tag is the active milestone, and no tag is missing.
LEMMA LoadedSplit ==
  ASSUME NEW s \in Session, Sound(s), Ordered(s), LinedUp(s)
  PROVE  LinedUp(Loaded(s))
<1> DEFINE r == Loaded(s)
           known == Reconciled(s)
           t == ActiveTask(s)
           tag == IF t = NoTask THEN NoMilestone ELSE s.taskState.taskMilestones[t]
           m == OrElse(tag, OrElse(s.taskState.activeMilestoneId, s.state.activeMilestoneId))
           path == s.state.lastVerificationPath \/ s.taskState.lastVerificationPath
           recorded == IF s.state.lastVerificationStatus # "none"
                       THEN s.state.lastVerificationStatus ELSE s.taskState.lastVerificationStatus
           verdict == IF recorded = "none" /\ path THEN InferredVerdict(StatusOf(s, t)) ELSE recorded
           handoff == IF s.state.lastHandoffPath # NoHandoff
                      THEN s.state.lastHandoffPath ELSE s.taskState.lastHandoffPath
           agreed == Agreed(s, t, m, verdict, path, handoff)
<1>1. SameRun(s, r) /\ r \in Session /\ known \in Session
  BY LoadedSame, LoadedSound, ReconciledSame DEF Sound
<1>2. known = WithKnownBlocker(agreed, t)
  BY DEF Reconciled
<1>3. t = Active(s) /\ t \in TaskIds \cup {NoTask}
  BY DEF ActiveTask, OrElse, Sound, Agree, Session, RunState, TaskState, Active
<1>4. verdict = s.state.lastVerificationStatus /\ path = s.state.lastVerificationPath
      /\ (path => verdict # "none")
  BY DEF Sound, Agree, Reported, Session, RunState, TaskState
<1>5. verdict \in VerificationStatuses /\ path \in BOOLEAN /\ handoff \in Handoffs
  BY <1>4 DEF Session, RunState, TaskState
<1>6. m \in MilestoneIds \cup {NoMilestone}
  BY <1>3 DEF OrElse, Session, TaskState, RunState, NoMilestone
<1>7. r = Hydrated(known)
  BY DEF Loaded
<1>8. Active(r) = Active(s) /\ ActiveStatus(r) = ActiveStatus(s)
  <2>1. Sound(r)
    BY LoadedSound
  <2>2. s.state.activeTaskId = s.taskState.activeTaskId /\ r.state.activeTaskId = r.taskState.activeTaskId
    BY <2>1 DEF Sound, Agree
  <2>3. QED
    BY <1>1, <2>2 DEF SameRun, Active, ActiveStatus, StatusOf
<1> HIDE DEF r, known, path, verdict, handoff
<1>9. CASE Unplanned(s)
  BY <1>1, <1>8, <1>9 DEF Unplanned, SameRun, LinedUp, r
<1>10. CASE Split(s)
  <2>1. t \in TaskIds /\ t # NoTask /\ m = t
    BY <1>3, <1>10, SplitMeans DEF Split, OrElse, TaskIds
  <2>2. agreed \in Session
    BY <1>3, <1>4, <1>5, <1>6, AgreedSound DEF Sound
  <2> HIDE DEF t, m
  <2>3. SamePlan(s, agreed) /\ agreed.taskState.activeMilestoneId = m
    BY <1>3, <1>5, <1>6, AgreedPlan
  <2> HIDE DEF agreed
  <2>4. SamePlan(s, known) /\ known.taskState.activeMilestoneId = m
    BY <1>2, <2>2, <2>3, WithKnownBlockerPlan DEF SamePlan
  <2>5. \A u \in TaskIds : known.taskState.taskMilestones[u] = u /\ u # 0
    BY <1>10, <2>4 DEF SamePlan, Split, TaskIds
  <2>6. /\ r.taskState.planned /\ r.taskState.activeMilestoneId = m
        /\ \A u \in TaskIds : r.taskState.taskMilestones[u] = u
    <3>1. CASE ~known.state.activePlanPath
      BY <1>7, <1>10, <2>4, <2>5, <3>1 DEF Hydrated, SamePlan, Split
    <3>2. CASE known.state.activePlanPath
      <4>1. /\ r.taskState.planned /\ r.taskState.activeMilestoneId = m
            /\ r.taskState.taskMilestones =
                 [u \in TaskIds |-> OrElse(known.taskState.taskMilestones[u], OrElse(PlanMilestone[u],
                      IF u \in Milestones(known) THEN u ELSE NoMilestone))]
        BY <1>1, <1>7, <2>4, <3>2 DEF Hydrated, Session, TaskState
      <4>2. QED
        BY <2>5, <4>1 DEF OrElse
    <3>3. QED
      BY <3>1, <3>2
  <2>7. WithoutMilestones(s) => WithoutMilestones(r)
    BY <1>1, <1>8 DEF WithoutMilestones, SameRun
  <2>8. InMilestone(s) => InMilestone(r)
    BY <1>1, <1>3, <1>8, <2>1, <2>6 DEF InMilestone, SameRun
  <2>9. Split(r)
    BY <1>1, <1>8, <1>10, <2>6, <2>7, <2>8 DEF Split, SameRun
  <2>10. QED
    BY <2>9 DEF LinedUp, r
<1>11. QED
  BY <1>9, <1>10 DEF LinedUp

-----------------------------------------------------------------------------
(* continueTaskLoop, from the innermost call out. *)

ProofKept(t) == t \in evidence' <=> t \in evidence

Pending == {"todo", "blocked", "in_progress"}

\* What continueTaskLoop may make of a task that it finds in a status.
Moves(t, from) ==
  LET to == session'.taskState.tasks[t]
      isCheck == PlanKind[t] = "verification"
  IN  \/ to = from /\ ProofKept(t)
      \/ from = "blocked" /\ to = "todo" /\ ProofKept(t)
      \/ from \in Pending /\ to \in {"in_progress", "blocked"} /\ t \notin evidence'
      \/ from \in Pending /\ isCheck /\ to = "in_progress" /\ ProofKept(t)
      \/ from \in Pending /\ (isCheck \/ from = "in_progress") /\ to = "validated" /\ t \in evidence'
      \/ from = "validated" /\ t \in evidence /\ to = "done" /\ ProofKept(t)

\* A call on s keeps the plan lined up and moves each task by these rules.
Onward(s) ==
  /\ LinedUp(session') /\ LinedUp(disk')
  /\ \A t \in TaskIds : Moves(t, s.taskState.tasks[t])

\* A task that nobody touched.
LEMMA RestMoves ==
  ASSUME NEW t, NEW from, session'.taskState.tasks[t] = from, ProofKept(t)
  PROVE  Moves(t, from)
  BY DEF Moves

LEMMA ExecuteOnward ==
  ASSUME OneByOne, NEW s \in Session, Sound(s), Ordered(s), Split(s), NEW d \in Session, LinedUp(d),
         s.taskState.tasks[Active(s)] = "todo", Execute(s, d)
  PROVE  Onward(s)
<1> DEFINE t == Active(s)
           begun == ExecutionStarted(s)
           tools == GrantedTools(begun, t)
<1>1. t \in TaskIds /\ t # NoTask /\ s.taskState.tasks[t] = "todo"
  BY SplitMeans
<1> HIDE DEF t
<1>2. /\ Ordered(begun) /\ begun.state.activeTaskId = t /\ Active(begun) = t
      /\ OnlyTouches(s, begun, t) /\ SamePlace(s, begun)
      /\ begun.taskState.tasks[t] = "in_progress"
      /\ begun.state.phase = "implementing" /\ begun.taskState.resumePhase = "implementing"
  BY <1>1, BegunOrdered DEF t
<1>3. begun \in Session /\ Sound(begun)
  BY ExecutionStartedSound DEF Sound
<1> HIDE DEF begun, tools
<1>4. Split(begun)
  BY <1>2, <1>3, TouchedSplit DEF t
<1>5. evidence' = StillKnown(begun) \ {t}
  BY <1>2 DEF Execute, begun
<1>6. t \notin evidence' /\ \A u \in TaskIds : u # t => ProofKept(u)
  <2>1. \A u \in TaskIds : begun.taskState.tasks[u] # "absent"
    BY <1>2, <1>3, <1>4, SplitMeans
  <2>2. QED
    BY <1>5, <2>1 DEF ProofKept, StillKnown
<1>7. ASSUME NEW r \in Session, OnlyTouches(begun, r, t), session' = r,
             r.taskState.tasks[t] \in {"in_progress", "blocked"}
      PROVE  \A u \in TaskIds : Moves(u, s.taskState.tasks[u])
  <2>1. Moves(t, s.taskState.tasks[t])
    BY <1>1, <1>6, <1>7 DEF Moves, Pending
  <2>2. ASSUME NEW u \in TaskIds, u # t PROVE Moves(u, s.taskState.tasks[u])
    <3>1. session'.taskState.tasks[u] = s.taskState.tasks[u]
      BY <1>2, <1>7, <2>2 DEF OnlyTouches
    <3>2. QED
      BY <1>6, <2>2, <3>1, RestMoves
  <2>3. QED
    BY <2>1, <2>2
<1>8. ASSUME NEW satisfied \in BOOLEAN,
             Return(ExecutionEnded(begun, t, satisfied), ExecutionEnded(begun, t, satisfied),
                    [outcome |-> "ok", tools |-> tools])
      PROVE  Onward(s)
  <2> DEFINE ended == ExecutionEnded(begun, t, satisfied)
  <2>1. /\ OnlyTouches(begun, ended, t) /\ SamePlace(begun, ended)
        /\ ended.taskState.tasks[t] \in {"in_progress", "blocked"}
    BY <1>1, <1>2, <1>3, ExecutionEndedOrdered
  <2>2. ended \in Session
    BY <1>1, <1>2, <1>3, ExecutionEndedSound DEF Sound
  <2>3. session' = ended /\ disk' = ended
    BY <1>8 DEF Return
  <2> HIDE DEF ended
  <2>4. Split(ended)
    BY <1>2, <1>3, <1>4, <2>1, <2>2, TouchedSplit
  <2>5. \A u \in TaskIds : Moves(u, s.taskState.tasks[u])
    BY <1>7, <2>1, <2>2, <2>3
  <2>6. QED
    BY <2>3, <2>4, <2>5 DEF Onward, LinedUp
<1>9. ASSUME Return(begun, d, [outcome |-> "agent_failed", tools |-> tools])
      PROVE  Onward(s)
  <2>1. session' = begun /\ disk' = d
    BY <1>9 DEF Return
  <2>2. OnlyTouches(begun, begun, t)
    BY DEF OnlyTouches
  <2>3. \A u \in TaskIds : Moves(u, s.taskState.tasks[u])
    BY <1>2, <1>3, <1>7, <2>1, <2>2
  <2>4. QED
    BY <1>4, <2>1, <2>3 DEF Onward, LinedUp
<1>10. QED
  BY <1>2, <1>8, <1>9 DEF Execute, begun, tools

LEMMA VerifyOnward ==
  ASSUME OneByOne, NEW s \in Session, Sound(s), Ordered(s), Split(s), NEW d \in Session, LinedUp(d),
         s.taskState.tasks[Active(s)] = "in_progress", Verify(s, d)
  PROVE  Onward(s)
<1> DEFINE t == Active(s)
           opened == VerificationStarted(s)
           checked == InPhase(opened, "verifying")
           target == checked.state.activeTaskId
<1>1. t \in TaskIds /\ t # NoTask /\ s.taskState.tasks[t] = "in_progress"
  BY SplitMeans
<1> HIDE DEF t
<1>2. /\ CanTransition(opened.state.phase, "verifying")
      /\ Sound(checked) /\ Ordered(checked) /\ SamePlace(s, checked)
      /\ checked.taskState = s.taskState /\ target = t
      /\ checked.state.phase = "verifying"
  BY <1>1, OpenedOrdered DEF t
<1>3. checked \in Session /\ Active(checked) = t
  BY <1>2 DEF Sound, Active, t
<1>4. s.state.phase # "completed"
  BY <1>1, SplitMeans DEF Ordered, PhaseFits, t
<1>5. Split(checked)
  <2> HIDE DEF checked
  <2>1. QED
    BY <1>2, <1>3, <1>4, SameSplit
<1>6. StillKnown(checked) \cap TaskIds = evidence \cap TaskIds
  <2> HIDE DEF checked
  <2>1. \A u \in TaskIds : checked.taskState.tasks[u] # "absent"
    BY <1>2, <1>3, <1>5, SplitMeans
  <2>2. QED
    BY <2>1 DEF StillKnown
<1>7. ASSUME NEW commandsPass \in BOOLEAN,
             Saved(VerificationEnded(checked, FailedChecks(checked, target, commandsPass))),
             evidence' = IF VerificationStatus(checked, FailedChecks(checked, target, commandsPass)) = "pass"
                         THEN StillKnown(checked) \cup {target}
                         ELSE StillKnown(checked) \ {target}
      PROVE  Onward(s)
  <2> DEFINE failed == FailedChecks(checked, target, commandsPass)
             ended == VerificationEnded(checked, failed)
  <2> HIDE DEF checked, failed, target
  <2>1. /\ Ordered(ended) /\ OnlyTouches(checked, ended, t) /\ SamePlace(checked, ended)
        /\ ended.taskState.tasks[t] \in {"validated", "blocked"}
        /\ ended.taskState.tasks[t] = "validated" <=> VerificationStatus(checked, failed) = "pass"
    BY <1>1, <1>2, <1>3, VerdictOrdered
  <2>2. ended \in Session
    BY <1>1, <1>2, <1>3, VerificationEndedSound DEF Sound
  <2>3. session' = ended /\ disk' = ended
    BY <1>7 DEF Saved, Return, failed
  <2>4. evidence' = IF VerificationStatus(checked, failed) = "pass"
                    THEN StillKnown(checked) \cup {t} ELSE StillKnown(checked) \ {t}
    BY <1>2, <1>7 DEF failed
  <2> HIDE DEF ended
  <2>5. /\ \A u \in TaskIds : u # t => ProofKept(u)
        /\ ended.taskState.tasks[t] = "validated" => t \in evidence'
        /\ ended.taskState.tasks[t] = "blocked" => t \notin evidence'
    <3>1. CASE VerificationStatus(checked, failed) = "pass"
      BY <1>6, <2>1, <2>4, <3>1 DEF ProofKept
    <3>2. CASE VerificationStatus(checked, failed) # "pass"
      BY <1>6, <2>1, <2>4, <3>2 DEF ProofKept
    <3>3. QED
      BY <3>1, <3>2
  <2>6. Split(ended)
    BY <1>2, <1>3, <1>5, <2>1, <2>2, TouchedSplit
  <2>7. Moves(t, s.taskState.tasks[t])
    BY <1>1, <2>1, <2>3, <2>5 DEF Moves, Pending
  <2>8. ASSUME NEW u \in TaskIds, u # t PROVE Moves(u, s.taskState.tasks[u])
    <3>1. session'.taskState.tasks[u] = s.taskState.tasks[u]
      BY <1>2, <2>1, <2>3, <2>8 DEF OnlyTouches
    <3>2. QED
      BY <2>5, <2>8, <3>1, RestMoves
  <2>9. QED
    BY <2>3, <2>6, <2>7, <2>8 DEF Onward, LinedUp
<1>8. ASSUME Unsaved(checked, d, "checks_failed"), evidence' = StillKnown(checked)
      PROVE  Onward(s)
  <2>1. session' = checked /\ disk' = d
    BY <1>8 DEF Unsaved, Return
  <2>2. \A u \in TaskIds : session'.taskState.tasks[u] = s.taskState.tasks[u] /\ ProofKept(u)
    BY <1>2, <1>6, <1>8, <2>1 DEF ProofKept
  <2>3. QED
    BY <1>5, <2>1, <2>2, RestMoves DEF Onward, LinedUp
<1>9. QED
  BY <1>2, <1>7, <1>8 DEF Verify

\* In a split plan the task whose turn it is waits for nothing.
LEMMA TurnIsReady ==
  ASSUME OneByOne, NEW s \in Session, Split(s)
  PROVE  UnsatisfiedDependencies(s, Active(s)) = {}
<1>1. ASSUME NEW u \in UnsatisfiedDependencies(s, Active(s)) PROVE FALSE
  <2>1. Active(s) \in TaskIds /\ u \in PlanDeps[Active(s)] /\ s.taskState.tasks[u] # "done"
    BY <1>1 DEF UnsatisfiedDependencies, Split
  <2>2. u \in TaskIds /\ u < Active(s)
    BY <2>1, PlanShape DEF OneByOne
  <2>3. QED
    BY <2>1, <2>2 DEF Split
<1>2. QED
  BY <1>1

\* A call that goes on from a session r, which s was first turned into.
LEMMA OnwardFrom ==
  ASSUME NEW s, NEW r, Onward(r),
         \A t \in TaskIds :
           \/ r.taskState.tasks[t] = s.taskState.tasks[t]
           \/ s.taskState.tasks[t] = "blocked" /\ r.taskState.tasks[t] = "todo"
           \/ /\ s.taskState.tasks[t] = "todo" /\ r.taskState.tasks[t] = "in_progress"
              /\ PlanKind[t] = "verification"
  PROVE  Onward(s)
<1>1. ASSUME NEW t \in TaskIds PROVE Moves(t, s.taskState.tasks[t])
  <2>1. Moves(t, r.taskState.tasks[t])
    BY DEF Onward
  <2>2. CASE r.taskState.tasks[t] = s.taskState.tasks[t]
    BY <2>1, <2>2
  <2>3. CASE s.taskState.tasks[t] = "blocked" /\ r.taskState.tasks[t] = "todo"
    BY <2>1, <2>3 DEF Moves, Pending
  <2>4. CASE /\ s.taskState.tasks[t] = "todo" /\ r.taskState.tasks[t] = "in_progress"
             /\ PlanKind[t] = "verification"
    BY <2>1, <2>4 DEF Moves, Pending
  <2>5. QED
    BY <2>2, <2>3, <2>4
<1>2. QED
  BY <1>1 DEF Onward

LEMMA StartTaskOnward ==
  ASSUME OneByOne, NEW s \in Session, Sound(s), Ordered(s), Split(s), NEW d \in Session, LinedUp(d),
         s.taskState.tasks[Active(s)] = "todo", s.state.phase # "paused", StartTask(s, d)
  PROVE  Onward(s)
<1> DEFINE t == Active(s)
           begun == Started(s, t)
<1>1. t \in TaskIds /\ t # NoTask /\ t = s.taskState.activeTaskId
  BY SplitMeans DEF Active
<1>2. UnsatisfiedDependencies(s, t) = {}
  BY TurnIsReady
<1>3. CASE TaskKind(s, t) = "verification" /\ Verify(begun, begun)
  <2>1. /\ Sound(begun) /\ Ordered(begun) /\ OnlyTouches(s, begun, t) /\ SamePlace(s, begun)
        /\ Active(begun) = t /\ begun.taskState.tasks[t] = "in_progress"
    BY <1>1, StartedOrdered
  <2>2. begun \in Session /\ PlanKind[t] = "verification"
    BY <1>1, <1>3, <2>1 DEF Sound, TaskKind, Split
  <2> HIDE DEF begun
  <2>3. Split(begun)
    BY <2>1, <2>2, TouchedSplit
  <2>4. Onward(begun)
    BY <1>3, <2>1, <2>2, <2>3, VerifyOnward DEF LinedUp
  <2>5. QED
    BY <2>1, <2>2, <2>4, OnwardFrom DEF OnlyTouches
<1>4. CASE Execute(s, d)
  BY <1>4, ExecuteOnward
<1>5. QED
  BY <1>1, <1>2, <1>3, <1>4 DEF StartTask

\* A call that refuses, and one that leaves another phase or task behind it.
LEMMA UnmovedOnward ==
  ASSUME NEW s, LinedUp(session'), LinedUp(disk'), session'.taskState.tasks = s.taskState.tasks,
         evidence' = evidence
  PROVE  Onward(s)
  BY RestMoves DEF Onward, ProofKept

LEMMA LeaveTaskOnward ==
  ASSUME OneByOne, NEW s \in Session, Sound(s), Ordered(s), Split(s), NEW d \in Session, LinedUp(d),
         ActiveStatus(s) = "done", s.state.phase # "completed", LeaveTask(s, d)
  PROVE  Onward(s)
<1> DEFINE advanced == Advanced(s)
<1>1. /\ CanAdvance(s)
      /\ NextTodoTask(s, Active(s)) = NoTask /\ NextPendingTask(s, Active(s)) = NoTask
  BY DoneSplit
<1>2. Active(s) = s.taskState.activeTaskId
  BY DEF Active
<1>3. /\ Split(advanced) /\ advanced.taskState.tasks = s.taskState.tasks
      /\ advanced.taskState.tasks[Active(advanced)] = "todo"
      /\ advanced.state.phase = "planning"
  BY AdvancedSplit
<1>4. Ordered(advanced) /\ advanced.state.blocker = "none"
  BY <1>1, <1>3, AdvancedOrdered
<1>5. Sound(advanced) /\ advanced \in Session
  BY <1>1, AdvancedSound DEF Sound
<1>6. StartTask(advanced, advanced)
  BY <1>1, <1>2, <1>3, <1>4 DEF LeaveTask
<1> HIDE DEF advanced
<1>7. Onward(advanced)
  BY <1>3, <1>4, <1>5, <1>6, StartTaskOnward DEF LinedUp
<1>8. QED
  BY <1>3, <1>7, OnwardFrom

\* review, from the command or from continueTaskLoop.
LEMMA ReviewedOnward ==
  ASSUME OneByOne, NEW s \in Session, Sound(s), Ordered(s), LinedUp(s), Covered(s, evidence),
         Saved(Reviewed(s)), evidence' = evidence
  PROVE  Onward(s)
<1> DEFINE r == Reviewed(s)
           t == Active(s)
<1>1. session' = r /\ disk' = r
  BY DEF Saved, Return
<1>2. CASE s.state.phase # "reviewing"
  BY <1>1, <1>2, ReviewedOrdered, UnmovedOnward
<1>3. CASE s.state.phase = "reviewing"
  <2>1. t \in TaskIds /\ s.taskState.tasks[t] = "validated" /\ Split(s)
    BY <1>3, ValidatedUnderReview DEF LinedUp, Unplanned
  <2>2. OnlyTouches(s, r, t) /\ r.taskState.tasks[t] = "done"
    BY <1>3, ReviewedOrdered
  <2>3. Split(r)
    BY <2>1, ReviewedSplit
  <2> HIDE DEF r
  <2>4. \A u \in TaskIds : Moves(u, s.taskState.tasks[u])
    BY <1>1, <2>1, <2>2 DEF Moves, ProofKept, Covered, OnlyTouches
  <2>5. QED
    BY <1>1, <2>3, <2>4 DEF Onward, LinedUp
<1>4. QED
  BY <1>2, <1>3

LEMMA RunTaskOnward ==
  ASSUME OneByOne, NEW s \in Session, Sound(s), Ordered(s), LinedUp(s), Covered(s, evidence),
         NEW d \in Session, LinedUp(d),
         s.state.phase # "completed", s.state.phase = "paused" => s.state.blocker # "none",
         RunTask(s, d)
  PROVE  Onward(s)
<1> DEFINE t == s.taskState.activeTaskId
           requeued == AutoRecovered(s, t)
<1>1. t = Active(s) /\ StatusOf(s, t) = ActiveStatus(s)
  BY DEF Active, ActiveStatus
<1>2. StatusOf(s, t) # "absent" => Split(s) /\ t \in TaskIds /\ StatusOf(s, t) = s.taskState.tasks[t]
  BY <1>1, SplitMeans DEF LinedUp, Unplanned, StatusOf
<1>3. CASE StatusOf(s, t) = "todo" /\ StartTask(s, d)
  <2>1. s.state.phase # "paused"
    BY <1>1, <1>2, <1>3, QueuedIsClean
  <2>2. QED
    BY <1>1, <1>2, <1>3, <2>1, StartTaskOnward
<1>4. CASE StatusOf(s, t) = "in_progress" /\ Verify(s, d)
  BY <1>1, <1>2, <1>4, VerifyOnward
<1>5. CASE StatusOf(s, t) = "validated" /\ Saved(Reviewed(s)) /\ evidence' = evidence
  BY <1>2, <1>5, ReviewedOnward
<1>6. CASE StatusOf(s, t) = "done" /\ LeaveTask(s, d)
  BY <1>1, <1>2, <1>6, LeaveTaskOnward
<1>7. CASE StatusOf(s, t) = "blocked" /\ StartTask(requeued, requeued)
  <2>1. t \in TaskIds /\ s.taskState.tasks[t] = "blocked" /\ Split(s)
    BY <1>2, <1>7
  <2>2. /\ Ordered(requeued) /\ OnlyTouches(s, requeued, t) /\ SamePlace(s, requeued)
        /\ requeued.taskState.tasks[t] = "todo" /\ requeued.state.phase = "planning"
    BY <1>1, <2>1, AutoRecoveredOrdered
  <2>3. Sound(requeued) /\ requeued \in Session
    BY <2>1, OverridesSound DEF Sound
  <2> HIDE DEF requeued
  <2>4. Split(requeued) /\ Active(requeued) = t
    BY <1>1, <2>1, <2>2, <2>3, TouchedSplit
  <2>5. Onward(requeued)
    BY <1>7, <2>2, <2>3, <2>4, StartTaskOnward DEF LinedUp
  <2>6. QED
    BY <2>1, <2>2, <2>5, OnwardFrom DEF OnlyTouches
<1>8. CASE Unsaved(s, d, "refused") /\ evidence' = evidence
  BY <1>8, UnmovedOnward DEF Unsaved, Return
<1>9. QED
  BY <1>3, <1>4, <1>5, <1>6, <1>7, <1>8 DEF RunTask

LEMMA ContinueOnward ==
  ASSUME OneByOne, NEW s \in Session, Sound(s), Ordered(s), LinedUp(s), Covered(s, evidence),
         NEW d \in Session, LinedUp(d), ContinueTaskLoop(s, d)
  PROVE  Onward(s)
<1> DEFINE resumed == Resumed(s)
<1>1. PointersFromLedger(s) = s
  BY PointersFromLedgerSame
<1>2. ASSUME NEW r \in Session, Ordered(r), r.state.phase # "completed", NEW e, PickTask(r, e)
      PROVE  RunTask(r, e)
  <2>1. ~(r.taskState.activeTaskId = NoTask /\ FirstReadyTask(r) # NoTask)
    BY <1>2, NothingToPick DEF Active
  <2>2. QED
    BY <1>2, <2>1 DEF PickTask
<1>3. CASE Unsaved(s, d, "refused") /\ evidence' = evidence
  BY <1>3, UnmovedOnward DEF Unsaved, Return
<1>4. CASE s.state.phase = "paused" /\ PickTask(resumed, resumed)
  <2>1. /\ Ordered(resumed) /\ SameWork(s, resumed)
        /\ resumed.state.phase \in {"planning", "implementing"}
    BY <1>4, ResumedOrdered
  <2>2. resumed \in Session /\ Sound(resumed)
    BY <1>4, ResumedSound DEF Sound
  <2> HIDE DEF resumed
  <2>3. Covered(resumed, evidence)
    BY <2>1 DEF Covered, SameWork
  <2>4. LinedUp(resumed)
    BY <1>4, <2>1, <2>2, SameSplit DEF LinedUp, Unplanned, SameWork
  <2>5. Onward(resumed)
    BY <1>2, <1>4, <2>1, <2>2, <2>3, <2>4, RunTaskOnward
  <2>6. QED
    BY <2>1, <2>5, OnwardFrom DEF SameWork
<1>5. CASE /\ s.state.phase # "completed" /\ ~(s.state.phase = "paused" /\ s.state.blocker = "none")
           /\ PickTask(s, d)
  BY <1>2, <1>5, RunTaskOnward
<1>6. QED
  BY <1>1, <1>3, <1>4, <1>5 DEF ContinueTaskLoop

-----------------------------------------------------------------------------
(* The commands.  Every step keeps the plan lined up and is, for every task, *)
(* a step of its life.                                                       *)

LEMMA MovesLive ==
  ASSUME NEW t \in TaskIds, Moves(t, session.taskState.tasks[t])
  PROVE  \/ Life!Restart(t) \/ Life!Work(t) \/ Life!GiveUp(t) \/ Life!Pass(t) \/ Life!Try(t)
         \/ Life!Accept(t) \/ Life!Hold(t) \/ Life!Requeue(t) \/ Life!Rest(t)
<1> DEFINE from == session.taskState.tasks[t]
           to == session'.taskState.tasks[t]
<1>1. CASE to = from /\ ProofKept(t)
  BY <1>1 DEF ProofKept, Life!Rest, Life!Becomes, Life!SameProof
<1>2. CASE from = "blocked" /\ to = "todo" /\ ProofKept(t)
  BY <1>2 DEF ProofKept, Life!Requeue, Life!Becomes, Life!SameProof
<1>3. CASE from \in Pending /\ to \in {"in_progress", "blocked"} /\ t \notin evidence'
  BY <1>3 DEF Pending, Life!Work, Life!GiveUp, Life!Workable, Life!Becomes, Life!Unproved
<1>4. CASE from \in Pending /\ PlanKind[t] = "verification" /\ to = "in_progress" /\ ProofKept(t)
  BY <1>4 DEF Pending, ProofKept, Life!Try, Life!Workable, Life!Becomes, Life!SameProof
<1>5. CASE /\ from \in Pending /\ (PlanKind[t] = "verification" \/ from = "in_progress")
           /\ to = "validated" /\ t \in evidence'
  BY <1>5 DEF Pending, Life!Pass, Life!Workable, Life!Becomes
<1>6. CASE from = "validated" /\ t \in evidence /\ to = "done" /\ ProofKept(t)
  BY <1>6 DEF ProofKept, Life!Accept, Life!Becomes, Life!SameProof
<1>7. QED
  BY <1>1, <1>2, <1>3, <1>4, <1>5, <1>6 DEF Moves

Lives ==
  \A t \in TaskIds :
    \/ Life!Restart(t) \/ Life!Work(t) \/ Life!GiveUp(t) \/ Life!Pass(t) \/ Life!Try(t)
    \/ Life!Accept(t) \/ Life!Hold(t) \/ Life!Requeue(t) \/ Life!Rest(t)

InLine == LinedUp(session') /\ LinedUp(disk') /\ Lives

LEMMA OnwardInLine == Onward(session) => InLine
  BY MovesLive DEF Onward, InLine, Lives

LineInv == InHandInv /\ LinedUp(session) /\ LinedUp(disk)

LEMMA LineMeans ==
  LineInv => /\ session \in Session /\ Sound(session) /\ Ordered(session) /\ LinedUp(session)
             /\ disk \in Session /\ Sound(disk) /\ Ordered(disk) /\ LinedUp(disk)
             /\ Covered(session, evidence) /\ Behind(session, disk)
  BY InHandMeans DEF LineInv, InHandInv

LEMMA UnmovedInLine ==
  ASSUME LineInv, LinedUp(session'), LinedUp(disk'),
         session'.taskState.tasks = session.taskState.tasks, evidence' = evidence
  PROVE  InLine
  BY UnmovedOnward, OnwardInLine

\* Calls that store or leave what they found.
LEMMA RefusedInLine ==
  ASSUME LineInv, Unsaved(session, disk, "refused"), evidence' = evidence
  PROVE  InLine
  BY LineMeans, UnmovedInLine DEF Unsaved, Return

LEMMA IdleInLine ==
  ASSUME LineInv, UNCHANGED <<session, disk, evidence>>
  PROVE  InLine
  BY LineMeans, UnmovedInLine

\* A plan and a reset begin every task anew.
LEMMA PlanInLine ==
  ASSUME LineInv, OneByOne, NEW goal, NEW longRunning \in BOOLEAN,
         Saved(Planned(session, goal, longRunning)), evidence' = {}
  PROVE  InLine
<1> DEFINE r == Planned(session, goal, longRunning)
<1>1. r.taskState.tasks = [t \in TaskIds |-> "todo"]
  BY DEF Planned, Cleared, InitialTaskState
<1>2. LinedUp(r)
  BY LineMeans, PlannedSplit
<1>3. session' = r /\ disk' = r
  BY DEF Saved, Return
<1> HIDE DEF r
<1>4. \A t \in TaskIds : Life!Restart(t)
  BY <1>1, <1>3 DEF Life!Restart, Life!Becomes, Life!Unproved
<1>5. QED
  BY <1>2, <1>3, <1>4 DEF InLine, Lives

LEMMA ResetInLine == LineInv /\ ResetSession => InLine
<1> SUFFICES ASSUME LineInv, ResetSession PROVE InLine
  OBVIOUS
<1> DEFINE r == Reset(session)
<1>1. CASE Saved(r) /\ evidence' = {}
  <2>1. r.taskState.tasks = [t \in TaskIds |-> "absent"]
    BY DEF Reset, InitialTaskState
  <2>2. LinedUp(r)
    BY LineMeans, UnplannedSplit
  <2>3. session' = r /\ disk' = r
    BY <1>1 DEF Saved, Return
  <2> HIDE DEF r
  <2>4. \A t \in TaskIds : Life!Restart(t)
    BY <1>1, <2>1, <2>3 DEF Life!Restart, Life!Becomes, Life!Unproved
  <2>5. QED
    BY <2>2, <2>3, <2>4 DEF InLine, Lives
<1>2. CASE Unsaved(session, disk, "refused") /\ evidence' = evidence
  BY <1>2, RefusedInLine
<1>3. QED
  BY <1>1, <1>2 DEF ResetSession

\* The operator holds or queues the active task again.
LEMMA OverrideInLine == LineInv /\ (BlockCurrentTask \/ UnblockCurrentTask) => InLine
<1> SUFFICES ASSUME LineInv, BlockCurrentTask \/ UnblockCurrentTask PROVE InLine
  OBVIOUS
<1> DEFINE t == session.taskState.activeTaskId
<1>1. session \in Session /\ Sound(session) /\ Ordered(session) /\ t = Active(session)
      /\ LinedUp(session)
  BY LineMeans DEF Active
<1>2. ASSUME t # NoTask, NEW r, r \in {TaskBlocked(session, t), TaskUnblocked(session, t)},
             Saved(r), evidence' = evidence
      PROVE  InLine
  <2>1. t \in TaskIds /\ Split(session)
    BY <1>1, <1>2 DEF LinedUp, Unplanned, Split
  <2>2. r \in Session /\ OnlyTouches(session, r, t) /\ SamePlace(session, r)
        /\ r.taskState.tasks[t] \in {"todo", "blocked"}
    BY <1>1, <1>2, <2>1, OverridesSound, OverridesOrdered DEF Sound
  <2>3. Split(r)
    BY <1>1, <2>1, <2>2, TouchedSplit
  <2>4. session' = r /\ disk' = r
    BY <1>2 DEF Saved, Return
  <2>5. Life!Hold(t) \/ Life!Requeue(t)
    BY <1>2, <2>2, <2>4 DEF Life!Hold, Life!Requeue, Life!Becomes, Life!SameProof
  <2>6. \A u \in TaskIds : u # t => Life!Rest(u)
    BY <1>2, <2>2, <2>4 DEF Life!Rest, Life!Becomes, Life!SameProof, OnlyTouches
  <2>7. QED
    BY <2>3, <2>4, <2>5, <2>6 DEF InLine, Lives, LinedUp
<1>3. /\ \/ /\ t # NoTask
            /\ Saved(TaskBlocked(session, t)) \/ Saved(TaskUnblocked(session, t))
         \/ Unsaved(session, disk, "refused")
      /\ evidence' = evidence
  BY DEF BlockCurrentTask, UnblockCurrentTask, OnActiveTask
<1>4. QED
  BY <1>2, <1>3, RefusedInLine

LEMMA ResumeInLine == LineInv /\ Resume => InLine
<1> SUFFICES ASSUME LineInv, Resume PROVE InLine
  OBVIOUS
<1> DEFINE r == Resumed(session)
<1>1. session \in Session /\ Sound(session) /\ Ordered(session) /\ LinedUp(session)
      /\ evidence' = evidence
  BY LineMeans DEF Resume
<1>2. CASE session.state.phase = "paused" /\ Saved(r)
  <2>1. /\ r \in Session /\ SameWork(session, r)
        /\ r.state.phase \in {"planning", "implementing"}
    BY <1>1, <1>2, ResumedSound, ResumedOrdered DEF Sound
  <2>2. session' = r /\ disk' = r
    BY <1>2 DEF Saved, Return
  <2> HIDE DEF r
  <2>3. LinedUp(r)
    BY <1>1, <1>2, <2>1, SameSplit DEF LinedUp, Unplanned, SameWork
  <2>4. QED
    BY <1>1, <2>1, <2>2, <2>3, UnmovedInLine DEF SameWork
<1>3. CASE Unsaved(session, disk, "refused")
  BY <1>1, <1>3, RefusedInLine
<1>4. QED
  BY <1>2, <1>3 DEF Resume

LEMMA HandoffInLine == LineInv /\ (CreateHandoff \/ ClearHandoff) => InLine
<1> SUFFICES ASSUME LineInv, CreateHandoff \/ ClearHandoff PROVE InLine
  OBVIOUS
<1>1. session \in Session /\ Sound(session) /\ Ordered(session) /\ LinedUp(session)
      /\ evidence' = evidence
  BY LineMeans DEF CreateHandoff, ClearHandoff
<1>2. ASSUME NEW h \in Handoffs, Saved(WithHandoff(session, h))
      PROVE  InLine
  <2> DEFINE r == WithHandoff(session, h)
  <2>1. r \in Session /\ SameView(session, r)
    BY <1>1, WithHandoffSound, HandoffOrdered DEF Sound
  <2>2. session' = r /\ disk' = r
    BY <1>2 DEF Saved, Return
  <2> HIDE DEF r
  <2>3. CASE Split(session)
    BY <1>1, <2>1, <2>2, <2>3, SameSplit, UnmovedInLine DEF SameView, LinedUp
  <2>4. CASE Unplanned(session)
    <3>1. Unplanned(r)
      BY <2>1, <2>4 DEF Unplanned, SameView, SamePlace, Active
    <3>2. QED
      BY <1>1, <2>1, <2>2, <3>1, UnmovedInLine DEF SameView, LinedUp
  <2>5. QED
    BY <1>1, <2>3, <2>4 DEF LinedUp
<1>3. QED
  BY <1>1, <1>2, HandoffTypes, RefusedInLine DEF CreateHandoff, ClearHandoff

\* A new process may find a task still queued that the old one had taken up.
LEMMA CreateInLine == LineInv /\ Create => InLine
<1> SUFFICES ASSUME LineInv, Create PROVE InLine
  OBVIOUS
<1> DEFINE r == Loaded(disk)
<1>1. session' = r /\ disk' = r /\ evidence' = evidence
  BY DEF Create, Saved, Return
<1>2. LinedUp(r) /\ r.taskState.tasks = disk.taskState.tasks
  BY LineMeans, LoadedSplit, LoadedOrdered
<1> HIDE DEF r
<1>3. ASSUME NEW t \in TaskIds PROVE Life!Rest(t) \/ Life!Requeue(t) \/ Life!Hold(t)
  <2>1. session'.taskState.tasks[t] \in {session.taskState.tasks[t], "todo", "blocked"}
    BY <1>1, <1>2, LineMeans DEF Behind
  <2>2. QED
    BY <1>1, <2>1 DEF Life!Rest, Life!Requeue, Life!Hold, Life!Becomes, Life!SameProof
<1>4. QED
  BY <1>1, <1>2, <1>3 DEF InLine, Lives

LEMMA RunAutoInLine == OneByOne /\ LineInv /\ RunAuto => InLine
<1> SUFFICES ASSUME OneByOne, LineInv, RunAuto PROVE InLine
  OBVIOUS
<1>1. PICK goal \in Goals \cup {NoGoal}, maxSteps \in 1..MaxSteps :
        \/ Unsaved(session, disk, "refused") /\ evidence' = evidence
        \/ Saved(Planned(session, goal, TRUE)) /\ evidence' = {}
        \/ UNCHANGED <<session, disk, evidence>>
  BY DEF RunAuto
<1>2. QED
  BY <1>1, RefusedInLine, PlanInLine, IdleInLine

LEMMA ContinueInLine == OneByOne /\ LineInv /\ (Continue \/ LoopStep) => Onward(session)
  BY LineMeans, ContinueOnward DEF Continue, LoopStep

LEMMA ReviewInLine == OneByOne /\ LineInv /\ Review => Onward(session)
  BY LineMeans, ReviewedOnward DEF Review

LEMMA CommandInLine ==
  ASSUME OnlyLoopCommands, OneByOne
  PROVE  LineInv /\ [Next]_vars => InLine
<1> SUFFICES ASSUME LineInv, [Next]_vars PROVE InLine
  OBVIOUS
<1>1. ~(VerifyCommand \/ AdvanceMilestone \/ ExecuteCurrentTask \/ EnterWorkerValidator
        \/ CompleteCurrentTask \/ HandleInput)
  BY DEF OnlyLoopCommands, LoopCommands, VerifyCommand, AdvanceMilestone, ExecuteCurrentTask,
     EnterWorkerValidator, CompleteCurrentTask, OnActiveTask, HandleInput, Issued
<1>2. CASE Plan
  BY <1>2, PlanInLine DEF Plan
<1>3. CASE Resume \/ CreateHandoff \/ ClearHandoff \/ ResetSession \/ Create
  BY <1>3, ResumeInLine, HandoffInLine, ResetInLine, CreateInLine
<1>4. CASE BlockCurrentTask \/ UnblockCurrentTask
  BY <1>4, OverrideInLine
<1>5. CASE Continue \/ LoopStep \/ Review
  BY <1>5, ContinueInLine, ReviewInLine, OnwardInLine
<1>6. CASE RunCompletionLoop \/ LoopStop
  BY <1>6, IdleInLine DEF RunCompletionLoop, LoopStop
<1>7. CASE RunAuto
  BY <1>7, RunAutoInLine
<1>8. CASE UNCHANGED vars
  BY <1>8, IdleInLine DEF vars
<1>9. QED
  BY <1>1, <1>2, <1>3, <1>4, <1>5, <1>6, <1>7, <1>8 DEF Next, Command

LEMMA NextInLine ==
  ASSUME OnlyLoopCommands, OneByOne
  PROVE  LineInv /\ [Next]_vars => LineInv'
<1> SUFFICES ASSUME LineInv, [Next]_vars PROVE LineInv'
  OBVIOUS
<1>1. InHandInv'
  BY NextInHand DEF LineInv
<1>2. LinedUp(session') /\ LinedUp(disk')
  BY CommandInLine DEF InLine
<1>3. LinedUp(session)' /\ LinedUp(disk)'
  BY <1>2 DEF LinedUp, Unplanned, Split, WithoutMilestones, InMilestone, Active, ActiveStatus, StatusOf
<1>4. QED
  BY <1>1, <1>3 DEF LineInv

LEMMA SpecInLine ==
  ASSUME OnlyLoopCommands, OneByOne
  PROVE  Spec => []LineInv
<1>1. Init => LineInv
  BY InitInHand, InitialOrdered, UnplannedSplit, InitSafe, SafeMeans DEF Init, LineInv
<1>2. QED
  BY <1>1, NextInLine, PTL DEF Spec

-----------------------------------------------------------------------------
(* What the invariant says of a run on a template's plan. *)

\* MilestoneFrontier always holds: review, advance and create close the milestones in
\* their order, in memory and in the files.
THEOREM FrontierAlwaysHolds ==
  ASSUME OnlyLoopCommands, OneByOne
  PROVE  Spec => []MilestoneFrontier
<1>1. ASSUME NEW s, LinedUp(s), NEW m \in Milestones(s)
      PROVE  LET active == s.taskState.activeMilestoneId
             IN  /\ m < active => s.taskState.milestones[m] = "done"
                 /\ m > active => s.taskState.milestones[m] = "todo"
                 /\ m = active => s.taskState.milestones[m] \in {"in_progress", "done"}
  <2>1. m \in MilestoneIds /\ s.taskState.milestones[m] # "absent"
    BY DEF Milestones
  <2>2. InMilestone(s)
    BY <1>1, <2>1 DEF LinedUp, Unplanned, Split, WithoutMilestones
  <2>3. QED
    BY <2>1, <2>2 DEF InMilestone
<1>2. LineInv => MilestoneFrontier
  BY <1>1 DEF LineInv, MilestoneFrontier
<1>3. QED
  BY <1>2, SpecInLine, PTL

\* NothingLeftBehind always holds: review completes a long-running run with the last
\* milestone only, when everything before it is done.
THEOREM NothingIsLeftBehind ==
  ASSUME OnlyLoopCommands, OneByOne
  PROVE  Spec => []NothingLeftBehind
<1>1. LineInv => NothingLeftBehind
  <2> SUFFICES ASSUME LineInv, session.state.phase = "completed", session.state.currentFlow = "milestone"
               PROVE  /\ \A t \in TaskIds : session.taskState.tasks[t] = "done"
                      /\ \A m \in MilestoneIds : session.taskState.milestones[m] = "done"
    BY DEF NothingLeftBehind
  <2> DEFINE a == Active(session)
  <2>1. session \in Session /\ Ordered(session) /\ Split(session) /\ InMilestone(session)
    BY LineMeans DEF LinedUp, Unplanned, Split, WithoutMilestones
  <2>2. a \in TaskIds /\ ActiveStatus(session) = session.taskState.tasks[a]
        /\ ActiveStatus(session) \in TaskStatuses \ {"absent"}
    BY <2>1, SplitMeans DEF Session, TaskState
  <2>3. ActiveStatus(session) = "done"
    BY <2>1, <2>2 DEF Ordered, PhaseFits, PassedReview, TaskStatuses
  <2>4. a = NumTasks /\ session.taskState.milestones[a] = "done" /\ session.taskState.tasks[a] = "done"
    BY <2>1, <2>2, <2>3 DEF InMilestone
  <2>5. \A t \in TaskIds : t < a \/ t = a
    BY <2>4, PlanShape DEF TaskIds
  <2>6. MilestoneIds = TaskIds
    BY DEF OneByOne, MilestoneIds, TaskIds
  <2>7. QED
    BY <2>1, <2>4, <2>5, <2>6 DEF Split, InMilestone
<1>2. QED
  BY <1>1, SpecInLine, PTL

\* A blocker of the run is that of its active task: with milestones that depend on
\* earlier ones only, no run waits for a milestone.
LEMMA BlockerIsTheTasks ==
  ASSUME OneByOne, NEW s \in Session, Ordered(s), LinedUp(s), s.state.blocker # "none"
  PROVE  /\ Split(s) /\ s.taskState.tasks[Active(s)] = "blocked"
         /\ s.taskState.taskBlockers[Active(s)] = s.state.blocker
<1>1. ~Waits(s)
  <2> SUFFICES ASSUME Waits(s) PROVE FALSE
    OBVIOUS
  <2>1. Split(s) /\ ActiveStatus(s) = "done" /\ s.state.phase # "completed"
    BY DEF Waits, LinedUp, Unplanned
  <2>2. InMilestone(s) /\ NextMilestone(s, Active(s)) = Active(s) + 1
        /\ UnsatisfiedMilestoneDependencies(s, Active(s) + 1) = {}
    BY <2>1, DoneSplit
  <2>3. QED
    BY <2>2 DEF Waits, InMilestone
<1>2. ActiveStatus(s) = "blocked" /\ s.taskState.taskBlockers[Active(s)] = s.state.blocker
  BY <1>1 DEF Ordered, BlockerFits
<1>3. Split(s)
  BY <1>2 DEF LinedUp, Unplanned, ActiveStatus, StatusOf
<1>4. QED
  BY <1>2, <1>3, SplitMeans

\* BlockerIsListed always holds: what status shows as the run's blocker is that of the
\* task the pickup names, which getBlockedPayload lists.
THEOREM BlockerAlwaysListed ==
  ASSUME OnlyLoopCommands, OneByOne
  PROVE  Spec => []BlockerIsListed
<1>1. LineInv => BlockerIsListed
  <2> SUFFICES ASSUME LineInv, session.state.blocker # "none"
               PROVE  \E item \in BlockedItems(session) :
                        /\ item.taskId = PickupTarget(Status(session))
                        /\ item.blocker = session.state.blocker
    BY DEF BlockerIsListed
  <2> DEFINE a == Active(session)
             item == [taskId |-> a, blocker |-> session.taskState.taskBlockers[a],
                      recommendation |-> RecoveryRecommendation(session.taskState.taskRecoveryHints[a])]
             st == Status(session)
  <2>1. /\ Split(session) /\ session.taskState.tasks[a] = "blocked"
        /\ session.taskState.taskBlockers[a] = session.state.blocker
    BY LineMeans, BlockerIsTheTasks
  <2>2. a \in TaskIds /\ ActiveTask(session) = a
    BY <2>1 DEF Split, ActiveTask, OrElse, Active, TaskIds
  <2>3. item \in BlockedItems(session)
    BY <2>1, <2>2 DEF BlockedItems
  <2>4. st.blocker = session.state.blocker /\ st.activeTaskId = a
    BY <2>2 DEF Status
  <2> HIDE DEF st
  <2>5. PickupTarget(st) = a
    BY <2>4 DEF PickupTarget, PickupKind
  <2>6. item.taskId = a /\ item.blocker = session.state.blocker
    BY <2>1
  <2>7. QED
    BY <2>3, <2>5, <2>6 DEF st
<1>2. QED
  BY <1>1, SpecInLine, PTL

\* Every step keeps UnblockAdviceHelps: whenever getStatus says to use /unblock there is a
\* task to unblock, and it is that task's turn.
THEOREM UnblockAdviceAlwaysHelps ==
  ASSUME OnlyLoopCommands, OneByOne
  PROVE  Spec => UnblockAdviceHelps
<1> DEFINE Helps == UnblockCurrentTask /\ SuggestedNextAction(session) = "unblock" =>
                      /\ reply'.outcome = "ok"
                      /\ SuggestedNextAction(session') = "continue"
<1>1. LineInv => [Helps]_vars
  <2> SUFFICES ASSUME LineInv, UnblockCurrentTask, SuggestedNextAction(session) = "unblock"
               PROVE  reply'.outcome = "ok" /\ SuggestedNextAction(session') = "continue"
    OBVIOUS
  <2> DEFINE t == Active(session)
             r == TaskUnblocked(session, t)
  <2>1. session \in Session /\ Sound(session) /\ Ordered(session) /\ LinedUp(session)
    BY LineMeans
  <2>2. Split(session)
    <3> SUFFICES ASSUME Unplanned(session) PROVE FALSE
      BY <2>1 DEF LinedUp
    <3>1. session.state.blocker = "none"
      BY <2>1, BlockerIsTheTasks DEF Split, Unplanned, TaskIds, NoTask
    <3>2. StatusOf(session, ActiveTask(session)) = "absent" /\ session.state.phase = "idle"
      BY <2>1 DEF Sound, Agree, Unplanned, ActiveTask, OrElse, Active, StatusOf, NoTask
    <3>3. QED
      BY <3>1, <3>2 DEF SuggestedNextAction
  <2>3. t \in TaskIds /\ t # NoTask /\ t = session.taskState.activeTaskId
    BY <2>1, <2>2, SplitMeans DEF Active
  <2>4. session' = r /\ reply'.outcome = "ok"
    BY <2>3 DEF UnblockCurrentTask, OnActiveTask, Saved, Return, Replied
  <2>5. /\ OnlyTouches(session, r, t) /\ SamePlace(session, r)
        /\ r.taskState.tasks[t] = "todo" /\ r.state.phase = "paused" /\ r.state.blocker = "none"
        /\ r \in Session
    BY <2>1, <2>3, OverridesOrdered, OverridesSound DEF Sound
  <2> HIDE DEF r
  <2>6. Split(r) /\ Active(r) = t
    BY <2>1, <2>2, <2>5, TouchedSplit
  <2>7. UnsatisfiedDependencies(r, t) = {}
    BY <2>5, <2>6, TurnIsReady
  <2>8. ActiveTask(r) = t /\ StatusOf(r, t) = "todo"
    BY <2>3, <2>5, <2>6 DEF ActiveTask, OrElse, Active, StatusOf, NoTask
  <2>9. SuggestedNextAction(r) = "continue"
    BY <2>5, <2>7, <2>8 DEF SuggestedNextAction
  <2>10. QED
    BY <2>4, <2>9
<1>2. QED
  BY <1>1, SpecInLine, PTL DEF UnblockAdviceHelps

\* Every step keeps DoneStaysDone: nothing that continueTaskLoop, review or a restart does
\* takes up a task again that was accepted.
THEOREM DoneAlwaysStaysDone ==
  ASSUME OnlyLoopCommands, OneByOne
  PROVE  Spec => DoneStaysDone
<1> DEFINE Stays == \A t \in TaskIds :
                      /\ Continue \/ LoopStep \/ Review \/ (Create /\ session = disk)
                      /\ session.taskState.tasks[t] = "done"
                      => session'.taskState.tasks[t] = "done"
<1>1. LineInv => [Stays]_vars
  <2> SUFFICES ASSUME LineInv, NEW t \in TaskIds,
                      Continue \/ LoopStep \/ Review \/ (Create /\ session = disk),
                      session.taskState.tasks[t] = "done"
               PROVE  session'.taskState.tasks[t] = "done"
    OBVIOUS
  <2>1. CASE Continue \/ LoopStep \/ Review
    <3>1. Moves(t, "done")
      BY <2>1, ContinueInLine, ReviewInLine DEF Onward
    <3>2. QED
      BY <3>1 DEF Moves, Pending
  <2>2. CASE Create /\ session = disk
    BY <2>2, LineMeans, LoadedOrdered DEF Create, Saved, Return
  <2>3. QED
    BY <2>1, <2>2
<1>2. QED
  BY <1>1, SpecInLine, PTL DEF DoneStaysDone

\* The runtime implements TaskLifecycle: through failing workers, restarts, recoveries and
\* operator blocks, a task is done only after a check of its last work has passed.
THEOREM RuntimeImplementsLifecycle ==
  ASSUME OnlyLoopCommands, OneByOne
  PROVE  Spec => ImplementsLifecycle
<1>1. Init => Life!LifeInit
  BY DEF Init, Life!LifeInit, InitialSession, InitialTaskState
<1>2. LineInv /\ [Next]_vars => [Life!LifeNext]_Life!lifeVars
  BY CommandInLine DEF InLine, Lives, Life!LifeNext
<1>3. QED
  BY <1>1, <1>2, SpecInLine, PTL DEF Spec, ImplementsLifecycle, Life!LifeSpec
=============================================================================
