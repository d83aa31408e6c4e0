------------------------- MODULE SessionFilesProofs -------------------------
(***************************************************************************)
(* What survives a kill at any moment, proved for every plan shape, every  *)
(* set of commands and every loop budget.                                  *)
(*                                                                         *)
(* Between two writes of a persist the files are of different sessions,    *)
(* and a torn one reads as the initial one, so that nothing relates one to *)
(* the other: the pointers differ, the run may be paused without a phase   *)
(* to resume into.  What holds of each file for itself is enough for       *)
(* create, which makes the halves agree again and explains every blocked   *)
(* task.  Memory is then as in HarnessRuntimeProofs, except that a paused  *)
(* run resumes into any phase the runtime stores, or into none.            *)
(*                                                                         *)
(* The second half proves that whatever is at work is the active task.     *)
(* Both stand in the ledger, so that a torn or old run state cannot part   *)
(* them; that no command but /advance does takes one lemma for each        *)
(* method.                                                                 *)
(***************************************************************************)
EXTENDS SessionFiles, OverrideProofs

\* What each file holds of its own, whole or torn.
WholeRunState(r) ==
  /\ r \in RunState
  /\ r.phase # "cancelled"
  /\ r.lastVerificationPath => r.lastVerificationStatus # "none"

WholeLedger(l) ==
  /\ l \in TaskState
  /\ l.resumePhase \in ResumePhases
  /\ l.lastVerificationPath => l.lastVerificationStatus # "none"
  /\ \A t \in TaskIds : l.tasks[t] = "blocked" => l.taskBlockers[t] # "none"

FilesSafe ==
  /\ SafeIn(ResumePhases)
  /\ WholeRunState(runFile)
  /\ WholeLedger(ledgerFile)
  /\ writing \in {"none", "run_state", "ledger"}

\* A persist writes the two halves of a fit session.
LEMMA HalvesWhole ==
  ASSUME NEW s, Fit(ResumePhases, s)
  PROVE  WholeRunState(s.state) /\ WholeLedger(s.taskState)
  BY DEF Fit, Agree, Going, Explained, Reported, WholeRunState, WholeLedger, Session

\* A torn file.
LEMMA InitialWhole == WholeRunState(InitialRunState) /\ WholeLedger(InitialTaskState)
  BY InitialTypes, Resumption DEF WholeRunState, WholeLedger, InitialRunState, InitialTaskState

\* Whatever two files a new process finds.
LEMMA AnyHalvesFit ==
  ASSUME NEW r, WholeRunState(r), NEW l, WholeLedger(l)
  PROVE  Fit(ResumePhases, Loaded([state |-> r, taskState |-> l]))
<1> DEFINE found == [state |-> r, taskState |-> l]
<1>1. found.state = r /\ found.taskState = l /\ found \in Session
  BY DEF WholeRunState, WholeLedger, Session
<1> HIDE DEF found
<1>2. Going(ResumePhases, found) /\ Explained(found) /\ Reported(found)
  BY <1>1 DEF WholeRunState, WholeLedger, Going, Explained, Reported
<1>3. Halved(ResumePhases, found)
  BY <1>1, <1>2 DEF WholeLedger, Halved
<1>4. Fit(ResumePhases, Loaded(found))
  BY <1>1, <1>3, LoadedFit, Resumption
<1>5. QED
  BY <1>4 DEF found

LEMMA MemoryUnchanged == SafeIn(ResumePhases) /\ UNCHANGED vars => SafeIn(ResumePhases)'
  BY DEF vars, SafeIn, TypeOK, PointersAgree, BlockedIsExplained, ReportsAreWhole

LEMMA FilesInitSafe == FilesInit => FilesSafe
  BY InitSafeIn, InitialWhole, Resumption DEF FilesInit, FilesSafe

LEMMA FilesNextSafe == FilesSafe /\ [FilesNext]_fileVars => FilesSafe'
<1> SUFFICES ASSUME FilesSafe, [FilesNext]_fileVars PROVE FilesSafe'
  OBVIOUS
<1> USE DEF FilesSafe
<1>1. Fit(ResumePhases, session) /\ Fit(ResumePhases, disk) /\ evidence \subseteq TaskIds
  BY SafeInMeans, Resumption
<1>2. CASE Called
  <2>1. SafeIn(ResumePhases)'
    BY <1>2, CommandSafeIn, Resumption DEF Called
  <2>2. QED
    BY <1>2, <2>1 DEF Called
<1>3. CASE WriteRunState
  <2>1. WholeRunState(disk.state)
    BY <1>1, HalvesWhole
  <2>2. QED
    BY <1>3, <2>1, MemoryUnchanged DEF WriteRunState
<1>4. CASE WriteLedger
  <2>1. WholeLedger(disk.taskState)
    BY <1>1, HalvesWhole
  <2>2. QED
    BY <1>4, <2>1, MemoryUnchanged DEF WriteLedger
<1>5. CASE Restart
  <2>1. WholeRunState(runFile') /\ WholeLedger(ledgerFile')
    BY <1>5, InitialWhole DEF Restart, Survives
  <2>2. Fit(ResumePhases, Loaded([state |-> runFile', taskState |-> ledgerFile']))
    BY <2>1, AnyHalvesFit
  <2>3. Saved(Loaded([state |-> runFile', taskState |-> ledgerFile']))
        /\ evidence' \subseteq TaskIds
    BY <1>1, <1>5 DEF Restart
  <2>4. KeptIn(ResumePhases)
    BY <2>2, <2>3, SavedKept, Resumption
  <2>5. SafeIn(ResumePhases)'
    BY <1>5, <2>4, KeptMeans, LoopTypes, Resumption DEF Restart
  <2>6. QED
    BY <1>5, <2>1, <2>5 DEF Restart
<1>6. CASE UNCHANGED fileVars
  BY <1>6, MemoryUnchanged DEF fileVars
<1>7. QED
  BY <1>2, <1>3, <1>4, <1>5, <1>6 DEF FilesNext

LEMMA FilesSpecSafe == FilesSpec => []FilesSafe
  BY FilesInitSafe, FilesNextSafe, PTL DEF FilesSpec

\* Whatever is killed when, memory and both files hold values of their types: a new
\* process never loads a phase, a pointer or a status the runtime does not know.
THEOREM FilesTypeCorrect == FilesSpec => []FilesTypeOK
<1>1. FilesSafe => FilesTypeOK
  BY DEF FilesSafe, SafeIn, FilesTypeOK, WholeRunState, WholeLedger
<1>2. QED
  BY <1>1, FilesSpecSafe, PTL

\* reconcileSession makes the pointers of the run state and the ledger agree again,
\* however old or torn either file is.
THEOREM PointersAgreeAfterKills == FilesSpec => []PointersAgree
<1>1. FilesSafe => PointersAgree
  BY DEF FilesSafe, SafeIn
<1>2. QED
  BY <1>1, FilesSpecSafe, PTL

\* A blocked task keeps a blocker of its own through every kill: the status and the
\* blocker are in one file.
THEOREM BlockedExplainedAfterKills == FilesSpec => []BlockedIsExplained
<1>1. FilesSafe => BlockedIsExplained
  BY DEF FilesSafe, SafeIn
<1>2. QED
  BY <1>1, FilesSpecSafe, PTL

\* continueTaskLoop starts no task before its dependencies are done, also on a
\* session put together from two files of different age.
THEOREM DependenciesGateAfterKills == FilesSpec => DependencyGate
<1>1. FilesSafe => [Gate]_vars
  BY SafeInGates, Resumption DEF FilesSafe
<1>2. QED
  BY <1>1, FilesSpecSafe, PTL DEF DependencyGate, Gate

-----------------------------------------------------------------------------
(* Whatever is at work is the active task.  A method either stays with the    *)
(* active task, which it may start, judge or block, or leaves one that is     *)
(* not at work.  Only advanceMilestone on its own does otherwise.             *)

SameWork(s, r) == r.taskState.tasks = s.taskState.tasks /\ Active(r) = Active(s)

LEMMA SameWorkPlaced ==
  ASSUME NEW s, NEW r, SameWork(s, r), OneAtWork(s)
  PROVE  OneAtWork(r)
  BY DEF SameWork, OneAtWork

LEMMA TurnedPlaced ==
  ASSUME NEW s, NEW r, OneAtWork(s), OthersKept(s, r, Active(r)),
         Active(r) = Active(s) \/ ActiveStatus(s) \notin InWork
  PROVE  OneAtWork(r)
<1>1. CASE Active(r) = Active(s)
  BY <1>1 DEF OneAtWork, OthersKept
<1>2. CASE ActiveStatus(s) \notin InWork
  <2>1. \A t \in TaskIds : s.taskState.tasks[t] \notin InWork
    BY <1>2 DEF OneAtWork, ActiveStatus, StatusOf, TaskIds, NoTask
  <2>2. QED
    BY <2>1 DEF OneAtWork, OthersKept
<1>3. QED
  BY <1>1, <1>2

LEMMA NoTaskNoWork == \A s : Active(s) = NoTask => ActiveStatus(s) \notin InWork
  BY DEF ActiveStatus, StatusOf, InWork

LEMMA ClearedPlaced ==
  ASSUME NEW s \in Session
  PROVE  /\ OneAtWork(Cleared(s)) /\ OneAtWork(Reset(s))
         /\ Cleared(s).state.activeTaskId = NoTask /\ Active(Cleared(s)) = NoTask
<1>1. /\ Cleared(s).taskState.tasks = [t \in TaskIds |-> "absent"]
      /\ Reset(s).taskState.tasks = [t \in TaskIds |-> "absent"]
      /\ Cleared(s).state.activeTaskId = NoTask /\ Active(Cleared(s)) = NoTask
  BY DEF Cleared, Reset, InitialRunState, InitialTaskState, Active
<1>2. QED
  BY <1>1 DEF OneAtWork, InWork

LEMMA AssignmentsKeepWork ==
  ASSUME NEW s \in Session
  PROVE  /\ \A p : SameWork(s, InPhase(s, p)) /\ SameWork(s, ResumingInto(s, p))
         /\ \A p, q : SameWork(s, Entered(s, p, q))
         /\ \A f : SameWork(s, WithFlow(s, f))
         /\ \A g : SameWork(s, WithGoal(s, g))
         /\ \A b : SameWork(s, WithBlocker(s, b))
         /\ \A t, b : SameWork(s, WithTaskBlocker(s, t, b)) /\ SameWork(s, WithHint(s, t, b))
         /\ \A t : SameWork(s, WithOutput(s, t))
         /\ \A v, p : SameWork(s, WithReport(s, v, p))
         /\ \A m : SameWork(s, WithMilestone(s, m))
         /\ \A m, v : SameWork(s, WithMilestoneStatus(s, m, v))
         /\ \A h : SameWork(s, WithHandoff(s, h))
  BY DEF SameWork, Active, InPhase, ResumingInto, Entered, WithFlow, WithGoal, WithBlocker,
     WithTaskBlocker, WithHint, WithOutput, WithReport, WithMilestone, WithMilestoneStatus,
     WithHandoff, Session, RunState, TaskState

\* A new status for the active task.
LEMMA ActiveStatusPlaced ==
  ASSUME NEW s \in Session, NEW t \in TaskIds, t = Active(s), NEW v, OneAtWork(s)
  PROVE  OneAtWork(WithStatus(s, t, v)) /\ Active(WithStatus(s, t, v)) = t
<1>1. Active(WithStatus(s, t, v)) = t
  BY DEF WithStatus, Active, Session, TaskState
<1>2. QED
  BY <1>1, StatusAlone, TurnedPlaced

LEMMA MarkedPlaced ==
  ASSUME NEW s \in Session, NEW t \in TaskIds, t = Active(s), NEW v, NEW b, NEW h, OneAtWork(s)
  PROVE  OneAtWork(Marked(s, t, v, b, h))
<1>1. Active(Marked(s, t, v, b, h)) = t
  BY DEF Marked, WithStatus, WithBlocker, WithTaskBlocker, WithHint, Active, Session, RunState,
     TaskState
<1>2. OthersKept(s, Marked(s, t, v, b, h), t)
  <2>1. Marked(s, t, v, b, h).taskState.tasks = [s.taskState.tasks EXCEPT ![t] = v]
    BY MarkedAlone
  <2>2. QED
    BY <2>1 DEF OthersKept, Session, TaskState
<1>3. QED
  BY <1>1, <1>2, TurnedPlaced

\* The run turns to a task while none is at work.
LEMMA MovedPlaced ==
  ASSUME NEW s \in Session, NEW t, OneAtWork(s), ActiveStatus(s) \notin InWork
  PROVE  /\ OneAtWork(WithActiveTask(s, t)) /\ Active(WithActiveTask(s, t)) = t
         /\ WithActiveTask(s, t).taskState.tasks = s.taskState.tasks
<1>1. /\ Active(WithActiveTask(s, t)) = t
      /\ WithActiveTask(s, t).taskState.tasks = s.taskState.tasks
  BY DEF WithActiveTask, Active, Session, TaskState
<1>2. OthersKept(s, WithActiveTask(s, t), t)
  BY <1>1 DEF OthersKept
<1>3. QED
  BY <1>1, <1>2, TurnedPlaced

\* A task is named where there is none, and started.
LEMMA NamedAndStartedPlaced ==
  ASSUME NEW R \in Resumptions, NEW s \in Session, Fit(R, s), OneAtWork(s)
  PROVE  LET named == WithSomeTask(s)
             r == Started(named, named.state.activeTaskId)
         IN  /\ r \in Session /\ Fit(R, r) /\ OneAtWork(r)
             /\ r.state.activeTaskId = Active(r) /\ Active(r) \in TaskIds
<1> DEFINE named == WithSomeTask(s)
           t == named.state.activeTaskId
           r == Started(named, t)
<1>1. named \in Session /\ Fit(R, named) /\ t \in TaskIds
  BY WithSomeTaskFit DEF Fit
<1>2. t = Active(named)
  BY <1>1 DEF Fit, Agree, Active
<1>3. OneAtWork(named)
  <2>1. s.state.activeTaskId = Active(s)
    BY DEF Fit, Agree, Active
  <2>2. QED
    BY <2>1, MovedPlaced, NoTaskNoWork DEF WithSomeTask
<1> HIDE DEF named, t
<1>4. r \in Session /\ Fit(R, r)
  BY <1>1, StartedFit DEF Fit
<1>5. OneAtWork(r) /\ Active(r) = t
  BY <1>1, <1>2, <1>3, ActiveStatusPlaced DEF Started
<1> HIDE DEF r
<1>6. r.state.activeTaskId = Active(r)
  BY <1>4 DEF Fit, Agree, Active
<1>7. QED
  BY <1>1, <1>4, <1>5, <1>6 DEF r, t, named

\* What executeCurrentTask makes of the run before it awaits the worker.
LEMMA BegunPlaced ==
  ASSUME NEW R \in Resumptions, NEW s \in Session, Fit(R, s), OneAtWork(s)
  PROVE  LET r == ExecutionStarted(s)
         IN  OneAtWork(r) /\ r.state.activeTaskId = Active(r) /\ Active(r) \in TaskIds
<1> DEFINE opened == Reopened(s)
           routed == Routed(opened)
           phased == IF routed.state.phase \in {"planning", "paused"}
                     THEN InPhase(routed, "implementing") ELSE routed
           named == WithSomeTask(phased)
           started == Started(named, named.state.activeTaskId)
<1>1. opened \in Session /\ Fit(R, opened) /\ OneAtWork(opened)
  <2>1. OneAtWork(Cleared(s))
    BY ClearedPlaced
  <2>2. QED
    BY <2>1, ReopenedFit DEF Reopened, Fit
<1> HIDE DEF opened
<1>2. routed \in Session /\ Fit(R, routed) /\ OneAtWork(routed)
  BY <1>1, RoutedFit, AssignmentsKeepWork, SameWorkPlaced DEF Routed, Fit
<1> HIDE DEF routed
<1>3. phased \in Session /\ Fit(R, phased) /\ OneAtWork(phased)
  <2>1. InPhase(routed, "implementing") \in Session /\ Fit(R, InPhase(routed, "implementing"))
    BY <1>2, InPhaseFit, Values DEF Fit
  <2>2. OneAtWork(InPhase(routed, "implementing"))
    BY <1>2, AssignmentsKeepWork, SameWorkPlaced
  <2>3. QED
    BY <1>2, <2>1, <2>2
<1> HIDE DEF phased
<1>4. /\ started \in Session /\ Fit(R, started) /\ OneAtWork(started)
      /\ started.state.activeTaskId = Active(started) /\ Active(started) \in TaskIds
  BY <1>3, NamedAndStartedPlaced
<1> HIDE DEF named, started
<1>5. ExecutionStarted(s) = ResumingInto(started, "implementing")
  BY DEF ExecutionStarted, started, named, phased, routed, opened
<1>6. ResumingInto(started, "implementing").state = started.state
  BY <1>4 DEF ResumingInto, Session
<1>7. SameWork(started, ResumingInto(started, "implementing"))
  BY <1>4, AssignmentsKeepWork
<1>8. QED
  BY <1>4, <1>5, <1>6, <1>7, SameWorkPlaced DEF SameWork

LEMMA ExecutionEndedPlaced ==
  ASSUME NEW R \in Resumptions, NEW s \in Session, Fit(R, s), OneAtWork(s),
         NEW t \in TaskIds, t = Active(s), NEW satisfied \in BOOLEAN
  PROVE  OneAtWork(ExecutionEnded(s, t, satisfied))
<1> DEFINE cleared == Invalidated(s)
           output == WithOutput(cleared, t)
           noted == WithHint(output, t, "none")
           marked == Marked(noted, t, "blocked", "no_changes", "implementation_no_changes")
<1>1. cleared \in Session /\ Fit(R, cleared) /\ SameWork(s, cleared)
  BY InvalidatedFit, AssignmentsKeepWork DEF Invalidated, Fit
<1>2. output \in Session /\ Fit(R, output) /\ SameWork(cleared, output)
  BY <1>1, WithOutputFit, AssignmentsKeepWork DEF Fit
<1>3. noted \in Session /\ Fit(R, noted) /\ SameWork(output, noted)
  BY <1>2, WithHintFit, AssignmentsKeepWork, Values DEF Fit
<1> HIDE DEF cleared, output, noted
<1>4. OneAtWork(noted) /\ Active(noted) = t
  BY <1>1, <1>2, <1>3, SameWorkPlaced DEF SameWork
<1>5. marked \in Session /\ OneAtWork(marked)
  BY <1>3, <1>4, MarkedFit, MarkedPlaced, Values DEF Fit
<1> HIDE DEF marked
<1>6. OneAtWork(InPhase(marked, "paused"))
  BY <1>5, AssignmentsKeepWork, SameWorkPlaced
<1>7. QED
  BY <1>4, <1>6 DEF ExecutionEnded, marked, noted, output, cleared

\* verify, up to its checks.
LEMMA CheckedPlaced ==
  ASSUME NEW R \in Resumptions, NEW s \in Session, Fit(R, s), OneAtWork(s)
  PROVE  LET opened == VerificationStarted(s)
         IN  OneAtWork(opened) /\ OneAtWork(InPhase(opened, "verifying"))
<1> DEFINE opened == VerificationStarted(s)
           cleared == Cleared(s)
           named == WithSomeTask(cleared)
           started == Started(named, 1)
<1>1. opened \in Session
  BY VerificationStartedFit DEF Fit
<1>2. OneAtWork(opened)
  <2>1. CASE s.state.phase = "completed"
    <3>1. cleared \in Session /\ Fit(R, cleared)
      BY ClearedFit DEF Fit
    <3>2. OneAtWork(cleared) /\ cleared.state.activeTaskId = NoTask /\ Active(cleared) = NoTask
      BY ClearedPlaced
    <3> HIDE DEF cleared
    <3>3. named.state.activeTaskId = 1
      BY <3>1, <3>2 DEF WithSomeTask, WithActiveTask, Session, RunState
    <3>4. started \in Session /\ OneAtWork(started)
      BY <3>1, <3>2, <3>3, NamedAndStartedPlaced
    <3> HIDE DEF named, started
    <3>5. OneAtWork(InPhase(started, "implementing"))
      BY <3>4, AssignmentsKeepWork, SameWorkPlaced
    <3>6. QED
      BY <2>1, <3>5 DEF VerificationStarted, started, named, cleared
  <2>2. CASE s.state.phase # "completed"
    BY <2>2, AssignmentsKeepWork, SameWorkPlaced DEF VerificationStarted
  <2>3. QED
    BY <2>1, <2>2
<1> HIDE DEF opened
<1>3. OneAtWork(InPhase(opened, "verifying"))
  BY <1>1, <1>2, AssignmentsKeepWork, SameWorkPlaced
<1>4. QED
  BY <1>2, <1>3 DEF opened

\* The verdict goes to the active task.
LEMMA VerificationEndedPlaced ==
  ASSUME NEW R \in Resumptions, NEW s \in Session, Fit(R, s), OneAtWork(s), NEW failed
  PROVE  OneAtWork(VerificationEnded(s, failed))
<1> DEFINE t == s.taskState.activeTaskId
           status == VerificationStatus(s, failed)
           text == FailureText(failed)
           reported == WithReport(s, status, TRUE)
           accepted == WithHint(WithStatus(reported, t, "validated"), t, "none")
           rejected == Marked(reported, t, "blocked", text, RecoveryHint(s, failed))
           recorded == VerdictRecorded(s, failed)
<1>1. reported \in Session /\ OneAtWork(reported) /\ Active(reported) = t
  <2>1. status \in VerificationStatuses /\ status # "none"
    BY VerdictTypes, Values
  <2>2. SameWork(s, reported)
    BY AssignmentsKeepWork
  <2>3. QED
    BY <2>1, <2>2, WithReportFit, SameWorkPlaced DEF SameWork, Active, Fit
<1> HIDE DEF reported
<1>2. OneAtWork(WithBlocker(reported, text))
  BY <1>1, AssignmentsKeepWork, SameWorkPlaced
<1>3. ASSUME t # NoTask
      PROVE  OneAtWork(rejected) /\ OneAtWork(accepted) /\ OneAtWork(WithStatus(reported, t, "blocked"))
  <2>1. t \in TaskIds
    BY <1>3 DEF Session, TaskState
  <2>2. WithStatus(reported, t, "validated") \in Session
    BY <1>1, <2>1 DEF WithStatus, Session, TaskState, TaskStatuses
  <2> HIDE DEF t
  <2>3. QED
    BY <1>1, <2>1, <2>2, ActiveStatusPlaced, MarkedPlaced, AssignmentsKeepWork, SameWorkPlaced
<1>4. recorded =
        CASE t = NoTask -> IF failed # {} THEN WithBlocker(reported, text) ELSE reported
          [] t # NoTask /\ failed # {} -> rejected
          [] t # NoTask /\ failed = {} /\ status = "pass" -> accepted
          [] OTHER -> WithStatus(reported, t, "blocked")
  BY DEF VerdictRecorded, reported
<1> HIDE DEF t, status, text, accepted, rejected
<1>5. recorded \in Session /\ OneAtWork(recorded)
  BY <1>1, <1>2, <1>3, <1>4, VerdictRecordedFit
<1> HIDE DEF recorded
<1>6. QED
  BY <1>5, AssignmentsKeepWork, SameWorkPlaced DEF VerificationEnded, recorded

\* review closes the active task, or none.
LEMMA ReviewedPlaced ==
  ASSUME NEW s \in Session, OneAtWork(s)
  PROVE  OneAtWork(Reviewed(s))
<1> DEFINE t == s.taskState.activeTaskId
           m == s.taskState.activeMilestoneId
           accepted == IF t = NoTask THEN s ELSE WithStatus(s, t, "done")
           finished == Entered(accepted, "completed", "none")
           waiting == Entered(accepted, "paused", "planning")
<1>1. accepted \in Session /\ OneAtWork(accepted)
  BY ActiveStatusPlaced DEF Active, WithStatus, Session, TaskState, TaskStatuses
<1> HIDE DEF accepted
<1>2. /\ finished \in Session /\ OneAtWork(finished)
      /\ waiting \in Session /\ OneAtWork(waiting)
  <2>1. finished \in Session /\ waiting \in Session
    BY <1>1, Values DEF Entered, Session, RunState, TaskState
  <2>2. QED
    BY <1>1, <2>1, AssignmentsKeepWork, SameWorkPlaced
<1> HIDE DEF finished, waiting
<1>3. /\ OneAtWork(WithMilestoneStatus(waiting, m, "done"))
      /\ OneAtWork(WithMilestoneStatus(finished, m, "done"))
  BY <1>2, AssignmentsKeepWork, SameWorkPlaced
<1>4. Reviewed(s) =
        IF ~PassedReview(s) THEN s
        ELSE IF s.state.currentFlow # "milestone" \/ m = NoMilestone THEN finished
        ELSE WithMilestoneStatus(IF HasNextMilestone(s, m) THEN waiting ELSE finished, m, "done")
  BY DEF Reviewed, finished, waiting, accepted
<1> HIDE DEF m
<1>5. QED
  BY <1>2, <1>3, <1>4

\* Advancing from a task that is not at work.  It turns to a task that it makes todo,
\* or does not go on.
LEMMA AdvancedPlaced ==
  ASSUME NEW R \in Resumptions, NEW s \in Session, Fit(R, s), OneAtWork(s), CanAdvance(s),
         ActiveStatus(s) \notin InWork
  PROVE  /\ OneAtWork(Advanced(s))
         /\ Advanced(s).state.phase = "planning" =>
              Active(Advanced(s)) \in TaskIds /\ ActiveStatus(Advanced(s)) = "todo"
<1> DEFINE m == s.taskState.activeMilestoneId
           closed == WithMilestoneStatus(s, m, "done")
           next == NextMilestone(s, m)
           task == OrElse(FirstReadyTaskForMilestone(closed, next), FallbackTask(m))
<1>1. m \in MilestoneIds
  BY DEF CanAdvance, Milestones
<1>2. closed \in Session /\ Fit(R, closed) /\ SameWork(s, closed)
  BY <1>1, WithMilestoneStatusFit, AssignmentsKeepWork, Values DEF Fit
<1> HIDE DEF closed
<1>3. OneAtWork(closed) /\ ActiveStatus(closed) \notin InWork
  BY <1>2, SameWorkPlaced DEF SameWork, ActiveStatus, StatusOf
<1>4. OneAtWork(Concluded(closed, m))
  <2> DEFINE left == WithActiveTask(closed, NoTask)
  <2>1. left \in Session /\ OneAtWork(left)
    BY <1>2, <1>3, WithActiveTaskFit, MovedPlaced DEF Fit
  <2> HIDE DEF left
  <2>2. WithMilestone(left, m) \in Session /\ OneAtWork(WithMilestone(left, m))
    <3>1. WithMilestone(left, m) \in Session
      BY <1>1, <2>1 DEF WithMilestone, Session, RunState, TaskState
    <3>2. QED
      BY <2>1, <3>1, AssignmentsKeepWork, SameWorkPlaced
  <2>3. QED
    BY <2>2, AssignmentsKeepWork, SameWorkPlaced DEF Concluded, left
<1>5. OneAtWork(WaitingForMilestone(closed))
  <2>1. Entered(closed, "paused", "planning") \in Session
    BY <1>2, Values DEF Entered, Session, RunState, TaskState
  <2>2. QED
    BY <1>2, <1>3, <2>1, AssignmentsKeepWork, SameWorkPlaced DEF WaitingForMilestone
<1>6. ASSUME next # NoMilestone
      PROVE  LET r == Activated(closed, next, task)
             IN  OneAtWork(r) /\ Active(r) \in TaskIds /\ ActiveStatus(r) = "todo"
  <2>1. next \in MilestoneIds /\ FallbackTask(m) \in TaskIds
    BY <1>1, <1>6, FallbackTaskType
  <2>2. FirstReadyTaskForMilestone(closed, next) \in TaskIds \cup {0}
    BY FirstOfType DEF FirstReadyTaskForMilestone, Ready
  <2>3. task \in TaskIds
    BY <2>1, <2>2 DEF OrElse
  <2> HIDE DEF task, next
  <2>4. /\ Activated(closed, next, task).taskState.tasks =
             [closed.taskState.tasks EXCEPT ![task] = "todo"]
        /\ Active(Activated(closed, next, task)) = task
    BY <1>2, <2>1, <2>3, ActivatedAlone, ActivatedFit DEF Active
  <2>5. OthersKept(closed, Activated(closed, next, task), task)
    BY <1>2, <2>3, <2>4 DEF OthersKept, Session, TaskState
  <2>6. ActiveStatus(Activated(closed, next, task)) = "todo"
    <3>1. task # NoTask /\ closed.taskState.tasks \in [TaskIds -> TaskStatuses]
      BY <1>2, <2>3 DEF TaskIds, NoTask, Session, TaskState
    <3>2. QED
      BY <2>3, <2>4, <3>1 DEF ActiveStatus, StatusOf
  <2>7. QED
    BY <1>3, <2>3, <2>4, <2>5, <2>6, TurnedPlaced
<1>7. Concluded(closed, m).state.phase = "completed"
      /\ WaitingForMilestone(closed).state.phase = "paused"
  BY <1>2 DEF Concluded, WithMilestone, WithActiveTask, InPhase, WaitingForMilestone, WithBlocker,
     Entered, Session, RunState
<1>8. \/ Advanced(s) = Concluded(closed, m)
      \/ Advanced(s) = WaitingForMilestone(closed)
      \/ next # NoMilestone /\ Advanced(s) = Activated(closed, next, task)
  BY DEF Advanced, closed
<1> HIDE DEF next, task
<1>9. QED
  BY <1>4, <1>5, <1>6, <1>7, <1>8

\* A new mark for the active task, and the phase that goes with it.
LEMMA MarkedEnteredPlaced ==
  ASSUME NEW s \in Session, NEW t \in TaskIds, t = Active(s), NEW v \in TaskStatuses,
         NEW b \in Blockers, NEW h \in Hints, NEW p \in Phases, NEW q \in Phases, OneAtWork(s)
  PROVE  LET r == Entered(Marked(s, t, v, b, h), p, q)
         IN  /\ OneAtWork(r) /\ Active(r) = t
             /\ r.taskState.tasks = [s.taskState.tasks EXCEPT ![t] = v]
<1> DEFINE marked == Marked(s, t, v, b, h)
<1>1. marked \in Session /\ Active(marked) = t
  BY DEF Marked, WithStatus, WithBlocker, WithTaskBlocker, WithHint, Active, Session, RunState,
     TaskState
<1>2. OneAtWork(marked) /\ marked.taskState.tasks = [s.taskState.tasks EXCEPT ![t] = v]
  BY MarkedPlaced, MarkedAlone
<1> HIDE DEF marked
<1>3. SameWork(marked, Entered(marked, p, q))
  BY <1>1, AssignmentsKeepWork
<1>4. OneAtWork(Entered(marked, p, q))
  BY <1>2, <1>3, SameWorkPlaced
<1>5. QED
  BY <1>1, <1>2, <1>3, <1>4 DEF SameWork, marked

LEMMA OverridesPlaced ==
  ASSUME NEW s \in Session, NEW t \in TaskIds, t = Active(s), OneAtWork(s)
  PROVE  /\ OneAtWork(TaskDone(s, t))
         /\ OneAtWork(TaskBlocked(s, t))
         /\ OneAtWork(TaskUnblocked(s, t))
         /\ OneAtWork(AutoRecovered(s, t)) /\ Active(AutoRecovered(s, t)) = t
         /\ AutoRecovered(s, t).taskState.tasks = [s.taskState.tasks EXCEPT ![t] = "todo"]
<1>1. OneAtWork(TaskBlocked(s, t)) /\ OneAtWork(TaskUnblocked(s, t))
  BY MarkedEnteredPlaced, Values DEF TaskBlocked, TaskUnblocked
<1>2. OneAtWork(TaskDone(s, t))
  <2>1. WithStatus(s, t, "done") \in Session /\ OneAtWork(WithStatus(s, t, "done"))
    BY ActiveStatusPlaced DEF WithStatus, Session, TaskState, TaskStatuses
  <2>2. QED
    BY <2>1, AssignmentsKeepWork, SameWorkPlaced DEF TaskDone
<1>3. /\ OneAtWork(AutoRecovered(s, t)) /\ Active(AutoRecovered(s, t)) = t
      /\ AutoRecovered(s, t).taskState.tasks = [s.taskState.tasks EXCEPT ![t] = "todo"]
  <2> DEFINE r == Entered(Marked(s, t, "todo", "none", "none"), "planning", "implementing")
  <2>1. /\ "todo" \in TaskStatuses /\ "none" \in Blockers /\ "none" \in Hints
        /\ "planning" \in Phases /\ "implementing" \in Phases
    BY Values
  <2>2. /\ OneAtWork(r) /\ Active(r) = t
        /\ r.taskState.tasks = [s.taskState.tasks EXCEPT ![t] = "todo"]
    BY <2>1, MarkedEnteredPlaced
  <2>3. AutoRecovered(s, t) = r
    BY DEF AutoRecovered
  <2> HIDE DEF r
  <2>4. QED
    BY <2>2, <2>3
<1>4. QED
  BY <1>1, <1>2, <1>3

LEMMA ResumedPlaced ==
  ASSUME NEW s \in Session, OneAtWork(s)
  PROVE  OneAtWork(Resumed(s))
<1>1. SameWork(s, Resumed(s))
  BY DEF Resumed, WithBlocker, Entered, SameWork, Active, Session, TaskState
<1>2. QED
  BY <1>1, SameWorkPlaced

\* Every task of a new plan is todo.
LEMMA PlannedPlaced ==
  ASSUME NEW R \in Resumptions, NEW s \in Session, Fit(R, s), NEW goal, NEW longRunning
  PROVE  OneAtWork(Planned(s, goal, longRunning))
<1>1. Cleared(s) \in Session
  BY ClearedFit DEF Fit
<1>2. Planned(s, goal, longRunning).taskState.tasks = [t \in TaskIds |-> "todo"]
  BY <1>1 DEF Planned, Session, TaskState
<1>3. QED
  BY <1>2 DEF OneAtWork, InWork

LEMMA WorkerValidatorEnteredPlaced ==
  ASSUME NEW R \in Resumptions, NEW s \in Session, Fit(R, s), OneAtWork(s)
  PROVE  OneAtWork(WorkerValidatorEntered(s))
<1> DEFINE routed == WithFlow(s, "worker_validator")
           phased == IF routed.state.phase = "idle" THEN InPhase(routed, "planning") ELSE routed
           chosen == WithSomeTask(phased)
           t == chosen.state.activeTaskId
           started == Started(chosen, t)
           resuming == ResumingInto(started, "implementing")
           cleared == Invalidated(resuming)
<1>1. routed \in Session /\ Fit(R, routed) /\ OneAtWork(routed)
  BY WithFlowFit, AssignmentsKeepWork, SameWorkPlaced, Values DEF Fit
<1> HIDE DEF routed
<1>2. phased \in Session /\ Fit(R, phased) /\ OneAtWork(phased)
  <2>1. OneAtWork(InPhase(routed, "planning"))
    BY <1>1, AssignmentsKeepWork, SameWorkPlaced
  <2>2. QED
    BY <1>1, <2>1, InPhaseFit, Values DEF Fit
<1> HIDE DEF phased
<1>3. started \in Session /\ Fit(R, started) /\ OneAtWork(started)
  BY <1>2, NamedAndStartedPlaced
<1>4. WorkerValidatorEntered(s) = WithOutput(cleared, t)
  BY DEF WorkerValidatorEntered, cleared, resuming, started, t, chosen, phased, routed
<1> HIDE DEF started, chosen, t
<1>5. resuming \in Session /\ OneAtWork(resuming)
  BY <1>3, ResumingIntoFit, AssignmentsKeepWork, SameWorkPlaced DEF Fit
<1> HIDE DEF resuming
<1>6. cleared \in Session /\ OneAtWork(cleared)
  <2>1. cleared \in Session
    BY <1>5, Values DEF Invalidated, WithReport, Session, RunState, TaskState
  <2>2. QED
    BY <1>5, <2>1, AssignmentsKeepWork, SameWorkPlaced DEF Invalidated
<1> HIDE DEF cleared
<1>7. QED
  BY <1>4, <1>6, AssignmentsKeepWork, SameWorkPlaced

-----------------------------------------------------------------------------
(* The calls, and the parts of continueTaskLoop. *)

Placed == OneAtWork(session') /\ OneAtWork(disk')

LEMMA SavedPlaced == \A s : OneAtWork(s) /\ Saved(s) => Placed
  BY DEF Saved, Return, Placed

LEMMA UnsavedPlaced ==
  \A s, d, o : OneAtWork(s) /\ OneAtWork(d) /\ Unsaved(s, d, o) => Placed
  BY DEF Unsaved, Return, Placed

LEMMA ExecutePlaced ==
  ASSUME NEW R \in Resumptions, NEW s, Fit(R, s), OneAtWork(s), NEW d, OneAtWork(d), Execute(s, d)
  PROVE  Placed
<1> DEFINE begun == ExecutionStarted(s)
           t == begun.state.activeTaskId
<1>1. begun \in Session /\ Fit(R, begun)
  BY ExecutionStartedFit DEF Fit
<1>2. OneAtWork(begun) /\ t = Active(begun) /\ t \in TaskIds
  BY BegunPlaced DEF Fit
<1>3. \/ \E satisfied \in BOOLEAN : /\ session' = ExecutionEnded(begun, t, satisfied)
                                    /\ disk' = ExecutionEnded(begun, t, satisfied)
      \/ session' = begun /\ disk' = d
  BY DEF Execute, Return
<1> HIDE DEF begun, t
<1>4. QED
  BY <1>1, <1>2, <1>3, ExecutionEndedPlaced DEF Placed

LEMMA VerifyPlaced ==
  ASSUME NEW R \in Resumptions, NEW s, Fit(R, s), OneAtWork(s), NEW d, OneAtWork(d), Verify(s, d)
  PROVE  Placed
<1> DEFINE opened == VerificationStarted(s)
           checked == InPhase(opened, "verifying")
<1>1. s \in Session /\ opened \in Session /\ Fit(R, opened)
  BY VerificationStartedFit DEF Fit
<1>2. OneAtWork(opened) /\ OneAtWork(checked)
  BY <1>1, CheckedPlaced
<1>3. checked \in Session /\ Fit(R, checked)
  BY <1>1, InPhaseFit, Values DEF Fit
<1>4. \/ session' \in {opened, checked} /\ disk' = d
      \/ \E failed : Saved(VerificationEnded(checked, failed))
  BY DEF Verify, Unsaved, Return
<1> HIDE DEF opened, checked
<1>5. QED
  BY <1>2, <1>3, <1>4, VerificationEndedPlaced, SavedPlaced DEF Placed

LEMMA StartTaskPlaced ==
  ASSUME NEW R \in Resumptions, NEW s, Fit(R, s), OneAtWork(s), NEW d, OneAtWork(d),
         Active(s) \in TaskIds, ActiveStatus(s) = "todo", StartTask(s, d)
  PROVE  Placed
<1> DEFINE t == s.taskState.activeTaskId
           begun == Started(s, t)
           moved == WithActiveTask(s, t)
<1>1. s \in Session /\ t \in TaskIds /\ t = Active(s)
  BY DEF Fit, Active
<1>2. CASE Saved(PausedOn(s, t))
  <2>1. moved \in Session /\ OneAtWork(moved)
    BY <1>1, WithActiveTaskFit, MovedPlaced DEF InWork, Fit
  <2> HIDE DEF moved
  <2>2. OneAtWork(PausedOn(s, t))
    BY <2>1, AssignmentsKeepWork, SameWorkPlaced DEF PausedOn, moved
  <2>3. QED
    BY <1>2, <2>2, SavedPlaced
<1>3. CASE Verify(begun, begun)
  <2>1. Fit(R, begun) /\ OneAtWork(begun)
    BY <1>1, StartedFit, ActiveStatusPlaced DEF Started
  <2> HIDE DEF begun
  <2>2. QED
    BY <1>3, <2>1, VerifyPlaced
<1>4. CASE Execute(s, d)
  BY <1>4, ExecutePlaced
<1>5. QED
  BY <1>2, <1>3, <1>4 DEF StartTask

LEMMA LeaveTaskPlaced ==
  ASSUME NEW R \in Resumptions, NEW s, Fit(R, s), OneAtWork(s), NEW d, OneAtWork(d),
         ActiveStatus(s) = "done", LeaveTask(s, d)
  PROVE  Placed
<1> DEFINE next == NextTodoTask(s, s.taskState.activeTaskId)
           pending == NextPendingTask(s, s.taskState.activeTaskId)
           advanced == Advanced(s)
<1>1. s \in Session /\ ActiveStatus(s) \notin InWork
  BY DEF Fit, InWork
<1>2. \A t \in TaskIds : /\ OneAtWork(InPhase(WithActiveTask(s, t), "planning"))
                         /\ OneAtWork(PausedOn(s, t))
  <2> TAKE t \in TaskIds
  <2> DEFINE moved == WithActiveTask(s, t)
  <2>1. moved \in Session /\ OneAtWork(moved)
    BY <1>1, WithActiveTaskFit, MovedPlaced DEF Fit
  <2> HIDE DEF moved
  <2>2. QED
    BY <2>1, AssignmentsKeepWork, SameWorkPlaced DEF PausedOn, moved
<1>3. next \in TaskIds \cup {NoTask} /\ pending \in TaskIds \cup {NoTask}
  BY NextTaskTypes
<1>4. ASSUME CanAdvance(s)
      PROVE  /\ advanced \in Session /\ Fit(R, advanced) /\ OneAtWork(advanced)
             /\ advanced.state.phase = "planning" =>
                  Active(advanced) \in TaskIds /\ ActiveStatus(advanced) = "todo"
  BY <1>1, <1>4, AdvancedFit, AdvancedPlaced DEF Fit
<1> HIDE DEF next, pending, advanced
<1>5. CASE /\ next # NoTask
           /\ Saved(InPhase(WithActiveTask(s, next), "planning"))
  BY <1>2, <1>3, <1>5, SavedPlaced
<1>6. CASE pending # NoTask /\ Saved(PausedOn(s, pending))
  BY <1>2, <1>3, <1>6, SavedPlaced
<1>7. CASE \E o : Unsaved(s, d, o)
  BY <1>7, UnsavedPlaced
<1>8. CASE CanAdvance(s) /\ Saved(advanced)
  BY <1>4, <1>8, SavedPlaced
<1>9. CASE CanAdvance(s) /\ advanced.state.phase = "planning" /\ StartTask(advanced, advanced)
  BY <1>4, <1>9, StartTaskPlaced
<1>10. QED
  BY <1>5, <1>6, <1>7, <1>8, <1>9 DEF LeaveTask, next, pending, advanced

LEMMA RunTaskPlaced ==
  ASSUME NEW R \in Resumptions, NEW s, Fit(R, s), OneAtWork(s), NEW d, OneAtWork(d), RunTask(s, d)
  PROVE  Placed
<1> DEFINE t == s.taskState.activeTaskId
           requeued == AutoRecovered(s, t)
<1>1. s \in Session /\ t \in TaskIds \cup {NoTask} /\ t = Active(s)
      /\ StatusOf(s, t) = ActiveStatus(s)
  BY DEF Fit, Session, TaskState, Active, ActiveStatus
<1>2. CASE ActiveStatus(s) = "todo" /\ StartTask(s, d)
  <2>1. Active(s) \in TaskIds
    BY <1>1, <1>2 DEF StatusOf
  <2>2. QED
    BY <1>2, <2>1, StartTaskPlaced
<1>3. CASE Verify(s, d)
  BY <1>3, VerifyPlaced
<1>4. CASE Saved(Reviewed(s))
  BY <1>1, <1>4, ReviewedPlaced, SavedPlaced
<1>5. CASE ActiveStatus(s) = "done" /\ LeaveTask(s, d)
  BY <1>5, LeaveTaskPlaced
<1>6. CASE ActiveStatus(s) = "blocked" /\ StartTask(requeued, requeued)
  <2>1. t \in TaskIds
    BY <1>1, <1>6 DEF StatusOf
  <2> HIDE DEF t
  <2>2. Fit(R, requeued)
    BY <1>1, <2>1, OverridesFit
  <2>3. /\ OneAtWork(requeued) /\ Active(requeued) = t
        /\ requeued.taskState.tasks = [s.taskState.tasks EXCEPT ![t] = "todo"]
    BY <1>1, <2>1, OverridesPlaced
  <2> HIDE DEF requeued
  <2>4. ActiveStatus(requeued) = "todo"
    <3>1. t # NoTask /\ s.taskState.tasks \in [TaskIds -> TaskStatuses]
      BY <1>1, <2>1 DEF TaskIds, NoTask, Session, TaskState
    <3>2. QED
      BY <2>1, <2>3, <3>1 DEF ActiveStatus, StatusOf
  <2>5. QED
    BY <1>6, <2>1, <2>2, <2>3, <2>4, StartTaskPlaced
<1>7. CASE Unsaved(s, d, "refused")
  BY <1>7, UnsavedPlaced
<1>8. QED
  BY <1>1, <1>2, <1>3, <1>4, <1>5, <1>6, <1>7 DEF RunTask

LEMMA PickTaskPlaced ==
  ASSUME NEW R \in Resumptions, NEW s, Fit(R, s), OneAtWork(s), NEW d, OneAtWork(d), PickTask(s, d)
  PROVE  Placed
<1> DEFINE first == FirstReadyTask(s)
           moved == WithActiveTask(s, first)
           picked == InPhase(moved, "planning")
<1>1. CASE s.taskState.activeTaskId = NoTask /\ first # NoTask /\ RunTask(picked, picked)
  <2>1. s \in Session /\ first \in TaskIds
    BY <1>1, NextTaskTypes DEF Fit
  <2>2. Fit(R, picked) /\ moved \in Session
    BY <2>1, PickedFit, WithActiveTaskFit DEF Fit
  <2>3. OneAtWork(moved)
    BY <1>1, <2>1, MovedPlaced, NoTaskNoWork DEF Active
  <2> HIDE DEF moved
  <2>4. OneAtWork(picked)
    BY <2>2, <2>3, AssignmentsKeepWork, SameWorkPlaced
  <2> HIDE DEF picked
  <2>5. QED
    BY <1>1, <2>2, <2>4, RunTaskPlaced
<1>2. CASE RunTask(s, d)
  BY <1>2, RunTaskPlaced
<1>3. QED
  BY <1>1, <1>2 DEF PickTask

LEMMA ContinueTaskLoopPlaced ==
  ASSUME NEW R \in Resumptions, NEW s, Fit(R, s), OneAtWork(s), NEW d, OneAtWork(d),
         ContinueTaskLoop(s, d)
  PROVE  Placed
<1> DEFINE resumed == Resumed(PointersFromLedger(s))
<1>1. PointersFromLedger(s) = s /\ s \in Session
  BY PointersAlready DEF Fit
<1>2. CASE Unsaved(s, d, "refused")
  BY <1>2, UnsavedPlaced
<1>3. CASE s.state.phase = "paused" /\ PickTask(resumed, resumed)
  <2>1. Fit(R, Resumed(s)) /\ OneAtWork(Resumed(s))
    BY <1>1, <1>3, ResumedFit, ResumedPlaced
  <2>2. QED
    BY <1>1, <1>3, <2>1, PickTaskPlaced
<1>4. CASE PickTask(s, d)
  BY <1>4, PickTaskPlaced
<1>5. QED
  BY <1>1, <1>2, <1>3, <1>4 DEF ContinueTaskLoop

-----------------------------------------------------------------------------
(* The commands. *)

LEMMA OverridePlaced ==
  ASSUME NEW R \in Resumptions, SafeIn(R), OneAtWork(session), OneAtWork(disk),
         CompleteCurrentTask \/ BlockCurrentTask \/ UnblockCurrentTask
  PROVE  Placed
<1> DEFINE t == session.taskState.activeTaskId
<1>1. session \in Session /\ t = Active(session) /\ t \in TaskIds \cup {NoTask}
  BY SafeInMeans DEF Active, Session, TaskState
<1>2. t # NoTask => /\ OneAtWork(TaskDone(session, t))
                    /\ OneAtWork(TaskBlocked(session, t))
                    /\ OneAtWork(TaskUnblocked(session, t))
  BY <1>1, OverridesPlaced
<1>3. \/ t # NoTask /\ \E s : /\ s \in {TaskDone(session, t), TaskBlocked(session, t),
                                          TaskUnblocked(session, t)}
                                /\ Saved(s)
      \/ Unsaved(session, disk, "refused")
  BY DEF CompleteCurrentTask, BlockCurrentTask, UnblockCurrentTask, OnActiveTask
<1>4. QED
  BY <1>2, <1>3, SavedPlaced, UnsavedPlaced

LEMMA HandleInputPlaced ==
  ASSUME NEW R \in Resumptions, SafeIn(R), OneAtWork(session), OneAtWork(disk), HandleInput
  PROVE  Placed
<1>1. PICK slash \in BOOLEAN, mode \in Modes, c \in Classifications, text \in Goals :
        LET opened == IF slash THEN Reopened(session) ELSE Cleared(session)
            flow == SelectedFlow(mode, c)
            phase == NextPhase(mode, c)
            routed == WithFlow(opened, flow)
            planned == Planned(routed, IF c.empty THEN EmptyRequest ELSE text, flow = "milestone")
            entered == WithGoal(InPhase(routed, phase),
                                IF c.empty THEN routed.state.goalSummary ELSE text)
        IN  \/ \E o \in {"refused", "invalid_transition"} : Unsaved(routed, disk, o)
            \/ Saved(IF flow = "worker_validator" THEN WithFlow(planned, flow) ELSE planned)
            \/ Saved(IF phase = "implementing" /\ entered.state.activeTaskId = NoTask
                     THEN Started(WithActiveTask(entered, 1), 1) ELSE entered)
  BY DEF HandleInput
<1> DEFINE opened == IF slash THEN Reopened(session) ELSE Cleared(session)
           flow == SelectedFlow(mode, c)
           phase == NextPhase(mode, c)
           routed == WithFlow(opened, flow)
           request == IF c.empty THEN EmptyRequest ELSE text
           planned == Planned(routed, request, flow = "milestone")
           goal == IF c.empty THEN routed.state.goalSummary ELSE text
           moved == InPhase(routed, phase)
           entered == WithGoal(moved, goal)
           named == WithSomeTask(entered)
           started == Started(named, named.state.activeTaskId)
<1>2. session \in Session /\ Fit(R, session)
  BY SafeInMeans
<1>3. flow \in Flows /\ phase \in Phases \ {"paused", "cancelled"}
  BY RouteTypes
<1>4. opened \in Session /\ Fit(R, opened) /\ OneAtWork(opened)
  BY <1>2, ReopenedFit, ClearedFit, ClearedPlaced DEF Fit, Reopened
<1> HIDE DEF opened, flow, phase
<1>5. routed \in Session /\ Fit(R, routed) /\ OneAtWork(routed)
  BY <1>3, <1>4, WithFlowFit, AssignmentsKeepWork, SameWorkPlaced DEF Fit
<1>6. request \in GoalSummaries /\ goal \in GoalSummaries
  BY <1>5, GoalTypes DEF Session, RunState
<1> HIDE DEF routed, request, goal
<1>7. planned \in Session /\ OneAtWork(planned)
  BY <1>5, <1>6, PlannedFit, PlannedPlaced DEF Fit
<1>8. OneAtWork(WithFlow(planned, flow))
  BY <1>7, AssignmentsKeepWork, SameWorkPlaced
<1>9. moved \in Session /\ Fit(R, moved) /\ OneAtWork(moved)
  BY <1>3, <1>5, InPhaseFit, AssignmentsKeepWork, SameWorkPlaced DEF Fit
<1> HIDE DEF moved
<1>10. entered \in Session /\ Fit(R, entered) /\ OneAtWork(entered)
  BY <1>6, <1>9, WithGoalFit, AssignmentsKeepWork, SameWorkPlaced DEF Fit
<1>11. OneAtWork(started)
  BY <1>10, NamedAndStartedPlaced
<1>12. entered.state.activeTaskId = NoTask => Started(WithActiveTask(entered, 1), 1) = started
  BY <1>10 DEF WithSomeTask, WithActiveTask, Session, RunState
<1> HIDE DEF planned, entered, named, started
<1>13. \/ \E o \in {"refused", "invalid_transition"} : Unsaved(routed, disk, o)
       \/ \E s \in {planned, WithFlow(planned, flow), entered} : Saved(s)
       \/ entered.state.activeTaskId = NoTask /\ Saved(Started(WithActiveTask(entered, 1), 1))
  BY <1>1 DEF opened, flow, phase, routed, request, goal, planned, moved, entered
<1>14. QED
  BY <1>5, <1>7, <1>8, <1>10, <1>11, <1>12, <1>13, SavedPlaced, UnsavedPlaced

\* Every command but /advance.
LEMMA CommandPlaced ==
  ASSUME NEW R \in Resumptions, SafeIn(R), OneAtWork(session), OneAtWork(disk),
         "advance" \notin Commands, Command
  PROVE  Placed
<1>1. session \in Session /\ Fit(R, session) /\ disk \in Session /\ Fit(R, disk)
  BY SafeInMeans
<1>2. CASE Plan \/ RunAuto
  <2>1. \A goal, longRunning : OneAtWork(Planned(session, goal, longRunning))
    BY <1>1, PlannedPlaced
  <2>2. \/ \E goal, longRunning : Saved(Planned(session, goal, longRunning))
        \/ Unsaved(session, disk, "refused")
        \/ UNCHANGED <<session, disk>>
    BY <1>2 DEF Plan, RunAuto
  <2>3. QED
    BY <2>1, <2>2, SavedPlaced, UnsavedPlaced DEF Placed
<1>3. CASE VerifyCommand
  BY <1>1, <1>3, VerifyPlaced DEF VerifyCommand
<1>4. CASE Review
  BY <1>1, <1>4, ReviewedPlaced, SavedPlaced DEF Review
<1>5. CASE AdvanceMilestone
  BY <1>5 DEF AdvanceMilestone, Issued
<1>6. CASE Continue \/ LoopStep
  BY <1>1, <1>6, ContinueTaskLoopPlaced DEF Continue, LoopStep
<1>7. CASE ExecuteCurrentTask
  BY <1>1, <1>7, ExecutePlaced DEF ExecuteCurrentTask
<1>8. CASE EnterWorkerValidator
  BY <1>1, <1>8, WorkerValidatorEnteredPlaced, SavedPlaced DEF EnterWorkerValidator
<1>9. CASE CompleteCurrentTask \/ BlockCurrentTask \/ UnblockCurrentTask
  BY <1>9, OverridePlaced
<1>10. CASE Resume
  BY <1>1, <1>10, ResumedPlaced, SavedPlaced, UnsavedPlaced DEF Resume
<1>11. CASE CreateHandoff \/ ClearHandoff
  <2>1. \A h : OneAtWork(WithHandoff(session, h))
    BY <1>1, AssignmentsKeepWork, SameWorkPlaced
  <2>2. \/ \E h : Saved(WithHandoff(session, h))
        \/ Unsaved(session, disk, "refused")
    BY <1>11 DEF CreateHandoff, ClearHandoff
  <2>3. QED
    BY <2>1, <2>2, SavedPlaced, UnsavedPlaced
<1>12. CASE ResetSession
  BY <1>1, <1>12, ClearedPlaced, SavedPlaced, UnsavedPlaced DEF ResetSession
<1>13. CASE HandleInput
  BY <1>13, HandleInputPlaced
<1>14. CASE RunCompletionLoop \/ LoopStop
  BY <1>14 DEF RunCompletionLoop, LoopStop, Placed
<1>15. QED
  BY <1>2, <1>3, <1>4, <1>5, <1>6, <1>7, <1>8, <1>9, <1>10, <1>11, <1>12, <1>13, <1>14
     DEF Command

-----------------------------------------------------------------------------
(* A new process.  Which task is at work and which is active stands in the    *)
(* ledger, that is in one file; the run state's task counts only when the     *)
(* ledger names none, and then none is at work.                               *)

LEMMA LoadedPlaced ==
  ASSUME NEW s \in Session, OneAtWork(s)
  PROVE  OneAtWork(Loaded(s))
<1> DEFINE t == ActiveTask(s)
           tag == IF t = NoTask THEN NoMilestone ELSE s.taskState.taskMilestones[t]
           m == OrElse(tag, OrElse(s.taskState.activeMilestoneId, s.state.activeMilestoneId))
           path == s.state.lastVerificationPath \/ s.taskState.lastVerificationPath
           recorded == IF s.state.lastVerificationStatus # "none"
                       THEN s.state.lastVerificationStatus ELSE s.taskState.lastVerificationStatus
           verdict == IF recorded = "none" /\ path THEN InferredVerdict(StatusOf(s, t)) ELSE recorded
           handoff == IF s.state.lastHandoffPath # NoHandoff
                      THEN s.state.lastHandoffPath ELSE s.taskState.lastHandoffPath
           agreed == Agreed(s, t, m, verdict, path, handoff)
           onTask == WithActiveTask(s, t)
           onMilestone == WithMilestone(onTask, m)
           reported == WithReport(onMilestone, verdict, path)
           At(r) == /\ r \in Session
                    /\ r.taskState.tasks = s.taskState.tasks /\ Active(r) = t
<1>1. At(agreed)
  <2>1. t \in TaskIds \cup {NoTask}
    BY DEF ActiveTask, OrElse, Session, TaskState, RunState, NoTask
  <2>2. m \in MilestoneIds \cup {NoMilestone}
    BY <2>1 DEF OrElse, Session, TaskState, RunState, NoMilestone
  <2>3. path \in BOOLEAN /\ verdict \in VerificationStatuses /\ handoff \in Handoffs
    BY Values DEF InferredVerdict, Session, TaskState, RunState
  <2> HIDE DEF t, m, path, verdict, handoff
  <2>4. At(onTask)
    BY <2>1 DEF WithActiveTask, Active, Session, RunState, TaskState
  <2> HIDE DEF onTask
  <2>5. At(onMilestone)
    BY <2>2, <2>4 DEF WithMilestone, Active, Session, RunState, TaskState
  <2> HIDE DEF onMilestone
  <2>6. At(reported)
    BY <2>3, <2>5 DEF WithReport, Active, Session, RunState, TaskState
  <2> HIDE DEF reported
  <2>7. At(WithHandoff(reported, handoff))
    BY <2>3, <2>6 DEF WithHandoff, Active, Session, RunState, TaskState
  <2>8. QED
    BY <2>7 DEF Agreed, reported, onMilestone, onTask
<1>2. Reconciled(s) = WithKnownBlocker(agreed, t)
  BY DEF Reconciled
<1>3. Active(s) # NoTask => t = Active(s)
  BY DEF ActiveTask, OrElse, Active, NoTask
<1> HIDE DEF t, agreed
<1>4. /\ Reconciled(s).taskState.tasks = s.taskState.tasks /\ Active(Reconciled(s)) = t
  BY <1>1, <1>2
     DEF WithKnownBlocker, WithBlocker, WithTaskBlocker, WithHint, Active, Session, TaskState
<1>5. /\ Loaded(s).taskState.tasks = s.taskState.tasks /\ Active(Loaded(s)) = t
  BY <1>4 DEF Loaded, Hydrated, Active
<1>6. OthersKept(s, Loaded(s), Active(Loaded(s)))
  BY <1>5 DEF OthersKept
<1>7. QED
  BY <1>3, <1>5, <1>6, TurnedPlaced, NoTaskNoWork

-----------------------------------------------------------------------------
(* The same through kills. *)

\* What is at work in a ledger is the task it calls active.
LedgerPlaced(l) == \A t \in TaskIds : l.tasks[t] \in InWork => t = l.activeTaskId

FilesPlaced == OneAtWork(session) /\ OneAtWork(disk) /\ LedgerPlaced(ledgerFile)

LEMMA LedgerDecides == \A s : OneAtWork(s) <=> LedgerPlaced(s.taskState)
  BY DEF OneAtWork, LedgerPlaced, Active

LEMMA InitialPlaced == LedgerPlaced(InitialTaskState)
  BY DEF LedgerPlaced, InitialTaskState, InWork

LEMMA FilesInitPlaced == FilesInit => FilesPlaced
  BY InitialPlaced, LedgerDecides DEF FilesInit, FilesPlaced, Init, InitialSession

LEMMA FilesNextPlaced ==
  ASSUME "advance" \notin Commands, FilesSafe, FilesPlaced, [FilesNext]_fileVars
  PROVE  FilesPlaced'
<1> USE DEF FilesPlaced
<1>1. CASE Called
  <2>1. Placed
    BY <1>1, CommandPlaced, Resumption DEF Called, FilesSafe
  <2>2. QED
    BY <1>1, <2>1 DEF Called, Placed, LedgerPlaced, OneAtWork, Active
<1>2. CASE WriteRunState
  BY <1>2 DEF WriteRunState, vars, LedgerPlaced, OneAtWork, Active
<1>3. CASE WriteLedger
  <2>1. LedgerPlaced(disk.taskState)
    BY LedgerDecides
  <2>2. QED
    BY <1>3, <2>1 DEF WriteLedger, vars, LedgerPlaced, OneAtWork, Active
<1>4. CASE Restart
  <2> DEFINE found == [state |-> runFile', taskState |-> ledgerFile']
  <2>1. WholeRunState(runFile') /\ WholeLedger(ledgerFile') /\ LedgerPlaced(ledgerFile')
    BY <1>4, InitialWhole, InitialPlaced DEF Restart, Survives, FilesSafe
  <2>2. found \in Session /\ OneAtWork(found)
    BY <2>1, LedgerDecides DEF WholeRunState, WholeLedger, Session
  <2>3. Saved(Loaded(found))
    BY <1>4 DEF Restart
  <2> HIDE DEF found
  <2>4. Placed
    BY <2>2, <2>3, LoadedPlaced, SavedPlaced
  <2>5. QED
    BY <2>1, <2>4 DEF Placed, LedgerPlaced, OneAtWork, Active
<1>5. CASE UNCHANGED fileVars
  BY <1>5 DEF fileVars, vars, LedgerPlaced, OneAtWork, Active
<1>6. QED
  BY <1>1, <1>2, <1>3, <1>4, <1>5 DEF FilesNext

\* As long as /advance is not used, no kill strands a task that is started, validated
\* or blocked: the session the next process loads, from whatever two files, works on
\* the task its ledger has at work.
THEOREM WorkIsActiveAfterKills ==
  ASSUME "advance" \notin Commands
  PROVE  FilesSpec => []AllWorkIsActive
<1>1. FilesSafe /\ FilesPlaced /\ [FilesNext]_fileVars => FilesPlaced'
  BY FilesNextPlaced
<1>2. FilesPlaced /\ FilesSafe => AllWorkIsActive
  <2>1. ASSUME FilesPlaced, FilesSafe
        PROVE  AllWorkIsActive
    BY <2>1 DEF FilesPlaced, OneAtWork, InWork, Active, AllWorkIsActive
  <2>2. QED
    BY <2>1
<1>3. QED
  BY <1>1, <1>2, FilesInitPlaced, FilesSpecSafe, PTL DEF FilesSpec
=============================================================================
