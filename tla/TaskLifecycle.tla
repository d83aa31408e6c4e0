---------------------------- MODULE TaskLifecycle ----------------------------
(***************************************************************************)
(* What a run promises about each of its tasks: it is worked on, checked   *)
(* and accepted in this order, whatever fails or restarts in between, and  *)
(* accepted only on a check of its last work.  It may be held, queued      *)
(* again, planned anew or forgotten at any time.                           *)
(*                                                                         *)
(* Several tasks may move in one step, each by its own rules.              *)
(***************************************************************************)
CONSTANTS
  Tasks,
  CheckTasks    \* tasks whose work is itself a check

VARIABLES
  status,    \* what the ledger says of each task
  checked    \* the tasks whose last work has passed a check

lifeVars == <<status, checked>>

Becomes(t, statuses) == status'[t] \in statuses
Unproved(t) == t \notin checked'
SameProof(t) == t \in checked' <=> t \in checked

\* Tasks nobody has worked on since they were queued or sent back.
Workable(t) == status[t] \in {"todo", "blocked", "in_progress"}

\* A plan makes the task, a reset forgets it.
Restart(t) == Becomes(t, {"absent", "todo"}) /\ Unproved(t)

\* A worker is on it; a task that was sent back is worked on again.
Work(t) == Workable(t) /\ Becomes(t, {"in_progress"}) /\ Unproved(t)

\* The work ends without success.
GiveUp(t) == Workable(t) /\ Becomes(t, {"blocked"}) /\ Unproved(t)

\* A check passes, after work if the check is not all the work there is.
Pass(t) ==
  /\ status[t] = "in_progress" \/ (Workable(t) /\ t \in CheckTasks)
  /\ Becomes(t, {"validated"}) /\ t \in checked'

\* A check is begun and broken off.
Try(t) == Workable(t) /\ t \in CheckTasks /\ Becomes(t, {"in_progress"}) /\ SameProof(t)

Accept(t) ==
  /\ status[t] = "validated" /\ t \in checked
  /\ Becomes(t, {"done"}) /\ SameProof(t)

\* An operator holds it, or queues it again, whatever its state.
Hold(t) == Becomes(t, {"blocked"}) /\ SameProof(t)
Requeue(t) == Becomes(t, {"todo"}) /\ SameProof(t)

Rest(t) == Becomes(t, {status[t]}) /\ SameProof(t)

LifeInit == status = [t \in Tasks |-> "absent"] /\ checked = {}

LifeNext ==
  \A t \in Tasks :
    \/ Restart(t) \/ Work(t) \/ GiveUp(t) \/ Pass(t) \/ Try(t) \/ Accept(t)
    \/ Hold(t) \/ Requeue(t) \/ Rest(t)

LifeSpec == LifeInit /\ [][LifeNext]_lifeVars
=============================================================================
