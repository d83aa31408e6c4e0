---------------------------- MODULE SessionFiles ----------------------------
(***************************************************************************)
(* persist, write by write.  It writes run-state.json and then             *)
(* task-state.json, each with a writeFile that truncates first, and the    *)
(* process may be killed at any moment: before a write, in the middle of   *)
(* one, or between the two.  The next process loads what the files then    *)
(* hold.  A file that is torn or missing reads as the initial one, because *)
(* both loaders catch every error; so a file is modelled by what its       *)
(* loader reads from it.                                                   *)
(*                                                                         *)
(* Here "disk" is the session last given to persist.  Of several persists  *)
(* in one call the last is cut, and an earlier one where the call fails    *)
(* after it.                                                               *)
(***************************************************************************)
EXTENDS HarnessRuntime

VARIABLES
  runFile,      \* what loadRunState reads from run-state.json
  ledgerFile,   \* what loadTaskState reads from task-state.json
  writing       \* the file a persist in progress writes next

fileVars == <<vars, runFile, ledgerFile, writing>>

FilesTypeOK ==
  /\ TypeOK
  /\ runFile \in RunState
  /\ ledgerFile \in TaskState
  /\ writing \in {"none", "run_state", "ledger"}

FilesInit ==
  /\ Init
  /\ runFile = InitialRunState
  /\ ledgerFile = InitialTaskState
  /\ writing = "none"

\* The call went on to its last persist, or has made one before it gave up.
Persists == disk' # disk \/ (reply'.outcome = "ok" /\ ~LoopStop)

\* A command runs when no persist is in progress.
Called ==
  /\ writing = "none"
  /\ Command
  /\ writing' = IF Persists THEN "run_state" ELSE "none"
  /\ UNCHANGED <<runFile, ledgerFile>>

\* saveRunState
WriteRunState ==
  /\ writing = "run_state"
  /\ runFile' = disk.state
  /\ writing' = "ledger"
  /\ UNCHANGED <<vars, ledgerFile>>

\* saveTaskState
WriteLedger ==
  /\ writing = "ledger"
  /\ ledgerFile' = disk.taskState
  /\ writing' = "none"
  /\ UNCHANGED <<vars, runFile>>

\* Faulty: a torn run state has no fallback.
Survives_NoFallback ==
  \/ UNCHANGED <<runFile, ledgerFile>>
  \/ /\ writing = "run_state"
     /\ runFile' = [InitialRunState EXCEPT !.phase = "none"]
     /\ UNCHANGED ledgerFile

\* What a kill leaves: the file being written is as before, or torn.
Survives ==
  \/ UNCHANGED <<runFile, ledgerFile>>
  \/ writing = "run_state" /\ runFile' = InitialRunState /\ UNCHANGED ledgerFile
  \/ writing = "ledger" /\ ledgerFile' = InitialTaskState /\ UNCHANGED runFile

\* The next process loads the files and, in create, writes both of them again.
Restart ==
  LET loaded == Loaded([state |-> runFile', taskState |-> ledgerFile'])
  IN  /\ "create" \in Commands
      /\ Survives
      /\ Saved(loaded)
      /\ writing' = "run_state"
      /\ loop' = NoLoop
      /\ UNCHANGED evidence

FilesNext == Called \/ WriteRunState \/ WriteLedger \/ Restart

FilesSpec == FilesInit /\ [][FilesNext]_fileVars
=============================================================================
