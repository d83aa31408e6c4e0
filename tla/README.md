# doo-harness in TLA+

doo-harness runs coding agents under a phase discipline: a goal is planned into tasks, a task is
executed by an agent, verified, reviewed, and the next one follows, while every step is recorded in
two JSON files so that the run survives the process. This project models that runtime, checks it with
TLC and proves some of what it checks with TLAPS. Paths below are relative to `src/packages/`, and
"the runtime" is `harness-runtime/src/runtime/harness-runtime.ts`.

## 1. The system

### Parts and state

| part | code | state | operations |
|---|---|---|---|
| phase machine | `harness-runtime/src/phases` | none | `transitionPhase` accepts or throws |
| request routing | `harness-runtime/src/router` | none | text → mode, work class, gates, flow and phase |
| session | `runtime/harness-runtime.ts`, `state/` | run state (`run-state.json`) and task ledger (`task-state.json`) | one method of `HarnessRuntime` per command |
| completion loop | the runtime, 3252–3318, 3553–3656 | step budget and stop reason of one call | repeats `continueTaskLoop` |
| tool and bash policy | `policy/` | none | which tools an agent gets, which shell commands pass |
| executors, agent loop, tools | `execution/`, `agent-core/src` | messages of one prompt | run one task in process, fresh, or in a subprocess |
| providers | `ai/src` | credentials of other tools | one completion |
| managed web application | the runtime, 1566–1856 | a detached child process | start, probe, kill |
| artifacts and handoffs | `artifacts/`, `handoff/` | files | write a document, list them |
| command line | `cli/src` | none: one process per command | parse, call one method, print |
| hosted bridge, Pi extension | `extensions/src` | one runtime shared by all host commands | parse, call one method, no queue |
| views | `getStatus`, the payloads, handlers, `tui/src` | none | read the session, recommend a command |

### How they interact

A command (CLI, extension or hosted bridge) calls one method of one `HarnessRuntime`. The method
mutates the session in memory, awaits agents, executors, checks and artifact writes, and usually ends
in `persist()`, which writes the run state and then the ledger. `HarnessRuntime.create` reads both,
reconciles them and writes them back. The run state and the ledger repeat six fields: active task,
active milestone, last verdict, last report, last handoff, and last review. Most methods read one copy and
write both. The last review is left out: no method that changes the session reads it, only views do.

### What is hard

- **Two copies of the truth.** Every assignment must be made twice, and the reader takes whichever
  copy its line names.
- **Direct assignments.** The phase table is enforced only where `transitionPhase` is called. Eight
  methods assign the phase directly, and can put the run where a later call throws.
- **Failure in the middle.** A method changes memory before it awaits an agent. If the agent fails,
  the exception leaves the changes in memory and not on disk; the caller may go on, or a new process
  may start from the files.
- **Recursion of `continueTaskLoop`**, which resumes, picks, advances and calls itself.
- **Automatic recovery** of blocked tasks against an operator's wish to block them.
- **Concurrency** between host commands on one runtime, and between CLI processes on the files.
- **Advice** that is computed by conditions written apart from those of the methods it names.
- **Loops over something outside**: a model that calls a tool in every turn, a check that always
  fails, an application that never listens.

### What makes each part correct

- Routing: a refused request changes nothing of a run; a request that starts work leaves a task to work on.
- Session: the two copies agree; a blocked task says why; a paused run can be resumed.
- Task lifecycle: no task starts before its dependencies, none is accepted without a passing report
  made after its last execution, none that is done is undone.
- Milestones: those before the active one are done and those after it untouched; a completed
  long-running run has left nothing behind.
- Continue and the loops: the call returns, throws no phase error, and stops for a reason that is true.
- Restart: a new process finds the run the last completed command left.
- Policy: a worker that is told to change files can.
- Views: the command they recommend is one the runtime accepts and that gets the run further.
- Shared runtime: what one call remembers across an await does not break what another did meanwhile.
- Agent: the prompt is kept, every tool call is answered once and in order, the turn ends.
- Web application: a call ends, and leaves no server behind.

## 2. Modules

| module | models |
|---|---|
| `PhaseMachine` | the phases and the transition table |
| `RouteFlow` | `routeFlow`, its gates, and every classification `classifyWork` can give |
| `HarnessSession` | the session record and what each method makes of it, as operators from session to session |
| `HarnessRuntime` | the commands as actions, with memory, disk, failure and restart; the completion loop; the properties |
| `StatusViews` | `getStatus`, its suggested next action, the pickup, blocked, queue and timeline payloads, the dashboard and handoff views, as functions of the session |
| `TaskLifecycle` | abstract: the life of one task, and what may not be skipped in it |
| `SessionFiles` | the runtime with the two writes of `persist` one by one, kills at any point of them, and the loaders' fallbacks |
| `HostedBridge` | the runtime with several commands in flight, every method cut at every await |
| `AgentTurn` | abstract: what the runtime relies on when it prompts an agent |
| `Completion` | `complete`: the message a configuration and a response give |
| `AgentLoop` | `prompt` and `runAgentLoop` |
| `ManagedWebApp` | the calls that start, probe and end a web application |
| `MCPlans` | the template's plan, and plans no template writes |
| `MCHarnessRuntime`, `MCSessionFiles`, `MCHostedBridge` | the modules with those plans and the command sets used for model checking |
| `HarnessRuntimeProofs`, `OverrideProofs`, `LoopProofs`, `TemplateProofs` | the theorems about the runtime: for every command and for restarts; for operator overrides; for the loop's commands; for the templates' plans |
| `SessionFilesProofs` | the theorems that survive kills |
| `HostedBridgeProofs` | what several callers cannot break, and that the pieces of a method make up the method |
| `AgentLoopProofs`, `ManagedWebAppProofs` | the theorems about the agent and the web application |

`PhaseMachine`, `RouteFlow` and `HarnessSession` are composed in `HarnessRuntime`, which `StatusViews` and
`SessionFiles` extend, and once more in `HostedBridge`. `HarnessRuntime` takes a command as one step, which is
what it is to its only caller; `HostedBridge` takes the code from one await to the next as one. The agent loop
and the web application are called by the runtime, which sees of them only that awaited work returns or rejects; `AgentTurn` states what the
runtime uses beyond that, and `AgentLoop` is shown to implement it.

### State

- `session` — the session in memory, `[state |-> RunState, taskState |-> TaskState]` with the source's
  field names. `tasks[t] = "absent"` is a key the ledger does not hold; identifier 0 is `null`.
- `disk` — the same record as the two files hold it.
- `loop` — whether `runCompletionLoopDetailed` is in its loop, the steps left, and the stop reason.
- `reply` — how the last call ended (`ok`, `refused` = returned without acting, `invalid_transition` =
  `transitionPhase` threw, `agent_failed` and `checks_failed` = awaited work rejected, `hung` = the call
  recurses on an unchanged session) and the tools its worker agent got.
- `evidence` — a history variable: the tasks whose last passing verdict came after their last
  execution. No action reads it except to update it.

The fields `taskKinds`, `taskOwners`, `taskVerificationCommands` and `taskDependencies` are filled and
emptied together from the plan, so the flag `planned` stands for all of them and their content is a
constant (`PlanKind`, `PlanVerify`, `PlanDeps`; the templates always give the owner that goes with the
kind). Paths are reduced to whether they are set, a handoff to the goal it records, a blocker text to
who wrote it, because that is all the runtime's conditions tell apart. `cancelled` is a phase of the
table that no method enters.

`HostedBridge` has the `session`, and `inFlight`: for each caller the await its call is at and those of its
locals that it reads again. The files are left out there, since a bridge reads them once, before its first command.
`AgentLoop` has the agent's `messages` and `streaming`, and the turn's `output`, `iteration` and pending
calls. `ManagedWebApp` has the progress of the call and three things outside: the leader process of the
start script, who listens on each port, and the port the URL names. `StatusViews` has no state.

### Actions

Each command is one action from the call to its return: the runtime is single-threaded, and a command
of a single caller is interrupted by nothing but its own failure. `Return(s, d, r)` says what a call
leaves in memory, what on disk, and what it returned; `Saved` is a call that persisted last, `Unsaved`
one that did not. `continueTaskLoop` is built as the code is: `ContinueTaskLoop` (completed, paused, or
neither) calls `PickTask`, which calls `RunTask` (one disjunct per task status), which calls
`StartTask`, `LeaveTask`, `Verify` or `Execute` on the session reached so far, together with what had
been persisted by then. Where the code calls itself recursively on a session it has just changed, the
operator for the next part is applied to that session; each such recursion ends after one turn, except
the one that is reported as `hung`.

With `MayFail` the awaited part of `Execute` and `Verify` may reject: memory keeps the earlier
assignments, the files keep the last persisted session. Killing the process there is the same followed
by `Create`. Slash commands reach the methods through `cli/src/main.ts`; `ExecuteCurrentTask` and
`EnterWorkerValidator` are the two branches of `/execute`.

`SessionFiles` runs the same commands, but a command that persists is followed by `WriteRunState` and
`WriteLedger`, and a `Restart` may come before, between or instead of either. Each file is represented by
what its loader reads from it: `writeFile` truncates first, and both loaders answer an unreadable file
with the initial record, so a file torn by a kill *is* the initial record. `disk` is then what the call
handed to `persist`. Commands do not overlap with writes, because a call returns after its last one. Where
a call persists several times, the writes of the last one are cut by a kill, and those of an earlier one
where awaited work fails between them.

`HostedBridge` cuts the methods at every await: artifact and state writes, the workspace snapshot and the
scaffolds as well as agents, validators and checks. `Type(c)` is a command up to its first await, `Proceeds(c)` a
call from one await to the next (or to its end), `Rejects(c)` a call whose awaited work throws. A piece is the code
in between, on the session as it is by then; what the code took into a local before the await is in the call:

| method | pieces |
|---|---|
| `plan` | `PlanBegins` reopens and enters planning; `PlanWritten` fills in the tasks once spec and plan are written; `MilestonesWritten` the milestones |
| `handleInput` | `TypeInput` routes; `GoalWritten` enters the phase or plans; `PlanSaved` gives a planned request its flow |
| `executeCurrentTask` | `Execute` chooses the task; `Prepared` starts it after snapshot and scaffolds; `WorkEnds` writes its output and retires the old report |
| `verify` | `Verify` enters verifying; `ValidatorReturns` and `Check` start the checks of the captured task; `ChecksEnd` fixes the verdict from the task active then; `ReportWritten` applies it to the task active after the report is written |
| `continueTaskLoop` | `ContinueTaskLoop` up to what it calls; `Continued`, `VerifyCalled` and `MilestoneAdvanced` where it goes on after a persist |
| `createHandoff` | `TypeHandoff` captures the goal; `HandoffWritten` sets the pointers |
| `review`, `resume`, `reset`, `clearHandoff` | one piece each |

Two awaits without code between them are one. A call that awaits only its last persist is over: it does nothing to
the session any more. Commands are those `executeHostedCommand` passes to a method. `/unblock`, `/block`, `/execute`,
`/advance`, `/task-done` and `/loop` are not among them: the bridge hands them to `handleInput` as the text of a
request, so that a task whose status says "use /unblock" stays blocked there.

`AgentLoop` has one action for each thing the loop awaits. A turn may end on tool results: after the last
iteration the loop stops without asking the model again. Errors of a provider become an assistant's text
(`Completion`), which is then taken for the answer. `ManagedWebApp` is one call at a time with the processes
around it; a missing `pnpm` has no listener for its `error` event and ends the process (`SpawnFails`).

## 3. Runs

| run | question | bounds | distinct states |
|---|---|---|---|
| `milestone_run` | does the template plan, worked off by continue, loop and auto, with failing agents, restarts, operator blocks, handoffs and resets, keep its milestones in order, finish only when everything is done, end its loops, and does the advice of the views hold? | 3 tasks, 3 milestones, 2 goals, loop budget 2 | 49 689 |
| `overrides` | does any order of the operator's own commands break agreement, explanation, evidence or dependencies? | 3 tasks, 2 milestones whose tasks wait for one another, 1 goal | 141 729 |
| `requests` | what do requests of every class and mode do to a run in every phase? | 3 tasks, 3 milestones, the second waiting for the third, 1 goal | 28 430 |
| `kills` | what is left of the invariants when the process may be killed while it writes its files? | template plan, 1 goal, any number of kills | 391 446 |
| `shared_runtime` | what survives two calls interleaved at every await? | the template's plan without its first task, 1 goal, any number of commands; one caller has plan, continue, review and resume, the other input, verify, handoff, clear_handoff and reset | 2 523 519 |
| `agent_loop` | are prompts kept, requests complete and turns bounded, whatever the model calls? | 2 tool names, one of them unknown; 2 calls a message, 2 iterations, 2 prompts | 242 311 |
| `web_app` | do calls end, and what do they leave running? | 2 ports, 2 polls, any number of calls | 2 292 |
| `hosted_gate` | does verification gate the work of a shared runtime? (no) | template plan, 2 callers | |
| `torn_file` | can the run always go on after a kill? (no) | template plan | |
| `failed_execution` | is nothing accepted without a report made after its last execution, failures included? (no) | template plan | |
| `single_goal` | is a goal the loop reports completed done? (no, without milestones) | template plan, budget 9 | |
| `old_handoff` | does a reset keep a handoff of the run it discards? (no) | template plan, 2 goals | |

**Bounds.** `buildPlanningArtifacts` writes three tasks and three milestones for every goal, so the
template plan is not a reduction: it is the plan. `overrides` uses a plan the templates do not write
but the ledger can hold (the tests of the repository write such ledgers by hand): one milestone with two
tasks and a dependency that crosses milestones, so that waiting, the fallback task and a milestone left
early occur. Two goals are enough to tell a run's own handoff from another's. In
`kills` the number of kills, restarts and commands is not bounded. `MaxSteps` bounds the
step budget a caller may ask for; the loop's body does not depend on the steps left except to stop, and
a caller may start the loop again, so longer budgets reach no other session.
In `shared_runtime` a caller may issue any number of commands; what breaks between calls is one call that waits
while another acts, so two callers are enough. Each command is given to one of them and the plan has two tasks, because
three tasks, or two callers with the same commands, have more states than a run of minutes covers. What the run therefore
does not see, two calls of `continueTaskLoop` side by side for one, the theorems about it do: they are about every
plan, all commands, and any number of callers. `hosted_gate` has the template's plan, and both callers the same commands.
`agent_loop` bounds prompts (`MaxPrompts`), iterations (8 in the code) and calls a message; two of each are the least for which a call, an iteration or
a prompt can have an earlier one to confuse it with. In `web_app` a second port is what an application can
move to, and a second poll what follows a failed one (120 in the code).

**Deadlock** is checked except in `agent_loop`, which stops when its prompts are used up, and in `web_app`,
where a `pnpm` that cannot be started ends the process of the harness.

**Fairness.**

- `FairSpec` of `HarnessRuntime` assumes that a completion loop that is running takes its next step or stops
  (`LoopFairness`, which is `WF_vars(LoopStop \/ LoopStep)` with `ENABLED` written out): the process is
  not stopped and the agents and checks it awaits return or fail. Nothing is assumed of any command, nor of
  success.
- `AgentSpec` assumes `WF(Turn)`: providers and tools answer or throw. Nobody has to prompt.
- `WebSpec` assumes `WF(CallStep)`: a connection that is accepted is answered, an install and a browser come to
  an end, and the event loop goes on. The code sets no timeout for any of them, so this is an assumption about
  the world and not one the code enforces. No fairness is assumed of the application, its leader
  or other processes: they may never listen, never announce a port, never end.

What the passing runs show, by property:

- `MilestoneFrontier`, `NothingLeftBehind`, `AllWorkIsActive` — milestones close in order and no task is
  stranded when the run advances, pauses or restarts. They hold for `continue`, `loop`, `auto`, `review`,
  `block`, `unblock`, `resume`, `reset`; a manual `/advance` skips tasks on purpose and is not in that run.
- `ReviewHasSubject`, `CompletedIsSettled`, `EvidenceGate` — review accepts only what was verified after
  it was last executed. `overrides` has no failing work; with it, `failed_execution` breaks `EvidenceGate`.
- `ImplementsLifecycle` — through failing workers, restarts, recoveries and operator blocks, each task lives the
  life of `TaskLifecycle`: worked on, passed by a check after its last work, accepted. Several tasks may move in
  one step (a plan, a reset, an advance), each by its own rules.
- `DependencyGate` — nothing is started early, whatever the operator did before.
- `PointersAgree`, `BlockedIsExplained`, `PausedIsResumable` — the two copies agree, blocked tasks say
  why, paused runs go on.
- `ContinueReturns`, `ContinueNeverThrows`, `WorkerCanWrite` — the loop cannot wedge itself or send a
  worker out without tools. `/execute` is not among the commands of that run: used in the idle phase it starts
  T1 and leaves the run idle (3325–3329), after which `/continue` throws.
- `LoopEnds` — a loop ends although a check that always fails is recovered, executed and verified again with
  progress every time: only the step budget stops it.
- `CreateIsTransparent`, `DoneStaysDone` — a restart between commands is invisible and work is not undone.
- `ContinueAdviceHelps`, `UnblockAdviceHelps`, `QueuedReviewCloses`, `CleanupAdviceIsRight` — where status, pickup,
  queue, dashboard and handoff view recommend a command, it is accepted and does what the advice is for.
  `ContinueAdviceHelps` leaves out the pickup of a completed run, which still says `/continue` although
  `continueTaskLoop` refuses it, while `getStatus` asks for a new task.
- `BlockerIsListed`, `HintIsCurrent` — the blocker shown for the run is that of a listed task, and no recovery hint
  outlives its block. After `/resume` of a user-blocked task the suggested action is `/unblock` although the run
  has no blocker any more; the pickup then falls back to `/status`. In the plan of `requests` a run may also
  wait for a milestone: that blocker belongs to no blocked task, and following "use /unblock" requeues the
  task just done. That plan is not a template's, so these properties are checked on the template plan.
- `ActiveWorkHasTask`, `RefusedKeepsTheRun` — requests.
- In `kills`, `PointersAgree`, `BlockedIsExplained`, `AllWorkIsActive` and `DependencyGate` hold wherever the
  process dies. They rest on what `reconcileSession` prefers: the ledger's active task (or work in
  progress would be stranded), one report for both copies, and blockers passed from the half that knows them.
  `PausedIsResumable`, `ReviewHasSubject`, `CompletedIsSettled`, `MilestoneFrontier`, `NothingLeftBehind`,
  `ContinueReturns` and `ContinueNeverThrows` are not in that run because a kill breaks them: the phase lives in one file and
  what it speaks of in the other.
- `LedgerFrontier`, `CopiesAgree`, `ResumeIsAccepted` — what is left with several callers. The milestones and the
  pointer of the ledger are always set together, so they stay in order however plans, reviews and advances overtake one
  another; every piece of code sets both copies of task, verdict, report and handoff; and every phase that any call stores to
  resume into is one that resume may enter. Everything else that holds of one caller is lost with two, because a
  verdict, an output, a pause or a plan lands on a session another call has moved on. In particular:
  - *The active milestone.* A short plan that comes back from writing its files after a long plan has filled in its
    milestones clears the run state's pointer alone (2757), and the ledger's stays. So `PointersAgree` is false, and
    `CopiesAgree` leaves this pointer out.
  - *Blockers.* A verdict fixed while a plan has reopened the run and not yet filled it is "blocked" without a failure
    text; applied after the plan (2965–2975) it blocks a task that has no blocker. So `BlockedIsExplained` is false.
  - *Dependencies.* They are looked up at 3178, the task is started at 3350, and three awaits lie between (3342–3345).
    T1 is done, `/continue` has found T2 ready and prepares the workspace, a `/plan` queues every task anew, and the
    first call starts T2 with T1 to do. So `DependencyGate` is a promise to one caller.
  - *Tasks and milestones.* The milestones of a plan are filled in after its tasks (2743): what another call advanced in
    between is started over, with the task of a later milestone active.
  - `hosted_gate` is the verification gate.
- `RequestIsComplete`, `TurnIsBounded`, `ImplementsTurn`, `PromptReturns` — the agent. The stub model answers what the
  user's text names whatever has happened since, so it calls the same tool until the bound ends the turn.
- `OrphansNeedExit`, `CallReturns` — the web application. The first says exactly what can be left behind: a server
  whose leader ended with an exit code, because `terminateChild` then returns without a signal to the group.

### Disagreements found

1. The hosted bridge runs every command at once on one runtime. While `/continue` waits for the worker of a task,
   `/verify` and `/review` of another command accept the task, and what the worker changes afterwards is verified
   by nobody (`hosted_gate`).
2. `review` completes any run that is not in the milestone flow after one task (3028–3031), so a goal
   planned with `/plan` is reported completed with two of three tasks to do (`single_goal`).
3. `lastHandoffPath` outlives the run it belongs to, so the check in `reset` accepts the handoff of an
   earlier goal (`old_handoff`).
4. A kill while `run-state.json` is written leaves an idle run over a task in progress; `/continue` throws
   from then on (`torn_file`).
5. `executeCurrentTask` retires the old report only when its agent has finished (3413). If the second
   execution of a validated task throws, `review` accepts the task on the first report (`failed_execution`).

## 4. Proofs

| module | theorem | states | for |
|---|---|---|---|
| `HarnessRuntimeProofs` | `TypeCorrect`, `PointersAlwaysAgree`, `PausedAlwaysResumable`, `BlockedAlwaysExplained`, `RestartsAreTransparent` | `TypeOK`, `PointersAgree`, `PausedIsResumable`, `BlockedIsExplained`, `CreateIsTransparent` | every plan that satisfies `PlanShape`, every set of commands, every budget, with and without failing work |
| `OverrideProofs` | `DependenciesAlwaysGate`, `ActiveWorkAlwaysHasTask` | `DependencyGate`, `ActiveWorkHasTask` | the same |
| | `WorkIsAlwaysActive` | `AllWorkIsActive` | the same, without `advance` |
| | `CompletedAlwaysSettled` | `CompletedIsSettled` | the same, without `input` |
| | `EvidenceAlwaysGates` | `EvidenceGate` | the same, without `execute` or without failing work |
| `SessionFilesProofs` | `FilesTypeCorrect`, `PointersAgreeAfterKills`, `BlockedExplainedAfterKills`, `DependenciesGateAfterKills` | `FilesTypeOK`, `PointersAgree`, `BlockedIsExplained`, `DependencyGate`, of `FilesSpec` | as the first, and any number of kills |
| | `WorkIsActiveAfterKills` | `AllWorkIsActive`, of `FilesSpec` | the same, without `advance` |
| `HostedBridgeProofs` | `HostedTypeCorrect`, `FrontierHeldByCallers`, `CopiesHeldByCallers`, `ResumeHeldByCallers` | `HostedTypeOK`, `LedgerFrontier`, `CopiesAgree`, `ResumeIsAccepted`, of `HostedSpec` | every plan that satisfies `PlanShape`, every set of dispatched commands, any number of callers |
| | `UninterruptedIsAtomic` | the pieces of `plan`, `executeCurrentTask` and `verify` make up `Planned`, `ExecutionStarted` and `VerdictRecorded` of `HarnessSession` | every session the bridge can be in |
| `LoopProofs` | `ReviewAlwaysHasSubject`, `ContinueAlwaysReturns`, `LoopNeverThrows`, `WorkerAlwaysWrites` | `ReviewHasSubject`, `ContinueReturns`, `ContinueNeverThrows`, `WorkerCanWrite` | every plan, budget and failure; commands among `LoopCommands` |
| | `HintAlwaysCurrent`, `QueuedReviewAlwaysCloses` | `HintIsCurrent`, `QueuedReviewCloses` | the same |
| | `CleanupAdviceAlwaysRight` | `CleanupAdviceIsRight` | every set of commands |
| `TemplateProofs` | `FrontierAlwaysHolds`, `NothingIsLeftBehind`, `DoneAlwaysStaysDone`, `RuntimeImplementsLifecycle` | `MilestoneFrontier`, `NothingLeftBehind`, `DoneStaysDone`, `ImplementsLifecycle` | plans that satisfy `OneByOne`, of any length; commands among `LoopCommands` |
| | `BlockerAlwaysListed`, `UnblockAdviceAlwaysHelps` | `BlockerIsListed`, `UnblockAdviceHelps` | the same |
| `AgentLoopProofs` | `AgentTypeCorrect`, `RequestsAlwaysComplete`, `AgentImplementsTurn`, `TurnsAlwaysBounded` | `AgentTypeOK`, `RequestIsComplete`, `ImplementsTurn`, `TurnIsBounded` | every set of tools and names, every bound on calls, iterations and prompts |
| `ManagedWebAppProofs` | `WebTypeCorrect`, `OrphansAlwaysNeedExit` | `WebTypeOK`, `OrphansNeedExit` | every set of ports, every number of polls |

**Assumptions.** The plan has at least one task and one milestone and not more milestones than tasks —
`advanceMilestone` falls back on `T<index + 2>`, which must be a task of the plan for the ledger to keep
its type — and the constants have their types. Nothing else is assumed of the constants.

Three hypotheses restrict what a theorem speaks of, and each is there because TLC shows the property false without
it, not because the proof needed it:

- *Commands.* `LoopCommands` are the commands with which a run is worked off: `create`, `plan`, `continue`,
  `loop`, `auto`, `review`, `block`, `unblock`, `resume`, `handoff`, `clear_handoff` and `reset`. The others take
  the phase discipline away: `/execute` in an idle run starts T1 and leaves the run idle, or executes again a
  task that was validated (breaks `ReviewHasSubject`, `ContinueNeverThrows`, `HintIsCurrent`,
  `QueuedReviewCloses`, `WorkerCanWrite` and, if its agent fails, `EvidenceGate`); `/advance` leaves a task
  that is not done (`AllWorkIsActive`, `QueuedReviewCloses`); a request can put a run with a finished plan back
  to planning (`ContinueNeverThrows`, `CompletedIsSettled`, `QueuedReviewCloses`, `WorkerCanWrite`);
  `/task-done` closes a task under its hint (`HintIsCurrent`, `WorkerCanWrite`); `/verify` verifies what nobody
  has worked on (`WorkerCanWrite`, `ImplementsLifecycle`).
- *Failure.* Only `EvidenceGate` with `/execute`: that is disagreement 5.
- *Plans.* `OneByOne`: as many milestones as tasks, each task in the milestone of its number, every dependency
  on an earlier one. This is what `buildPlanningArtifacts` writes, there with three tasks. In a plan with two
  tasks in one milestone the fallback task of `advanceMilestone` may be one that is done (`DoneStaysDone`), and in
  one whose milestones wait for later ones the run's blocker belongs to no task (`BlockerIsListed`,
  `UnblockAdviceHelps`).

**Types, agreement, pauses, blockers** (`HarnessRuntimeProofs`). The inductive invariant is `Safe`: `TypeOK`,
`PointersAgree`, `PausedIsResumable`, `BlockedIsExplained`, that no session is cancelled, and that a report that
exists has a verdict, in memory and on disk. Agreement needs the types, and every method that reads one copy and
writes the other (`WithSomeTask`, `Advanced`, `VerificationEnded`) needs agreement to keep it; a method that pauses
the run must also have set a phase to resume into, and a method that starts from a paused run relies on it;
`create` infers a missing verdict and blocker, and its inference must not contradict the rest. So the six are
carried together. The proof has three layers: each shared assignment (`WithActiveTask`, `WithReport`, `Entered`,
...) keeps a session `Fit`; so does each method (`ExecutionStarted`, `VerificationEnded`, `Advanced`, `Loaded`,
...), being a composition of them; and each command leaves fit sessions in memory and on disk, the composed
`ContinueTaskLoop` by one lemma for each part it is built from. `SpecSafe` combines the cases. All of it is stated
for a set `R` of phases that a paused run may resume into. `Safe` is `SafeIn(WorkPhases)`, which is
`PausedIsResumable`; `SafeIn(ResumePhases)` allows any phase the runtime stores, and none, because that is what
kills leave. The commands keep both, by the same lemmas.

**Operator overrides** (`OverrideProofs`). For `DependencyGate` no further invariant is needed: `continueTaskLoop`
may resume, pick, requeue and advance before it starts a task, and up to there the session it has reached differs
from the one it began with at most in tasks put back to todo (`Reaches`), so dependencies found done there were done
at the beginning; from there on it changes the status of that one task only (`OthersKept`). That no run is
cancelled is needed because reopening a run drops its tasks. The other theorems add `Fine` to `Safe`. Of each
session, `Tidy`: a run at work has a task, what is at work is the active task (unless `/advance` is used), and a
completed run has none unfinished (unless requests are routed). Of memory and disk together, when executions
do not throw: what a review would accept is done already or in `evidence` (`Vouched`), and what a review of the
*files* would accept, one of the memory accepts, too, with the same tasks (`Lasting`). The second is what makes
`EvidenceGate` survive a restart: the files may lag behind the memory, but never by an execution that has made a
passing report void.

**Restarts** (end of `HarnessRuntimeProofs`). On a sound session every choice of `reconcileSession` is between equal
copies, the milestone tag changes no status, a verdict is never inferred, and blockers are told or dropped without
touching what `CreateIsTransparent` compares.

**Kills** (`SessionFilesProofs`). Between the writes of a persist nothing relates one file to the other, so `FilesSafe` says
of each what it holds alone (`WholeRunState`, `WholeLedger`): its type, that a report has a verdict, and, of the ledger,
that blocked tasks have blockers and that the phase to resume into is one the runtime stores. The initial records,
which torn files read as, satisfy both, and `AnyHalvesFit` shows that `create` makes a fit session of *any* two such
files. From there on memory and the session given to `persist` satisfy `SafeIn(ResumePhases)`. `DependencyGate` then
follows as for one process, since `Gate` needs no more than that. For `AllWorkIsActive` the statement for every
method (`...Placed`) is that it stays with the active task or leaves one that is not at work; a kill keeps it because
the task statuses and the active task stand in the same file, and `create` takes the run state's task only where the
ledger names none.

**Several callers** (`HostedBridgeProofs`). A piece of code after an await may find any session the others have made, so
it has to keep the invariant from *every* session that satisfies it, whatever the call saw before. `Held` is what is kept
in this sense: the types, the copies of task, verdict, report and handoff, a phase to resume into that the runtime stores (or
none), and the split of the ledger's milestones. `HostedInv` adds that calls have their types and that an execution
knows its task. Pieces that begin a command, pieces that end one and rejections are shown to keep `Held` one by one,
most of them by lemmas about the assignments they are made of; a call's own locals matter only through
their types. `LedgerFrontier`, `CopiesAgree` and `ResumeIsAccepted` are read off `Held`; the last because from paused
the table leads to every phase the runtime stores. `UninterruptedIsAtomic` is what ties this module to the others: cut or
not, it is the same code, and only what other callers do in between makes the difference.

**The loop** (`LoopProofs`). `Ordered` says in which phase the active task can have which status (`PhaseFits`),
that nothing else is at work, that blockers and recovery hints are those of blocked tasks, that the blocker of the
run is that of its active task or a wait for milestones, and that a run with a task is in a flow with tasks.
With it every call of `transitionPhase` in `continueTaskLoop` has a phase the table accepts, and every recursion
reaches a session that ends it. It holds of memory and of disk; the disk may be `Behind` by a task that was taken
up by an execution that threw; and every validated task is in `evidence` (`Covered`). `InHandInv` adds `Safe` and
that no call recursed for ever. `Ordered` is kept by one lemma for each method, most of them by
`TouchedOrdered`: a step that touches the active task only keeps it when phase and blocker fit the new status.

**The templates' plans** (`TemplateProofs`). `LinedUp`: either there is no plan, or the active task splits it
(`Split`) — every task before it is done, every task after it untouched, and the milestones likewise if the run is in
the milestone flow, which then is completed exactly when the last task is done. `MilestoneFrontier` and
`NothingLeftBehind` are read off it. For the refinement, `Moves` lists what a call may make of a task that it finds
in a status, with what becomes of its evidence; every method is shown to be `Onward`, that is to keep the plan
lined up and to move each task so; `MovesLive` maps each move to an action of `TaskLifecycle`. A step that changes
several tasks (a plan, a reset, an advance, a restart after an execution that threw) is such a move for each of
them, which is why `LifeNext` quantifies over the tasks.

**The agent.** `Conversing` says what the messages of a running turn look like: complete exchanges, and while tools
run one exchange whose answered calls and pending calls make up the calls of the last message. From it follow the
complete requests and, step by step, the refinement: `Prompt` is `Ask`, the two ways to finish are `Answer`, a
rejection is `Reject`, everything else a stutter. `Counted` adds that the model's messages after the last message of
the user are as many as the iterations that are over, plus one while tools run. It bounds model calls only; a message may
call any number of tools.

**The web application.** `OrphansNeedExit` speaks of a call that is over; it becomes inductive with the fact that a
call that has not spawned its script owns no process.

**Only model-checked:**

- `ContinueAdviceHelps`: needs, beside `LinedUp`, that tasks of the kind verification have verification
  commands, as the templates' do, and that their blockers and hints are never those of an execution.
- `RefusedKeepsTheRun`: of requests, about a single step.
- `LoopEnds`, `PromptReturns` and `CallReturns`, which are liveness under fairness; the prover does not reach them,
  nor `ENABLED`, nor what recursive definitions compute for every input.

## 5. Not modelled, and what is left

Left out for good: texts, prompts, scaffolds, formatting, argument parsing, search, the terminal panel, the pattern
lists of the bash policy, request bodies, headers and where credentials are found. Their control is straight-line,
and no property of the run depends on it.

Abstracted, with what is lost:

- Artifact and state writes succeed. For one caller, outside `SessionFiles`, they take no time, since nobody else is
  there to see it; in `HostedBridge` they take time like every await. There two calls can also interleave between the two
  writes of `persist`; the files then mix two sessions, which no model of the bridge sees.
- The pointer to the last review and the handoff eligibility of the status, which reads it.
- Documents are not modelled: `FileArtifactStore` names them by the millisecond, and two reports written within
  one would share a file. Within one caller an agent or a check lies between any two.
- Two CLI processes on the same files: each writes a session that is consistent in itself and the last writer
  wins, so no invariant of one session tells what the other lost.
- An await that never ends: tools, checks and providers have no timeout. The models let awaited work return or
  reject; a verify command that hangs leaves the run in `verifying`.
- An autonomous run of the hosted bridge is its separate calls of `continueTaskLoop`.
- Events of the agent loop repeat its transcript.

What would come next:

| module | what it adds | properties | proof |
|---|---|---|---|
| `SessionFiles`, second process | two CLI processes on the same files; a re-plan cut between the writes, after which a run can read as completed with tasks to do | what two processes can lose | `AnyHalvesFit` again: it does not ask who wrote the files |
| `HostedBridge` with writes | the two writes of `persist` of two callers interleaved | which half wins | `CopiesAgree` does not depend on the files; what holds of the next process is `AnyHalvesFit` |
| `ArtifactStore` | names by the millisecond | a pointer reads the document it was given | – |
