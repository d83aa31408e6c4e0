\* Free text and slash commands of every work class routed by handleInput, in
\* every phase a run can be in, the wait for another milestone included.
CONSTANTS
  NumTasks = 3
  NumMilestones = 3
  PlanMilestone <- TemplateMilestone
  PlanKind <- TemplateKind
  PlanDeps <- TemplateDeps
  PlanVerify <- TemplateVerify
  MilestoneDeps <- WaitingMilestoneDeps
  Goals = {g1}
  EmptyRequest = empty_request
  NoGoal = no_goal
  NoChangeBlocks = TRUE
  Commands = {"create", "input", "continue", "execute", "review", "handoff", "clear_handoff"}
  MaxSteps = 1
  MayFail = FALSE
SPECIFICATION Spec
INVARIANTS
  ActiveWorkHasTask
PROPERTIES
  RefusedKeepsTheRun
  CleanupAdviceIsRight
