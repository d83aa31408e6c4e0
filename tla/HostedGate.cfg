\* A task that verify accepts while the agent of another call still works on it.
CONSTANTS
  NumTasks = 3
  NumMilestones = 3
  PlanMilestone <- TemplateMilestone
  PlanKind <- TemplateKind
  PlanDeps <- TemplateDeps
  PlanVerify <- TemplateVerify
  MilestoneDeps <- TemplateMilestoneDeps
  Goals = {g1}
  EmptyRequest = empty_request
  NoGoal = no_goal
  NoChangeBlocks = TRUE
  Commands <- LoopCommands
  Callers = {"driver", "other"}
SPECIFICATION HostedSpec
INVARIANTS
  GateCoversWork
