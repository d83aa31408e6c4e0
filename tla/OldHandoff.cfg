\* A reset that finds the handoff of another goal.
CONSTANTS
  NumTasks = 3
  NumMilestones = 3
  PlanMilestone <- TemplateMilestone
  PlanKind <- TemplateKind
  PlanDeps <- TemplateDeps
  PlanVerify <- TemplateVerify
  MilestoneDeps <- TemplateMilestoneDeps
  Goals = {g1, g2}
  EmptyRequest = empty_request
  NoGoal = no_goal
  NoChangeBlocks = TRUE
  Commands = {"plan", "handoff", "reset"}
  MaxSteps = 1
  MayFail = FALSE
SPECIFICATION Spec
PROPERTIES
  ResetNeedsHandoff
