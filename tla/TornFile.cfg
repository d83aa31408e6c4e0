\* A kill while run-state.json is being written.
CONSTANTS
  NumTasks = 3
  NumMilestones = 3
  PlanMilestone <- TemplateMilestone
  PlanKind <- TemplateKind
  PlanDeps <- TemplateDeps
  PlanVerify <- TemplateVerify
  MilestoneDeps <- TemplateMilestoneDeps
  Goals = {g1}
  EmptyRequest = empty_request
  NoGoal = no_goal
  NoChangeBlocks = TRUE
  Commands = {"create", "plan", "continue"}
  MaxSteps = 1
  MayFail = FALSE
SPECIFICATION FilesSpec
PROPERTIES
  ContinueNeverThrows
