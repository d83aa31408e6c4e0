\* A second execution fails; the review that follows finds the first one's report.
CONSTANTS
  NumTasks = 3
  NumMilestones = 3
  PlanMilestone <- TemplateMilestone
  PlanKind <- TemplateKind
  PlanDeps <- TemplateDeps
  PlanVerify <- TemplateVerify
  MilestoneDeps <- TemplateMilestoneDeps
  Goals = {g1}
  EmptyRequest = empty_request
  NoGoal = no_goal
  NoChangeBlocks = TRUE
  Commands = {"plan", "continue", "execute", "review"}
  MaxSteps = 1
  MayFail = TRUE
SPECIFICATION Spec
PROPERTIES
  EvidenceGate
