\* The process is killed before, within and between the two writes of persist.
CONSTANTS
  NumTasks = 3
  NumMilestones = 3
  PlanMilestone <- TemplateMilestone
  PlanKind <- TemplateKind
  PlanDeps <- TemplateDeps
  PlanVerify <- TemplateVerify
  MilestoneDeps <- TemplateMilestoneDeps
  Goals = {g1}
  EmptyRequest = empty_request
  NoGoal = no_goal
  NoChangeBlocks = TRUE
  Commands = {"create", "plan", "continue", "review", "block", "unblock", "resume", "reset"}
  MaxSteps = 1
  MayFail = TRUE
SPECIFICATION FilesSpec
INVARIANTS
  FilesTypeOK
  PointersAgree
  BlockedIsExplained
  AllWorkIsActive
PROPERTIES
  DependencyGate
