\* A goal planned without milestones, left to the autonomous run.
CONSTANTS
  NumTasks = 3
  NumMilestones = 3
  PlanMilestone <- TemplateMilestone
  PlanKind <- TemplateKind
  PlanDeps <- TemplateDeps
  PlanVerify <- TemplateVerify
  MilestoneDeps <- TemplateMilestoneDeps
  Goals = {g1}
  EmptyRequest = empty_request
  NoGoal = no_goal
  NoChangeBlocks = TRUE
  Commands = {"plan", "auto"}
  MaxSteps = 9
  MayFail = FALSE
SPECIFICATION Spec
INVARIANTS
  AutoCompletesGoal
