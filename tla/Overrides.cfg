\* Two milestones whose tasks wait for one another, driven by hand: verify,
\* execute, review, advance, task-done, block and unblock in any order.
CONSTANTS
  NumTasks = 3
  NumMilestones = 2
  PlanMilestone <- CrossedMilestone
  PlanKind <- TemplateKind
  PlanDeps <- TemplateDeps
  PlanVerify <- TemplateVerify
  MilestoneDeps <- CrossedMilestoneDeps
  Goals = {g1}
  EmptyRequest = empty_request
  NoGoal = no_goal
  NoChangeBlocks = TRUE
  Commands = {"create", "plan", "continue", "verify", "review", "advance", "execute",
              "task_done", "block", "unblock"}
  MaxSteps = 1
  MayFail = FALSE
SPECIFICATION Spec
INVARIANTS
  TypeOK
  PointersAgree
  BlockedIsExplained
  CompletedIsSettled
PROPERTIES
  EvidenceGate
  DependencyGate
