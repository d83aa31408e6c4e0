\* The plan of the built-in templates, run by continue and the completion loop,
\* with failing workers, restarts, operator blocks, handoffs and resets.
CONSTANTS
  NumTasks = 3
  NumMilestones = 3
  PlanMilestone <- TemplateMilestone
  PlanKind <- TemplateKind
  PlanDeps <- TemplateDeps
  PlanVerify <- TemplateVerify
  MilestoneDeps <- TemplateMilestoneDeps
  Goals = {g1, g2}
  EmptyRequest = empty_request
  NoGoal = no_goal
  NoChangeBlocks = TRUE
  Commands = {"create", "plan", "continue", "loop", "auto", "review", "block", "unblock",
              "resume", "handoff", "reset"}
  MaxSteps = 2
  MayFail = TRUE
SPECIFICATION FairSpec
INVARIANTS
  MilestoneFrontier
  NothingLeftBehind
  AllWorkIsActive
  ReviewHasSubject
  PausedIsResumable
  ContinueReturns
  BlockerIsListed
  HintIsCurrent
PROPERTIES
  ContinueNeverThrows
  WorkerCanWrite
  CreateIsTransparent
  DoneStaysDone
  ContinueAdviceHelps
  UnblockAdviceHelps
  QueuedReviewCloses
  LoopEnds
  ImplementsLifecycle
