\* Two calls of the host in flight on one runtime: one caller works a plan off, the other
\* sends requests, checks, handoffs and resets, and either may overtake the other at any
\* of its awaits.
CONSTANTS
  NumTasks = 2
  NumMilestones = 2
  PlanMilestone <- ShortMilestone
  PlanKind <- ShortKind
  PlanDeps <- ShortDeps
  PlanVerify <- ShortVerify
  MilestoneDeps <- ShortMilestoneDeps
  Goals = {g1}
  EmptyRequest = empty_request
  NoGoal = no_goal
  NoChangeBlocks = TRUE
  Commands <- SharedCommands
  Callers = {"driver", "person"}
SPECIFICATION HostedSpec
INVARIANTS
  LedgerFrontier
  CopiesAgree
  ResumeIsAccepted
