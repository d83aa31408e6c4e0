\* Two prompts of one agent, of a local or a remote model, which calls tools the
\* agent has or not, up to two at a time and in two rounds.
CONSTANTS
  ToolNames = {"read", "lookup"}
  MaxCalls = 2
  Tools = {"read"}
  MaxIterations = 2
  MaxPrompts = 2
SPECIFICATION AgentSpec
CHECK_DEADLOCK FALSE
INVARIANTS
  RequestIsComplete
  TurnIsBounded
PROPERTIES
  ImplementsTurn
  PromptReturns
