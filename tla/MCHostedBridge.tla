--------------------------- MODULE MCHostedBridge ---------------------------
(* The plans of MCPlans, worked on by several callers. *)
EXTENDS HostedBridge, MCPlans

\* One caller works a plan off, the other sends requests, checks and resets.
SharedCommands ==
  [c \in Callers |->
     IF c = "driver" THEN {"plan", "continue", "review", "resume"}
     ELSE {"input", "verify", "handoff", "clear_handoff", "reset"}]

\* Both work a plan off.
LoopCommands == [c \in Callers |-> {"plan", "continue", "verify", "review"}]
=============================================================================
