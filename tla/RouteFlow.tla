------------------------------ MODULE RouteFlow ------------------------------
(***************************************************************************)
(* routeFlow: which flow and phase a request of handleInput asks for.  The *)
(* text itself is abstracted to what classifyWork reports about it: its    *)
(* work class and whether it is ambiguous.                                 *)
(***************************************************************************)
EXTENDS PhaseMachine

\* "auto" also stands for /review and for text with no known command: routeFlow
\* has no branch of its own for them.
Modes == {"auto", "direct", "clarify", "plan", "execute", "verify", "longrun"}

WorkClasses == {"trivial", "standard", "risky", "long_running"}

RoutedFlows == {"direct", "disciplined_single", "worker_validator", "milestone"}

\* An ambiguous request is never trivial, and empty text is trivial.
Classifications ==
  {c \in [workClass : WorkClasses, ambiguous : BOOLEAN, empty : BOOLEAN] :
     /\ c.ambiguous => c.workClass # "trivial"
     /\ c.empty => c.workClass = "trivial"}

DefaultFlowForClass(workClass) ==
  CASE workClass = "trivial"      -> "direct"
    [] workClass = "risky"        -> "worker_validator"
    [] workClass = "long_running" -> "milestone"
    [] OTHER                      -> "disciplined_single"

DefaultPhaseForFlow(flow) == IF flow = "direct" THEN "implementing" ELSE "planning"

\* requirePlan and requireVerificationTarget.
Blocked(mode, c, hasPlan, hasTarget) ==
  \/ mode = "verify" /\ ~hasTarget
  \/ mode = "execute" /\ c.workClass # "trivial" /\ ~hasPlan

SelectedFlow(mode, c) ==
  IF mode = "longrun" THEN "milestone" ELSE DefaultFlowForClass(c.workClass)

NextPhase(mode, c) ==
  CASE mode = "verify"  -> "verifying"
    [] mode = "execute" -> "implementing"
    [] mode = "clarify" -> "clarifying"
    [] mode \in {"plan", "longrun"} -> "planning"
    [] mode = "auto" /\ c.ambiguous -> "clarifying"
    [] OTHER -> DefaultPhaseForFlow(DefaultFlowForClass(c.workClass))
=============================================================================
