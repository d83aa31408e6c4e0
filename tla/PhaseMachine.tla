---------------------------- MODULE PhaseMachine ----------------------------
(***************************************************************************)
(* The phases of a run and the transitions transitionPhase accepts.  It    *)
(* throws on any other pair, and staying in a phase is always accepted.    *)
(* Several handlers of the runtime assign the phase directly and bypass    *)
(* the table; they are modelled where they occur.                          *)
(***************************************************************************)
Phases == {"idle", "clarifying", "planning", "implementing", "verifying",
           "reviewing", "paused", "completed", "cancelled"}

AllowedTransitions ==
  [p \in Phases |->
     CASE p = "idle"         -> {"clarifying", "planning", "implementing", "cancelled"}
       [] p = "clarifying"   -> {"planning", "paused", "cancelled"}
       [] p = "planning"     -> {"implementing", "paused", "cancelled"}
       [] p = "implementing" -> {"verifying", "paused", "cancelled"}
       [] p = "verifying"    -> {"implementing", "reviewing", "paused", "cancelled"}
       [] p = "reviewing"    -> {"implementing", "planning", "paused", "completed",
                                 "cancelled"}
       [] p = "paused"       -> {"clarifying", "planning", "implementing", "verifying",
                                 "reviewing", "cancelled"}
       [] OTHER              -> {}]

CanTransition(from, to) == from = to \/ to \in AllowedTransitions[from]

\* clearHandoff, runAuto and reset call a run active outside these phases.
InactivePhases == {"idle", "completed", "cancelled"}
=============================================================================
