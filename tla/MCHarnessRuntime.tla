-------------------------- MODULE MCHarnessRuntime --------------------------
(* One caller's runtime, with the plans of MCPlans. *)
EXTENDS StatusViews, MCPlans
=============================================================================
