--------------------------- MODULE MCSessionFiles ---------------------------
(* The files of the plans of MCPlans. *)
EXTENDS MCHarnessRuntime, SessionFiles
=============================================================================
