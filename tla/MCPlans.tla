------------------------------ MODULE MCPlans ------------------------------
(* Plans for model checking, in the terms of the constants of HarnessSession. *)

\* The plan every built-in template produces: analysis, implementation and
\* independent verification, one task per milestone, each waiting for the one
\* before it.
TemplateMilestone == <<1, 2, 3>>
TemplateKind == <<"analysis", "implementation", "verification">>
TemplateDeps == <<{}, {1}, {2}>>
TemplateVerify == <<{"manual"}, {"command"}, {"command"}>>
TemplateMilestoneDeps == <<{}, {1}, {2}>>

\* A plan the ledger can hold but no template writes: the first milestone has
\* two tasks, of which the second waits for the task of the second milestone.
CrossedMilestone == <<1, 2, 1>>
CrossedMilestoneDeps == <<{}, {1}>>

\* The template without its first task, for the runs of several callers.
ShortMilestone == <<1, 2>>
ShortKind == <<"implementation", "verification">>
ShortDeps == <<{}, {1}>>
ShortVerify == <<{"manual", "command"}, {"command"}>>
ShortMilestoneDeps == <<{}, {1}>>

\* The template's milestones in an order that makes the second wait for the third.
WaitingMilestoneDeps == <<{}, {3}, {1}>>
=============================================================================
