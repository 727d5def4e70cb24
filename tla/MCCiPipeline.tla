---------------------------- MODULE MCCiPipeline ----------------------------
(***************************************************************************)
(* Instances of CiPipeline for TLC.                                        *)
(***************************************************************************)
EXTENDS CiPipeline, TLC

CONSTANTS c1, c2, c3, a, b

Symmetry == Permutations({a, b})

Workflow(n) == [kind |-> "workflow", push |-> TRUE, jobs |-> n]
Manual      == [Workflow(1) EXCEPT !.push = FALSE]
Broken      == [Workflow(1) EXCEPT !.kind = "invalid"]
Readme      == [Workflow(1) EXCEPT !.kind = "other"]

\* A commit with two workflows, one with two jobs in one, and one with nothing
\* to run.
MCDir == c1 :> <<Workflow(1), Broken, Workflow(1)>>
           @@ c2 :> <<Workflow(2), Readme>>
           @@ c3 :> <<Manual>>
=============================================================================
