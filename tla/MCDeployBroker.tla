--------------------------- MODULE MCDeployBroker ---------------------------
(* Two deployment runs, one of the other commit and one that goes back.    *)
EXTENDS DeployBroker, TLC

CONSTANTS s0, s1, run1, run2

MCShas == {s0, s1}
MCRuns == {run1, run2}
MCTarget == (run1 :> s1) @@ (run2 :> s0)
=============================================================================
