-------------------------- MODULE MCStrategyRelease --------------------------
(* One package and its plan, which is run again and again, a champion      *)
(* without a package, two clerks and two deployers.                        *)
EXTENDS StrategyRelease, TLC

CONSTANTS a, b, plan1, c1, c2, d1, d2

MCChampions == {a, b}
MCPackages == {a}
MCPlans == {plan1}
MCOf == plan1 :> a
MCClerks == {c1, c2}
MCDeployers == {d1, d2}
OneDeployer == {d1}

Alike == Permutations(MCClerks) \cup Permutations(MCDeployers)
=============================================================================
