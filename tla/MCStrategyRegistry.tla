-------------------------- MODULE MCStrategyRegistry --------------------------
(* Two research runs of one family, two promoters, three approvals.          *)
EXTENDS StrategyRegistry, TLC

CONSTANTS run1, run2, p1, p2, a1, a2, a3

MCRuns == {run1, run2}
MCOrder == <<run1, run2>>
MCPromoters == {p1, p2}
MCApprovals == {a1, a2, a3}
=============================================================================
