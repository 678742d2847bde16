-------------------------- MODULE MCModeTransition --------------------------
(* Two approval tickets, three instants, tickets that live one instant.    *)
EXTENDS ModeTransition, TLC

CONSTANTS t1, t2

MCTickets == {t1, t2}
MCTtl == {1}
Symmetry == Permutations(MCTickets)
=============================================================================
