--------------------------- MODULE MCStrategyRollout ---------------------------
(* Two versions of the long side, one of the short side and an undirected  *)
(* one, rolled out and back in any order.                                  *)
EXTENDS StrategyRollout

MCDirection == <<"LONG", "SHORT", "LONG", "none">>
=============================================================================
