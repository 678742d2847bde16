-------------------------- MODULE MCChampionRegistry --------------------------
(* Two promotions with different challengers over one slot.                *)
EXTENDS ChampionRegistry, TLC

CONSTANTS c1, c2, p1, p2, fp1, fp2

MCClients == {c1, c2}
MCPromotions == {p1, p2}
MCFingerprints == {fp1, fp2}
MCChallenger == p1 :> fp1 @@ p2 :> fp2
=============================================================================
