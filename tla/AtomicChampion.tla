---------------------------- MODULE AtomicChampion ----------------------------
(***************************************************************************)
(* What the champion registry promises of one slot: the sequence of the    *)
(* champions there have been only grows, one activation at a time.  A      *)
(* bootstrap fills an empty slot, a promotion brings in the challenger of  *)
(* an approved request that is not the champion already, a rollback brings *)
(* back the champion before the present one and nothing else.              *)
(***************************************************************************)
EXTENDS Naturals, Sequences

CONSTANTS Fingerprints, Promotions, Challenger

VARIABLES
  champions,  \* [fp, kind] of each activation, oldest first; the last one is active
  approved    \* promotions explicitly approved

slot == <<champions, approved>>

Init == champions = <<>> /\ approved = {}

Activate(fp, kind) ==
  /\ champions' = Append(champions, [fp |-> fp, kind |-> kind])
  /\ UNCHANGED approved

Approve(p) ==
  /\ approved' = approved \cup {p}
  /\ UNCHANGED champions

Bootstrap(fp) ==
  /\ champions = <<>>
  /\ Activate(fp, "bootstrap")

Promote(p) ==
  /\ p \in approved
  /\ champions # <<>> => Challenger[p] # champions[Len(champions)].fp
  /\ Activate(Challenger[p], "promotion")

Rollback ==
  /\ Len(champions) >= 2
  /\ Activate(champions[Len(champions) - 1].fp, "rollback")

Next ==
  \/ \E fp \in Fingerprints : Bootstrap(fp)
  \/ \E p \in Promotions : Approve(p) \/ Promote(p)
  \/ Rollback

Spec == Init /\ [][Next]_slot
=============================================================================
