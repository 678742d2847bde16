----------------------------- MODULE ReleaseSlot -----------------------------
(***************************************************************************)
(* What the deployment pipeline promises of a host, without its processes: *)
(* the host serves one commit; a rollout opens towards another commit and  *)
(* ends by serving that one, by serving the old one again, or by blocking  *)
(* every further rollout until an administrator steps in.                  *)
(***************************************************************************)
CONSTANTS Shas, Initial, NoGoal

VARIABLES
  state,    \* "serving", "changing" or "blocked"
  version,  \* the commit served, or the one to return to
  goal      \* the commit a rollout aims at

slot == <<state, version, goal>>

Init == state = "serving" /\ version = Initial /\ goal = NoGoal

Open(sha) ==
  /\ state = "serving"
  /\ sha # version
  /\ state' = "changing"
  /\ goal' = sha
  /\ UNCHANGED version

Close(sha) ==
  /\ state = "changing"
  /\ state' = "serving"
  /\ version' = sha
  /\ goal' = NoGoal

Commit  == Close(goal)
Restore == Close(version)

Block ==
  /\ state = "changing"
  /\ state' = "blocked"
  /\ UNCHANGED <<version, goal>>

Next == (\E sha \in Shas : Open(sha)) \/ Commit \/ Restore \/ Block

Spec == Init /\ [][Next]_slot
FairSpec == Spec /\ WF_slot(Commit \/ Restore \/ Block)
=============================================================================
