--------------------------- MODULE StrategyRelease ---------------------------
(***************************************************************************)
(* The release of a champion to a target: the handoff package and its      *)
(* approval (src/src/gaon/adapters/strategy_handoff.py), the plan and the  *)
(* run that deploys it (strategy_deployment.py, with the file adapter).    *)
(*                                                                         *)
(* Every command is a process of its own on one database: clerks approve   *)
(* and reject packages, deployers run plans against one target directory.  *)
(* Each statement commits by itself, a process may die between two of      *)
(* them, and a file that is being written when the write fails is torn.    *)
(***************************************************************************)
EXTENDS Naturals

CONSTANTS
    Champions,     \* champion versions
    Packages,      \* those with a LIVE_ELIGIBLE report; one package of each
    Plans,         \* deployment request ids
    Of,            \* the package of each plan
    Clerks, Deployers,
    Nothing,       \* no champion; no strategy in the target
    Torn,          \* a file that is not JSON
    NoPlan

ASSUME ReleaseAssumption ==
    /\ Packages \subseteq Champions
    /\ Nothing \notin Champions /\ Torn \notin Packages /\ Torn # Nothing
    /\ NoPlan \notin Plans
    /\ Of \in [Plans -> Packages]

VARIABLES
    champion,      \* the active champion version of the slot
    package,       \* status of each package
    records,       \* approval and rejection records of each package
    latest,        \* the one with the latest decided_at
    clerk,         \* what each clerk is doing
    plan,          \* preflight result of each plan
    run,           \* the run record of each plan; there is one per plan
    target,        \* the active strategy file
    backup,        \* the backup file of each plan
    deployer       \* what each deployer is doing

handoff == <<package, records, latest, clerk>>
deployment == <<plan, run, target, backup, deployer>>
vars == <<champion, handoff, deployment>>

Decisions == {"approve", "reject"}
Content == Packages \cup {Nothing, Torn}
RunStatus ==
    {"none", "succeeded", "failed", "rolled_back", "rollback_failed", "blocked"}

\* deciding, recorded, checked: after get_package(), add_approval() and the
\* read of update_package(); read is the latest record at the decision.
IdleClerk == [at |-> "idle", what |-> "none", package |-> Nothing, read |-> "none"]

ClerkState ==
    {IdleClerk} \cup
    [at: {"deciding", "recorded", "checked"}, what: Decisions,
     package: Packages, read: Decisions \cup {"none"}]

\* The places of run(): found is what the target held, alone that no other
\* deployer has worked since this one began (both history).
Places ==
    {"started", "saved", "applied", "verified", "recorded",
     "restoring", "raising", "restored"}

IdleDeployer == [at |-> "idle", plan |-> NoPlan, found |-> Nothing, alone |-> FALSE]

DeployerState ==
    {IdleDeployer} \cup
    [at: Places, plan: Plans, found: Content, alone: BOOLEAN]

TypeOK ==
    /\ champion \in Champions \cup {Nothing}
    /\ package \in [Packages -> {"absent", "pending", "approved", "rejected"}]
    /\ records \in [Packages -> SUBSET Decisions]
    /\ latest \in [Packages -> Decisions \cup {"none"}]
    /\ clerk \in [Clerks -> ClerkState]
    /\ plan \in [Plans -> {"none", "passed", "blocked"}]
    /\ run \in [Plans -> RunStatus]
    /\ target \in Content
    /\ backup \in [Plans -> Content]
    /\ deployer \in [Deployers -> DeployerState]

Init ==
    /\ champion = Nothing
    /\ package = [p \in Packages |-> "absent"]
    /\ records = [p \in Packages |-> {}]
    /\ latest = [p \in Packages |-> "none"]
    /\ clerk = [c \in Clerks |-> IdleClerk]
    /\ plan = [l \in Plans |-> "none"]
    /\ run = [l \in Plans |-> "none"]
    /\ target = Nothing
    /\ backup = [l \in Plans |-> Nothing]
    /\ deployer = [d \in Deployers |-> IdleDeployer]

-----------------------------------------------------------------------------
(* The registry promotes and rolls back.                                   *)
Promote ==
    /\ champion' \in Champions
    /\ UNCHANGED <<handoff, deployment>>

(* create(): the champion, its LIVE_ELIGIBLE report, one package of them.  *)
Create(p) ==
    /\ champion = p /\ package[p] = "absent"
    /\ package' = [package EXCEPT ![p] = "pending"]
    /\ UNCHANGED <<champion, records, latest, clerk, deployment>>

-----------------------------------------------------------------------------
(* approve() and reject().                                                 *)

\* Mutant: approve() takes any package.
MayDecideAnything(what, p) ==
    package[p] # "absent" /\ (what = "reject" => package[p] # "approved")

MayDecide(what, p) ==
    /\ package[p] # "absent"
    /\ what = "approve" => package[p] # "rejected"
    /\ what = "reject" => package[p] # "approved"

Decide(c, what, p) ==
    /\ clerk[c].at = "idle"
    /\ MayDecide(what, p)
    /\ clerk' = [clerk EXCEPT ![c] =
                    [at |-> "deciding", what |-> what, package |-> p, read |-> latest[p]]]
    /\ UNCHANGED <<champion, package, records, latest, deployment>>

(* add_approval(): a second record of one kind violates its key.  Which    *)
(* record is the latest goes by decided_at, taken when the command began.  *)
Record(c) ==
    /\ clerk[c].at = "deciding"
    /\ LET p == clerk[c].package
           what == clerk[c].what IN
          /\ what \notin records[p]
          /\ records' = [records EXCEPT ![p] = @ \cup {what}]
          /\ \E newest \in {what} \cup (IF latest[p] = clerk[c].read THEN {} ELSE {latest[p]}) :
                latest' = [latest EXCEPT ![p] = newest]
    /\ clerk' = [clerk EXCEPT ![c] = [@ EXCEPT !.at = "recorded"]]
    /\ UNCHANGED <<champion, package, deployment>>

(* update_package(): a read, then an update by id.                         *)
Check(c) ==
    /\ clerk[c].at = "recorded"
    /\ package[clerk[c].package] # "approved"
    /\ clerk' = [clerk EXCEPT ![c] = [@ EXCEPT !.at = "checked"]]
    /\ UNCHANGED <<champion, package, records, latest, deployment>>

Update(c) ==
    /\ clerk[c].at = "checked"
    /\ package' = [package EXCEPT ![clerk[c].package] =
                      IF clerk[c].what = "approve" THEN "approved" ELSE "rejected"]
    /\ clerk' = [clerk EXCEPT ![c] = IdleClerk]
    /\ UNCHANGED <<champion, records, latest, deployment>>

(* The command raises on a guard, or dies; what it committed stays.        *)
GiveUp(c) ==
    /\ clerk[c].at # "idle"
    /\ clerk' = [clerk EXCEPT ![c] = IdleClerk]
    /\ UNCHANGED <<champion, package, records, latest, deployment>>

-----------------------------------------------------------------------------
(* plan().                                                                 *)

\* Mutant: only a rejected package is refused.
NotRejected(p) == package[p] \in {"pending", "approved"}

Approved(p) == package[p] = "approved" /\ latest[p] = "approve"

(* _preflight(); the health check of the target may fail as well.          *)
Plan(l) ==
    /\ plan[l] = "none" /\ package[Of[l]] # "absent"
    /\ \E healthy \in BOOLEAN :
          plan' = [plan EXCEPT ![l] =
                      IF Approved(Of[l]) /\ champion = Of[l] /\ healthy
                      THEN "passed" ELSE "blocked"]
    /\ UNCHANGED <<champion, handoff, run, target, backup, deployer>>

-----------------------------------------------------------------------------
(* run().                                                                  *)

(* has_successful_deployment()                                             *)
HasSucceeded(p) == \E l \in Plans : Of[l] = p /\ run[l] = "succeeded"

Busy(d) == deployer[d].at # "idle"

Goes(d, at) == [deployer EXCEPT ![d] = [@ EXCEPT !.at = at]]
Leaves(d) == [deployer EXCEPT ![d] = IdleDeployer]

(* add_run() replaces the record of the plan, whatever it says.            *)
Writes(l, status) == run' = [run EXCEPT ![l] = status]

Refused(l) == plan[l] = "blocked" \/ (plan[l] = "passed" /\ HasSucceeded(Of[l]))

\* Mutant: the run takes over the plan's own status.
RefuseWithPlanStatus(l) ==
    /\ Refused(l)
    /\ Writes(l, plan[l])
    /\ UNCHANGED <<champion, handoff, plan, target, backup, deployer>>

Refuse(l) ==
    /\ Refused(l)
    /\ Writes(l, "blocked")
    /\ UNCHANGED <<champion, handoff, plan, target, backup, deployer>>

Start(d, l) ==
    /\ ~Busy(d)
    /\ plan[l] = "passed" /\ ~HasSucceeded(Of[l])
    /\ LET alone == \A e \in Deployers : ~Busy(e) IN
       deployer' = [e \in Deployers |->
                       IF e = d THEN [at |-> "started", plan |-> l,
                                      found |-> Nothing, alone |-> alone]
                       ELSE [deployer[e] EXCEPT !.alone = FALSE]]
    /\ UNCHANGED <<champion, handoff, plan, run, target, backup>>

\* Mutant: a backup this plan has made before is kept.
SavedOnce(l) == IF backup[l] = Nothing THEN target ELSE backup[l]

Saved(l) == target

(* create_backup(): the file is copied, then read; a torn one raises.      *)
BackUp(d) ==
    /\ deployer[d].at = "started" /\ target # Torn
    /\ LET l == deployer[d].plan IN backup' = [backup EXCEPT ![l] = Saved(l)]
    /\ deployer' = [deployer EXCEPT ![d] = [@ EXCEPT !.at = "saved", !.found = target]]
    /\ UNCHANGED <<champion, handoff, plan, run, target>>

(* An exception before the package is applied: FAILED, nothing restored.   *)
BackUpFails(d) ==
    /\ deployer[d].at = "started"
    /\ LET l == deployer[d].plan IN
          /\ \E file \in {backup[l], target, Torn} : backup' = [backup EXCEPT ![l] = file]
          /\ Writes(l, "failed")
    /\ deployer' = Leaves(d)
    /\ UNCHANGED <<champion, handoff, plan, target>>

Apply(d) ==
    /\ deployer[d].at = "saved"
    /\ target' = Of[deployer[d].plan]
    /\ deployer' = Goes(d, "applied")
    /\ UNCHANGED <<champion, handoff, plan, run, backup>>

(* modified is still False when apply_package() raises.                    *)
ApplyFails(d) ==
    /\ deployer[d].at = "saved"
    /\ target' \in {target, Torn}
    /\ Writes(deployer[d].plan, "failed")
    /\ deployer' = Leaves(d)
    /\ UNCHANGED <<champion, handoff, plan, backup>>

Verify(d) ==
    /\ deployer[d].at = "applied" /\ target = Of[deployer[d].plan]
    /\ deployer' = Goes(d, "verified")
    /\ UNCHANGED <<champion, handoff, plan, run, target, backup>>

(* Reload, health check or verification answer no.                         *)
NotVerified(d) ==
    /\ deployer[d].at = "applied"
    /\ deployer' = Goes(d, "restoring")
    /\ UNCHANGED <<champion, handoff, plan, run, target, backup>>

Succeed(d) ==
    /\ deployer[d].at = "verified"
    /\ Writes(deployer[d].plan, "succeeded")
    /\ deployer' = Goes(d, "recorded")
    /\ UNCHANGED <<champion, handoff, plan, target, backup>>

(* The event of the success is recorded.                                   *)
Finish(d) ==
    /\ deployer[d].at = "recorded"
    /\ deployer' = Leaves(d)
    /\ UNCHANGED <<champion, handoff, plan, run, target, backup>>

(* An exception once the package is applied, the record of the success and *)
(* its event included; a rollback that raises is tried a second time.      *)
Raises(d) ==
    /\ deployer[d].at \in {"applied", "verified", "recorded", "restoring"}
    /\ target' \in IF deployer[d].at = "restoring" THEN {target, Torn} ELSE {target}
    /\ deployer' = Goes(d, "raising")
    /\ UNCHANGED <<champion, handoff, plan, run, backup>>

RollBack(d) ==
    /\ deployer[d].at \in {"restoring", "raising"}
    /\ target' = backup[deployer[d].plan]
    /\ deployer' = Goes(d, "restored")
    /\ UNCHANGED <<champion, handoff, plan, run, backup>>

RolledBack(d) ==
    /\ deployer[d].at = "restored"
    /\ Writes(deployer[d].plan, "rolled_back")
    /\ deployer' = Leaves(d)
    /\ UNCHANGED <<champion, handoff, plan, target, backup>>

RollBackFails(d) ==
    /\ deployer[d].at \in {"restoring", "raising"}
    /\ Writes(deployer[d].plan, "rollback_failed")
    /\ deployer' = Leaves(d)
    /\ UNCHANGED <<champion, handoff, plan, target, backup>>

(* The process dies, or raises out of run(): a file it was writing is torn *)
(* and no record is written.                                               *)
Dies(d) ==
    /\ Busy(d)
    /\ target' \in IF deployer[d].at \in {"saved", "restoring", "raising"}
                   THEN {target, Torn} ELSE {target}
    /\ LET l == deployer[d].plan IN
       \E file \in IF deployer[d].at = "started"
                   THEN {backup[l], target, Torn} ELSE {backup[l]} :
          backup' = [backup EXCEPT ![l] = file]
    /\ deployer' = Leaves(d)
    /\ UNCHANGED <<champion, handoff, plan, run>>

-----------------------------------------------------------------------------
Clerical(c) ==
    \/ \E what \in Decisions, p \in Packages : Decide(c, what, p)
    \/ Record(c)
    \/ Check(c)
    \/ Update(c)
    \/ GiveUp(c)

Deploy(d) ==
    \/ \E l \in Plans : Start(d, l)
    \/ BackUp(d)
    \/ BackUpFails(d)
    \/ Apply(d)
    \/ ApplyFails(d)
    \/ Verify(d)
    \/ NotVerified(d)
    \/ Succeed(d)
    \/ Finish(d)
    \/ Raises(d)
    \/ RollBack(d)
    \/ RolledBack(d)
    \/ RollBackFails(d)
    \/ Dies(d)

Next ==
    \/ Promote
    \/ \E p \in Packages : Create(p)
    \/ \E c \in Clerks : Clerical(c)
    \/ \E l \in Plans : Plan(l) \/ Refuse(l)
    \/ \E d \in Deployers : Deploy(d)

Spec == Init /\ [][Next]_vars

-----------------------------------------------------------------------------
(* Whatever is planned, applied, saved, restored or torn, and however the  *)
(* deployers mix: a package in the target or in a backup has an approval   *)
(* of its own on record (strategy_deployment.py:377-381).                  *)
OnlyApprovedOnTarget ==
    \A p \in {target} \cup {backup[l] : l \in Plans} :
        p \in Packages => "approve" \in records[p]

(* What a run is about to report is what the target holds: the package     *)
(* after a verification, what the run found there after a rollback,        *)
(* although reruns write over the plan's backup and a run that died left   *)
(* the target changed (strategy_deployment.py:347, 401).  Deployers that   *)
(* overlap are not held to it: nothing keeps them apart.                   *)
TargetAsReported ==
    \A d \in Deployers : deployer[d].alone =>
        /\ deployer[d].at \in {"verified", "recorded"} => target = Of[deployer[d].plan]
        /\ deployer[d].at = "restored" => target = deployer[d].found

(* A rejection that no running approval disputes is final, whatever other  *)
(* clerks, records and deaths come (strategy_handoff.py:324).              *)
Settled(p) ==
    /\ package[p] = "rejected"
    /\ \A c \in Clerks : clerk[c].package = p => clerk[c].what = "reject"

RejectionSticks == [][\A p \in Packages : Settled(p) => Settled(p)']_vars

(* The inductive invariant behind these properties.  Every place a package *)
(* passes on its way to the target has its approval on record:             *)
OnRecord(p) == "approve" \in records[p]

ApprovalInv ==
    /\ \A p \in Packages : package[p] = "approved" => OnRecord(p)
    /\ \A c \in Clerks :
          clerk[c].at \in {"recorded", "checked"} /\ clerk[c].what = "approve"
             => OnRecord(clerk[c].package)
    /\ \A l \in Plans : plan[l] = "passed" => OnRecord(Of[l])
    /\ \A d \in Deployers : Busy(d) => OnRecord(Of[deployer[d].plan])
    /\ OnlyApprovedOnTarget

(* While a deployer works alone the backup of its plan is what it found,   *)
(* and the target moves only by its own steps:                             *)
Told(d) ==
    /\ \A e \in Deployers : e # d => ~Busy(e)
    /\ deployer[d].at = "saved" => target = deployer[d].found
    /\ deployer[d].at \in {"saved", "applied", "verified", "recorded", "restoring", "raising"}
          => backup[deployer[d].plan] = deployer[d].found
    /\ deployer[d].at \in {"verified", "recorded"} => target = Of[deployer[d].plan]
    /\ deployer[d].at = "restored" => target = deployer[d].found

ReportInv == \A d \in Deployers : deployer[d].alone => Busy(d) /\ Told(d)

ReleaseInv == TypeOK /\ ApprovalInv /\ ReportInv

(* "duplicate deployment prevented" (strategy_deployment.py:341): a plan    *)
(* whose run was refused because its package is deployed is not started    *)
(* later on.                                                               *)
DuplicatePrevented ==
    [][\A d \in Deployers, l \in Plans :
          Start(d, l) => run[l] # "blocked"]_vars
=============================================================================
