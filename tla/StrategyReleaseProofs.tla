------------------------ MODULE StrategyReleaseProofs ------------------------
(* Proofs about StrategyRelease, for any sets of packages, plans, clerks   *)
(* and deployers.                                                          *)
EXTENDS StrategyRelease, TLAPS

-----------------------------------------------------------------------------
(* Types.                                                                  *)

LEMMA InitTyping == ASSUME Init PROVE TypeOK
  BY ReleaseAssumption
     DEF Init, TypeOK, ClerkState, DeployerState, IdleClerk, IdleDeployer,
         Places, Content, RunStatus, Decisions

LEMMA ClericalTyping ==
  ASSUME TypeOK, NEW c \in Clerks, Clerical(c) PROVE TypeOK'
  <1> USE DEF TypeOK, Decisions
  <1> IdleClerk \in ClerkState
    BY DEF IdleClerk, ClerkState
  <1>1. CASE \E what \in Decisions, p \in Packages : Decide(c, what, p)
    BY <1>1 DEF Decide, ClerkState, deployment
  <1>2. CASE Record(c)
    <2> DEFINE s == clerk[c]
               t == [s EXCEPT !.at = "recorded"]
    <2>1. /\ s.at = "deciding" /\ s.what \in Decisions /\ s.package \in Packages
          /\ s.read \in Decisions \cup {"none"}
      BY <1>2 DEF Record, ClerkState, IdleClerk
    <2>2. t \in ClerkState
      <3>1. s \in [at: {"deciding", "recorded", "checked"}, what: Decisions,
                   package: Packages, read: Decisions \cup {"none"}]
        BY <2>1 DEF ClerkState, IdleClerk
      <3> QED BY <3>1 DEF ClerkState
    <2>3. clerk' = [clerk EXCEPT ![c] = t] /\ UNCHANGED <<champion, package, deployment>>
      BY <1>2 DEF Record
    <2>4. records' \in [Packages -> SUBSET Decisions]
      BY <1>2, <2>1 DEF Record
    <2>5. latest' \in [Packages -> Decisions \cup {"none"}]
      BY <1>2, <2>1 DEF Record
    <2> HIDE DEF t
    <2>6. clerk' \in [Clerks -> ClerkState]
      BY <2>2, <2>3
    <2> QED BY <2>3, <2>4, <2>5, <2>6 DEF deployment
  <1>3. CASE Check(c)
    <2> DEFINE t == [clerk[c] EXCEPT !.at = "checked"]
    <2>1. t \in ClerkState
      BY <1>3 DEF Check, ClerkState, IdleClerk
    <2>2. clerk' = [clerk EXCEPT ![c] = t]
      BY <1>3 DEF Check
    <2> HIDE DEF t
    <2> QED BY <1>3, <2>1, <2>2 DEF Check, deployment
  <1>4. CASE Update(c)
    BY <1>4 DEF Update, deployment
  <1>5. CASE GiveUp(c)
    BY <1>5 DEF GiveUp, deployment
  <1> QED BY <1>1, <1>2, <1>3, <1>4, <1>5 DEF Clerical

LEMMA IdleTyped == IdleDeployer \in DeployerState
  BY DEF DeployerState

(* What a deployer at work is, and where it goes.                          *)
LEMMA AtWork ==
  ASSUME TypeOK, NEW d \in Deployers, Busy(d)
  PROVE  /\ deployer[d].at \in Places /\ deployer[d].plan \in Plans
         /\ deployer[d].found \in Content /\ deployer[d].alone \in BOOLEAN
         /\ deployer[d] \in [at: Places, plan: Plans, found: Content, alone: BOOLEAN]
  BY DEF TypeOK, DeployerState, IdleDeployer, Busy

LEMMA GoesOn ==
  ASSUME TypeOK, NEW d \in Deployers, Busy(d), NEW at \in Places,
         deployer' = Goes(d, at)
  PROVE  /\ deployer' \in [Deployers -> DeployerState]
         /\ \A e \in Deployers : e # d => deployer'[e] = deployer[e]
         /\ deployer'[d].at = at
         /\ deployer'[d].plan = deployer[d].plan
         /\ deployer'[d].found = deployer[d].found
         /\ deployer'[d].alone = deployer[d].alone
  <1> DEFINE r == deployer[d]
             t == [r EXCEPT !.at = at]
  <1>1. r \in [at: Places, plan: Plans, found: Content, alone: BOOLEAN]
    BY AtWork
  <1>2. /\ t \in [at: Places, plan: Plans, found: Content, alone: BOOLEAN]
        /\ t.at = at /\ t.plan = r.plan /\ t.found = r.found /\ t.alone = r.alone
    BY <1>1
  <1>3. deployer' = [deployer EXCEPT ![d] = t]
    BY DEF Goes
  <1>4. t \in DeployerState
    BY <1>2 DEF DeployerState
  <1> HIDE DEF t
  <1> QED BY <1>2, <1>3, <1>4 DEF TypeOK

LEMMA Leaving ==
  ASSUME TypeOK, NEW d \in Deployers, deployer' = Leaves(d)
  PROVE  /\ deployer' \in [Deployers -> DeployerState]
         /\ deployer'[d] = IdleDeployer
         /\ \A e \in Deployers : e # d => deployer'[e] = deployer[e]
  BY IdleTyped DEF Leaves, TypeOK

LEMMA Starting ==
  ASSUME TypeOK, NEW d \in Deployers, NEW l \in Plans, Start(d, l)
  PROVE  /\ deployer' \in [Deployers -> DeployerState]
         /\ deployer'[d].at = "started" /\ deployer'[d].plan = l
         /\ deployer'[d].alone <=> \A e \in Deployers : ~Busy(e)
         /\ \A e \in Deployers : e # d =>
               /\ deployer'[e].at = deployer[e].at
               /\ deployer'[e].plan = deployer[e].plan
               /\ deployer'[e].alone = FALSE
  <1> DEFINE new == [at |-> "started", plan |-> l, found |-> Nothing,
                     alone |-> \A e \in Deployers : ~Busy(e)]
             old(e) == [deployer[e] EXCEPT !.alone = FALSE]
  <1>1. deployer' = [e \in Deployers |-> IF e = d THEN new ELSE old(e)]
    BY DEF Start
  <1>2. new \in DeployerState /\ new.at = "started" /\ new.plan = l
    BY DEF DeployerState, Places, Content
  <1>3. ASSUME NEW e \in Deployers
        PROVE  /\ old(e) \in DeployerState
               /\ old(e).at = deployer[e].at
               /\ old(e).plan = deployer[e].plan
               /\ old(e).alone = FALSE
    <2>1. CASE Busy(e)
      <3>1. deployer[e] \in [at: Places, plan: Plans, found: Content, alone: BOOLEAN]
        BY <2>1, AtWork
      <3> QED BY <3>1 DEF DeployerState
    <2>2. CASE ~Busy(e)
      <3>1. deployer[e] = IdleDeployer
        BY <2>2 DEF TypeOK, DeployerState, Places, Busy
      <3>2. [IdleDeployer EXCEPT !.alone = FALSE] = IdleDeployer
        <4> DEFINE t == [IdleDeployer EXCEPT !.alone = FALSE]
        <4>1. t \in [at: {"idle"}, plan: {NoPlan}, found: {Nothing}, alone: {FALSE}]
          BY DEF IdleDeployer
        <4>2. t = [at |-> t.at, plan |-> t.plan, found |-> t.found, alone |-> t.alone]
          <5> HIDE DEF t
          <5> QED BY <4>1
        <4>3. t.at = "idle" /\ t.plan = NoPlan /\ t.found = Nothing /\ t.alone = FALSE
          <5> HIDE DEF t
          <5> QED BY <4>1
        <4> QED BY <4>2, <4>3 DEF IdleDeployer
      <3>3. old(e) = IdleDeployer
        BY <3>1, <3>2
      <3> QED BY <3>1, <3>3 DEF DeployerState, IdleDeployer
    <2> QED BY <2>1, <2>2
  <1>4. new.alone <=> \A e \in Deployers : ~Busy(e)
    OBVIOUS
  <1> HIDE DEF new, old
  <1> QED BY <1>1, <1>2, <1>3, <1>4

LEMMA DeployTyping ==
  ASSUME TypeOK, NEW d \in Deployers, Deploy(d) PROVE TypeOK'
  <1> USE DEF handoff, Writes
  <1>f. Of \in [Plans -> Packages] /\ Packages \subseteq Content /\ Torn \in Content
    BY ReleaseAssumption DEF Content
  <1>1. CASE \E l \in Plans : Start(d, l)
    <2>1. PICK l \in Plans : Start(d, l)
      BY <1>1
    <2> QED BY <2>1, Starting DEF Start, TypeOK
  <1>2. CASE BackUp(d)
    <2> DEFINE r == deployer[d]
               t == [r EXCEPT !.at = "saved", !.found = target]
    <2>1. /\ r \in [at: Places, plan: Plans, found: Content, alone: BOOLEAN]
          /\ r.plan \in Plans /\ target \in Content
      BY <1>2, AtWork DEF BackUp, Busy, TypeOK
    <2>2. t \in [at: Places, plan: Plans, found: Content, alone: BOOLEAN]
      BY <2>1 DEF Places
    <2>3. t \in DeployerState
      BY <2>2 DEF DeployerState
    <2>4. deployer' = [deployer EXCEPT ![d] = t]
      BY <1>2 DEF BackUp
    <2> HIDE DEF t
    <2> QED BY <1>2, <2>1, <2>3, <2>4 DEF BackUp, Saved, TypeOK
  <1>3. CASE BackUpFails(d)
    <2>1. deployer[d].plan \in Plans
      BY <1>3, AtWork DEF BackUpFails, Busy
    <2> QED BY <1>f, <1>3, <2>1, Leaving DEF BackUpFails, TypeOK, RunStatus
  <1>4. CASE Apply(d)
    <2>1. deployer[d].plan \in Plans /\ Busy(d)
      BY <1>4, AtWork DEF Apply, Busy
    <2>2. deployer' \in [Deployers -> DeployerState]
      BY <1>4, <2>1, GoesOn DEF Apply, Places
    <2> QED BY <1>f, <1>4, <2>1, <2>2 DEF Apply, TypeOK
  <1>5. CASE ApplyFails(d)
    BY <1>f, <1>5, Leaving DEF ApplyFails, TypeOK, RunStatus
  <1>6. CASE Verify(d)
    <2>1. deployer' \in [Deployers -> DeployerState]
      BY <1>6, GoesOn DEF Verify, Places, Busy
    <2> QED BY <1>6, <2>1 DEF Verify, TypeOK
  <1>7. CASE NotVerified(d)
    <2>1. deployer' \in [Deployers -> DeployerState]
      BY <1>7, GoesOn DEF NotVerified, Places, Busy
    <2> QED BY <1>7, <2>1 DEF NotVerified, TypeOK
  <1>8. CASE Succeed(d)
    <2>1. deployer' \in [Deployers -> DeployerState]
      BY <1>8, GoesOn DEF Succeed, Places, Busy
    <2> QED BY <1>8, <2>1 DEF Succeed, TypeOK, RunStatus
  <1>9. CASE Finish(d)
    BY <1>9, Leaving DEF Finish, TypeOK
  <1>10. CASE Raises(d)
    <2>1. deployer' \in [Deployers -> DeployerState]
      BY <1>10, GoesOn DEF Raises, Places, Busy
    <2> QED BY <1>f, <1>10, <2>1 DEF Raises, TypeOK
  <1>11. CASE RollBack(d)
    <2>1. deployer' \in [Deployers -> DeployerState] /\ deployer[d].plan \in Plans
      BY <1>11, GoesOn, AtWork DEF RollBack, Places, Busy
    <2> QED BY <1>11, <2>1 DEF RollBack, TypeOK
  <1>12. CASE RolledBack(d)
    BY <1>12, Leaving DEF RolledBack, TypeOK, RunStatus
  <1>13. CASE RollBackFails(d)
    BY <1>13, Leaving DEF RollBackFails, TypeOK, RunStatus
  <1>14. CASE Dies(d)
    <2>1. deployer[d].plan \in Plans
      BY <1>14, AtWork DEF Dies
    <2> QED BY <1>f, <1>14, <2>1, Leaving DEF Dies, TypeOK
  <1> QED BY <1>1, <1>2, <1>3, <1>4, <1>5, <1>6, <1>7, <1>8, <1>9, <1>10, <1>11,
             <1>12, <1>13, <1>14 DEF Deploy

(* Types are kept, by every command and every failure of one.              *)
THEOREM ReleaseTyping == Spec => []TypeOK
  <1>1. ASSUME TypeOK, [Next]_vars PROVE TypeOK'
    <2>1. CASE Promote
      BY <1>1, <2>1 DEF Promote, TypeOK, handoff, deployment
    <2>2. CASE \E p \in Packages : Create(p)
      BY <1>1, <2>2 DEF Create, TypeOK, deployment
    <2>3. CASE \E c \in Clerks : Clerical(c)
      BY <1>1, <2>3, ClericalTyping
    <2>4. CASE \E l \in Plans : Plan(l) \/ Refuse(l)
      BY <1>1, <2>4 DEF Plan, Refuse, Writes, RunStatus, TypeOK, handoff
    <2>5. CASE \E d \in Deployers : Deploy(d)
      BY <1>1, <2>5, DeployTyping
    <2>6. CASE UNCHANGED vars
      BY <1>1, <2>6 DEF vars, handoff, deployment, TypeOK
    <2> QED BY <1>1, <2>1, <2>2, <2>3, <2>4, <2>5, <2>6 DEF Next
  <1> QED BY <1>1, InitTyping, PTL DEF Spec

-----------------------------------------------------------------------------
(* What may be deployed.  Every place a package passes on its way to the   *)
(* target has its approval on record: a record is never deleted.           *)

LEMMA ApprovalClerical ==
  ASSUME TypeOK, ApprovalInv, NEW c \in Clerks, Clerical(c) PROVE ApprovalInv'
  <1> USE DEF ApprovalInv, OnRecord, OnlyApprovedOnTarget, deployment, Busy
  <1>f. Of \in [Plans -> Packages]
    BY ReleaseAssumption
  <1>1. CASE \E what \in Decisions, p \in Packages : Decide(c, what, p)
    BY <1>1 DEF Decide, TypeOK
  <1>2. CASE Record(c)
    <2> DEFINE q == clerk[c].package
    <2>1. /\ q \in Packages
          /\ records' = [records EXCEPT ![q] = @ \cup {clerk[c].what}]
          /\ UNCHANGED <<package, plan, target, backup, deployer>>
      BY <1>2 DEF Record, TypeOK, ClerkState, IdleClerk
    <2>2. \A p \in Packages : OnRecord(p) => OnRecord(p)'
      BY <2>1 DEF TypeOK
    <2>3. clerk'[c].what = clerk[c].what /\ clerk'[c].package = q
      <3> DEFINE t == [clerk[c] EXCEPT !.at = "recorded"]
      <3>1. clerk[c] \in [at: {"deciding", "recorded", "checked"}, what: Decisions,
                          package: Packages, read: Decisions \cup {"none"}]
        BY <1>2 DEF Record, TypeOK, ClerkState, IdleClerk
      <3>2. t.what = clerk[c].what /\ t.package = q
        BY <3>1
      <3>3. clerk' = [clerk EXCEPT ![c] = t]
        BY <1>2 DEF Record
      <3> HIDE DEF t
      <3> QED BY <3>2, <3>3 DEF TypeOK
    <2>4. ASSUME NEW e \in Clerks,
                 clerk'[e].at \in {"recorded", "checked"}, clerk'[e].what = "approve"
          PROVE  OnRecord(clerk[e].package)' /\ clerk'[e].package = clerk[e].package
      <3>1. CASE e = c
        BY <2>1, <2>3, <2>4, <3>1 DEF TypeOK
      <3>2. CASE e # c
        <4>1. clerk'[e] = clerk[e]
          BY <1>2, <3>2 DEF Record, TypeOK
        <4>2. clerk[e].package \in Packages
          BY <4>1, <2>4 DEF TypeOK, ClerkState, IdleClerk
        <4> QED BY <4>1, <4>2, <2>2, <2>4
      <3> QED BY <3>1, <3>2
    <2>5. \A d \in Deployers : Busy(d) => deployer[d].plan \in Plans
      BY AtWork
    <2> QED BY <1>f, <2>1, <2>2, <2>4, <2>5 DEF TypeOK
  <1>3. CASE Check(c)
    <2>1. /\ clerk[c].at = "recorded"
          /\ clerk' = [clerk EXCEPT ![c] = [clerk[c] EXCEPT !.at = "checked"]]
          /\ UNCHANGED <<package, records, plan, target, backup, deployer>>
      BY <1>3 DEF Check
    <2>2. ASSUME NEW e \in Clerks
          PROVE  /\ clerk'[e].what = clerk[e].what
                 /\ clerk'[e].package = clerk[e].package
                 /\ clerk'[e].at = clerk[e].at \/ clerk[e].at = "recorded"
      <3> DEFINE t == [clerk[c] EXCEPT !.at = "checked"]
      <3>1. clerk[c] \in [at: {"deciding", "recorded", "checked"}, what: Decisions,
                          package: Packages, read: Decisions \cup {"none"}]
        BY <2>1 DEF TypeOK, ClerkState, IdleClerk
      <3>2. t.what = clerk[c].what /\ t.package = clerk[c].package
        BY <3>1
      <3> HIDE DEF t
      <3> QED BY <2>1, <3>2 DEF TypeOK
    <2> QED BY <2>1, <2>2
  <1>4. CASE Update(c)
    <2>1. /\ clerk[c].at = "checked" /\ clerk[c].package \in Packages
          /\ UNCHANGED <<records, plan, target, backup, deployer>>
      BY <1>4 DEF Update, TypeOK, ClerkState, IdleClerk
    <2>2. \A p \in Packages : package'[p] = "approved" => OnRecord(p)
      BY <1>4, <2>1 DEF Update, TypeOK
    <2>3. \A e \in Clerks : clerk'[e] = clerk[e] \/ clerk'[e].at = "idle"
      BY <1>4 DEF Update, TypeOK, IdleClerk
    <2> QED BY <2>1, <2>2, <2>3
  <1>5. CASE GiveUp(c)
    <2>1. \A e \in Clerks : clerk'[e] = clerk[e] \/ clerk'[e].at = "idle"
      BY <1>5 DEF GiveUp, TypeOK, IdleClerk
    <2> QED BY <1>5, <2>1 DEF GiveUp
  <1> QED BY <1>1, <1>2, <1>3, <1>4, <1>5 DEF Clerical

(* What a deployer leaves behind in the files comes from its package, the  *)
(* target or a backup.                                                     *)
LEMMA DeployEffect ==
  ASSUME TypeOK, NEW d \in Deployers, Deploy(d), ~(\E l \in Plans : Start(d, l))
  PROVE  /\ UNCHANGED <<package, records, clerk, plan>>
         /\ Busy(d) /\ deployer[d].plan \in Plans
         /\ target' \in {target, Torn, Of[deployer[d].plan], backup[deployer[d].plan]}
         /\ \A l \in Plans : backup'[l] \in {backup[l], target, Torn}
         /\ \A e \in Deployers : e # d => deployer'[e] = deployer[e]
         /\ deployer'[d].at = "idle" \/ deployer'[d].plan = deployer[d].plan
  <1> USE DEF handoff
  <1>b. Busy(d)
    BY DEF Deploy, BackUp, BackUpFails, Apply, ApplyFails, Verify, NotVerified, Succeed,
           Finish, Raises, RollBack, RolledBack, RollBackFails, Dies, Busy
  <1>p. deployer[d].plan \in Plans
    BY <1>b, AtWork
  <1>l. ASSUME deployer' = Leaves(d)
        PROVE  /\ \A e \in Deployers : e # d => deployer'[e] = deployer[e]
               /\ deployer'[d].at = "idle"
    BY <1>l, Leaving DEF IdleDeployer
  <1>g. ASSUME NEW at \in Places, deployer' = Goes(d, at)
        PROVE  /\ \A e \in Deployers : e # d => deployer'[e] = deployer[e]
               /\ deployer'[d].plan = deployer[d].plan
    BY <1>g, <1>b, GoesOn
  <1>2. CASE BackUp(d)
    <2> DEFINE t == [deployer[d] EXCEPT !.at = "saved", !.found = target]
    <2>1. deployer[d] \in [at: Places, plan: Plans, found: Content, alone: BOOLEAN]
      BY <1>b, AtWork
    <2>2. t.plan = deployer[d].plan
      BY <2>1
    <2>3. deployer' = [deployer EXCEPT ![d] = t]
      BY <1>2 DEF BackUp
    <2> HIDE DEF t
    <2> QED BY <1>2, <1>b, <1>p, <2>2, <2>3 DEF BackUp, Saved, TypeOK
  <1>3. CASE BackUpFails(d)
    BY <1>3, <1>b, <1>p, <1>l DEF BackUpFails, TypeOK
  <1>4. CASE Apply(d)
    BY <1>4, <1>b, <1>p, <1>g DEF Apply, Places
  <1>5. CASE ApplyFails(d)
    BY <1>5, <1>b, <1>p, <1>l DEF ApplyFails
  <1>6. CASE Verify(d)
    BY <1>6, <1>b, <1>p, <1>g DEF Verify, Places
  <1>7. CASE NotVerified(d)
    BY <1>7, <1>b, <1>p, <1>g DEF NotVerified, Places
  <1>8. CASE Succeed(d)
    BY <1>8, <1>b, <1>p, <1>g DEF Succeed, Places
  <1>9. CASE Finish(d)
    BY <1>9, <1>b, <1>p, <1>l DEF Finish
  <1>10. CASE Raises(d)
    BY <1>10, <1>b, <1>p, <1>g DEF Raises, Places
  <1>11. CASE RollBack(d)
    BY <1>11, <1>b, <1>p, <1>g DEF RollBack, Places
  <1>12. CASE RolledBack(d)
    BY <1>12, <1>b, <1>p, <1>l DEF RolledBack
  <1>13. CASE RollBackFails(d)
    BY <1>13, <1>b, <1>p, <1>l DEF RollBackFails
  <1>14. CASE Dies(d)
    BY <1>14, <1>b, <1>p, <1>l DEF Dies, TypeOK
  <1> QED BY <1>2, <1>3, <1>4, <1>5, <1>6, <1>7, <1>8, <1>9, <1>10, <1>11,
             <1>12, <1>13, <1>14 DEF Deploy

LEMMA ApprovalDeploy ==
  ASSUME TypeOK, ApprovalInv, NEW d \in Deployers, Deploy(d) PROVE ApprovalInv'
  <1>t. Torn \notin Packages /\ Of \in [Plans -> Packages]
    BY ReleaseAssumption
  <1>1. CASE \E l \in Plans : Start(d, l)
    <2>1. PICK l \in Plans : Start(d, l)
      BY <1>1
    <2>2. /\ plan[l] = "passed" /\ UNCHANGED <<package, records, clerk, plan, target, backup>>
      BY <2>1 DEF Start, handoff
    <2>3. /\ deployer'[d].plan = l
          /\ \A e \in Deployers : e # d => deployer'[e].at = deployer[e].at
                                       /\ deployer'[e].plan = deployer[e].plan
      BY <2>1, Starting
    <2>4. OnRecord(Of[l])
      BY <2>2 DEF ApprovalInv
    <2>5. ASSUME NEW e \in Deployers, Busy(e)' PROVE OnRecord(Of[deployer'[e].plan])
      <3>1. CASE e = d
        BY <2>3, <2>4, <3>1
      <3>2. CASE e # d
        BY <2>3, <2>5, <3>2 DEF ApprovalInv, Busy
      <3> QED BY <3>1, <3>2
    <2> QED BY <2>2, <2>5 DEF ApprovalInv, OnRecord, OnlyApprovedOnTarget
  <1>2. CASE ~(\E l \in Plans : Start(d, l))
    <2> USE <1>2, DeployEffect
    <2>1. /\ UNCHANGED <<package, records, clerk, plan>>
          /\ Busy(d) /\ deployer[d].plan \in Plans
      OBVIOUS
    <2>2. OnRecord(Of[deployer[d].plan])
      BY <2>1 DEF ApprovalInv
    <2>3. \A p \in {target} \cup {backup[l] : l \in Plans} : p \in Packages => OnRecord(p)
      BY DEF ApprovalInv, OnlyApprovedOnTarget, OnRecord
    <2>4. target' \in Packages => OnRecord(target')
      BY <1>t, <2>1, <2>2, <2>3
    <2>5. \A l \in Plans : backup'[l] \in Packages => OnRecord(backup'[l])
      BY <1>t, <2>3
    <2>6. \A e \in Deployers : Busy(e)' => OnRecord(Of[deployer'[e].plan])
      BY <2>1, <2>2 DEF ApprovalInv, Busy
    <2> QED BY <2>1, <2>4, <2>5, <2>6 DEF ApprovalInv, OnRecord, OnlyApprovedOnTarget
  <1> QED BY <1>1, <1>2

LEMMA ApprovalHolds == Spec => []ApprovalInv
  <1>1. Init => ApprovalInv
    <2> SUFFICES ASSUME Init PROVE ApprovalInv
      OBVIOUS
    <2> QED BY ReleaseAssumption
            DEF Init, ApprovalInv, OnRecord, OnlyApprovedOnTarget, IdleClerk, IdleDeployer, Busy
  <1>2. ASSUME TypeOK, ApprovalInv, [Next]_vars PROVE ApprovalInv'
    <2>1. CASE Promote
      BY <1>2, <2>1
         DEF Promote, handoff, deployment, ApprovalInv, OnRecord, OnlyApprovedOnTarget, Busy
    <2>2. CASE \E p \in Packages : Create(p)
      <3>1. PICK p \in Packages : Create(p)
        BY <2>2
      <3>2. \A q \in Packages : package'[q] = "approved" => package[q] = "approved"
        BY <1>2, <3>1 DEF Create, TypeOK
      <3> QED BY <1>2, <3>1, <3>2
                 DEF Create, deployment, ApprovalInv, OnRecord, OnlyApprovedOnTarget, Busy
    <2>3. CASE \E c \in Clerks : Clerical(c)
      BY <1>2, <2>3, ApprovalClerical
    <2>4. CASE \E l \in Plans : Plan(l) \/ Refuse(l)
      <3>1. \A l \in Plans : plan'[l] = "passed" => plan[l] = "passed" \/ Approved(Of[l])
        BY <1>2, <2>4 DEF Plan, Refuse, TypeOK
      <3>2. \A l \in Plans : Of[l] \in Packages
        BY ReleaseAssumption
      <3> QED BY <1>2, <2>4, <3>1, <3>2
                 DEF Plan, Refuse, Approved, handoff, ApprovalInv, OnRecord,
                     OnlyApprovedOnTarget, Busy
    <2>5. CASE \E d \in Deployers : Deploy(d)
      BY <1>2, <2>5, ApprovalDeploy
    <2>6. CASE UNCHANGED vars
      BY <1>2, <2>6
         DEF vars, handoff, deployment, ApprovalInv, OnRecord, OnlyApprovedOnTarget, Busy
    <2> QED BY <1>2, <2>1, <2>2, <2>3, <2>4, <2>5, <2>6 DEF Next
  <1> QED BY <1>1, <1>2, ReleaseTyping, PTL DEF Spec

(* No package reaches the target, or a backup of it, without an approval   *)
(* of its own on record.                                                   *)
THEOREM ApprovedOnly == Spec => []OnlyApprovedOnTarget
  <1>1. ApprovalInv => OnlyApprovedOnTarget
    BY DEF ApprovalInv
  <1> QED BY <1>1, ApprovalHolds, PTL

-----------------------------------------------------------------------------
(* What a run reports.  While a deployer works alone the backup of its     *)
(* plan is what it found, and the target moves only by its own steps.      *)

LEMMA ReportDeploy ==
  ASSUME TypeOK, ReportInv, NEW d \in Deployers, Deploy(d), ~(\E l \in Plans : Start(d, l))
  PROVE  deployer'[d].alone => Busy(d)' /\ Told(d)'
  <1>b. /\ Busy(d) /\ deployer[d].plan \in Plans
        /\ \A e \in Deployers : e # d => deployer'[e] = deployer[e]
    BY DeployEffect
  <1>r. deployer[d].alone => Told(d)
    BY DEF ReportInv
  <1>o. deployer[d].alone => \A e \in Deployers : e # d => ~Busy(e)'
    BY <1>b, <1>r DEF Told, Busy
  <1>l. ASSUME deployer' = Leaves(d) PROVE ~deployer'[d].alone
    BY <1>l, Leaving DEF IdleDeployer
  <1>g. ASSUME NEW at \in Places, deployer' = Goes(d, at)
        PROVE  /\ deployer'[d].at = at
               /\ deployer'[d].plan = deployer[d].plan
               /\ deployer'[d].found = deployer[d].found
               /\ deployer'[d].alone = deployer[d].alone
    BY <1>g, <1>b, GoesOn
  <1>2. CASE BackUp(d)
    <2> DEFINE t == [deployer[d] EXCEPT !.at = "saved", !.found = target]
    <2>1. deployer[d] \in [at: Places, plan: Plans, found: Content, alone: BOOLEAN]
      BY <1>b, AtWork
    <2>2. /\ t.at = "saved" /\ t.plan = deployer[d].plan /\ t.found = target
          /\ t.alone = deployer[d].alone
      BY <2>1
    <2>3. deployer' = [deployer EXCEPT ![d] = t]
      BY <1>2 DEF BackUp
    <2> HIDE DEF t
    <2>4. deployer'[d] = t
      BY <2>3 DEF TypeOK
    <2>5. backup'[deployer[d].plan] = target /\ target' = target
      BY <1>2, <1>b DEF BackUp, Saved, TypeOK
    <2> QED BY <1>o, <2>2, <2>4, <2>5 DEF Told, Busy
  <1>4. CASE Apply(d)
    <2>1. /\ deployer[d].at = "saved" /\ backup' = backup /\ deployer' = Goes(d, "applied")
      BY <1>4 DEF Apply
    <2> QED BY <2>1, <1>g, <1>r, <1>o DEF Told, Busy, Places
  <1>6. CASE Verify(d)
    <2>1. /\ deployer[d].at = "applied" /\ target = Of[deployer[d].plan]
          /\ UNCHANGED <<target, backup>> /\ deployer' = Goes(d, "verified")
      BY <1>6 DEF Verify
    <2> QED BY <2>1, <1>g, <1>r, <1>o DEF Told, Busy, Places
  <1>7. CASE NotVerified(d)
    <2>1. /\ deployer[d].at = "applied"
          /\ UNCHANGED <<target, backup>> /\ deployer' = Goes(d, "restoring")
      BY <1>7 DEF NotVerified
    <2> QED BY <2>1, <1>g, <1>r, <1>o DEF Told, Busy, Places
  <1>8. CASE Succeed(d)
    <2>1. /\ deployer[d].at = "verified"
          /\ UNCHANGED <<target, backup>> /\ deployer' = Goes(d, "recorded")
      BY <1>8 DEF Succeed
    <2> QED BY <2>1, <1>g, <1>r, <1>o DEF Told, Busy, Places
  <1>10. CASE Raises(d)
    <2>1. /\ deployer[d].at \in {"applied", "verified", "recorded", "restoring"}
          /\ backup' = backup /\ deployer' = Goes(d, "raising")
      BY <1>10 DEF Raises
    <2> QED BY <2>1, <1>g, <1>r, <1>o DEF Told, Busy, Places
  <1>11. CASE RollBack(d)
    <2>1. /\ deployer[d].at \in {"restoring", "raising"}
          /\ target' = backup[deployer[d].plan] /\ deployer' = Goes(d, "restored")
      BY <1>11 DEF RollBack
    <2> QED BY <2>1, <1>g, <1>r, <1>o DEF Told, Busy, Places
  <1>15. CASE deployer' = Leaves(d)
    BY <1>15, <1>l
  <1> QED BY <1>2, <1>4, <1>6, <1>7, <1>8, <1>10, <1>11, <1>15
          DEF Deploy, BackUpFails, ApplyFails, Finish, RolledBack, RollBackFails, Dies

LEMMA ReportHolds == Spec => []ReportInv
  <1>1. Init => ReportInv
    BY DEF Init, ReportInv, IdleDeployer
  <1>2. ASSUME TypeOK, ReportInv, [Next]_vars PROVE ReportInv'
    <2>u. ASSUME UNCHANGED <<target, backup, deployer>> PROVE ReportInv'
      BY <1>2, <2>u DEF ReportInv, Told, Busy
    <2>1. CASE Promote
      BY <2>1, <2>u DEF Promote, deployment
    <2>2. CASE \E p \in Packages : Create(p)
      BY <2>2, <2>u DEF Create, deployment
    <2>3. CASE \E c \in Clerks : Clerical(c)
      BY <2>3, <2>u DEF Clerical, Decide, Record, Check, Update, GiveUp, deployment
    <2>4. CASE \E l \in Plans : Plan(l) \/ Refuse(l)
      BY <2>4, <2>u DEF Plan, Refuse
    <2>5. ASSUME NEW d \in Deployers, Deploy(d) PROVE ReportInv'
      <3>1. CASE \E l \in Plans : Start(d, l)
        <4>1. PICK l \in Plans : Start(d, l)
          BY <3>1
        <4>2. ASSUME NEW e \in Deployers, deployer'[e].alone PROVE Busy(e)' /\ Told(e)'
          <5>1. e = d
            BY <1>2, <4>1, <4>2, Starting
          <5>2. /\ deployer'[d].at = "started"
                /\ \A x \in Deployers : ~Busy(x)
                /\ \A x \in Deployers : x # d => deployer'[x].at = deployer[x].at
            BY <1>2, <4>1, <4>2, <5>1, Starting
          <5> QED BY <5>1, <5>2 DEF Busy, Told
        <4> QED BY <4>2 DEF ReportInv
      <3>2. CASE ~(\E l \in Plans : Start(d, l))
        <4>1. deployer'[d].alone => Busy(d)' /\ Told(d)'
          BY <1>2, <2>5, <3>2, ReportDeploy
        <4>2. ASSUME NEW e \in Deployers, e # d PROVE ~deployer'[e].alone
          <5>1. Busy(d) /\ deployer'[e] = deployer[e]
            BY <1>2, <2>5, <3>2, <4>2, DeployEffect
          <5> QED BY <1>2, <4>2, <5>1 DEF ReportInv, Told
        <4> QED BY <4>1, <4>2 DEF ReportInv
      <3> QED BY <3>1, <3>2
    <2>6. CASE UNCHANGED vars
      BY <2>6, <2>u DEF vars, deployment
    <2> QED BY <1>2, <2>1, <2>2, <2>3, <2>4, <2>5, <2>6 DEF Next
  <1> QED BY <1>1, <1>2, ReleaseTyping, PTL DEF Spec

(* A run that is about to report a success or a rollback, and has worked   *)
(* alone, tells the truth about the target.                                *)
THEOREM ReportsHold == Spec => []TargetAsReported
  <1>1. ReportInv => TargetAsReported
    BY DEF ReportInv, TargetAsReported, Told
  <1> QED BY <1>1, ReportHolds, PTL

(* Overlapping decisions, reruns, deaths and torn files: whatever is on    *)
(* its way to the target is approved, and a run that works alone knows     *)
(* what the target and its backup hold (strategy_deployment.py:330-402).   *)
THEOREM ReleaseInvariant == Spec => []ReleaseInv
  <1> QED BY ReleaseTyping, ApprovalHolds, ReportHolds, PTL DEF ReleaseInv

-----------------------------------------------------------------------------
(* A rejection that no running approval disputes stays, for every package. *)
THEOREM RejectionsStick == Spec => RejectionSticks
  <1>1. ASSUME TypeOK, [Next]_vars, NEW p \in Packages, Settled(p) PROVE Settled(p)'
    <2>u. ASSUME UNCHANGED <<package, clerk>> PROVE Settled(p)'
      BY <1>1, <2>u DEF Settled
    <2>1. CASE Promote
      BY <2>1, <2>u DEF Promote, handoff
    <2>2. CASE \E q \in Packages : Create(q)
      BY <1>1, <2>2 DEF Create, Settled, TypeOK
    <2>3. ASSUME NEW c \in Clerks, Clerical(c) PROVE Settled(p)'
      <3>i. p # Nothing
        BY ReleaseAssumption
      <3>1. CASE \E what \in Decisions, q \in Packages : Decide(c, what, q)
        BY <1>1, <3>1 DEF Decide, MayDecide, Settled, TypeOK, Decisions
      <3>2. CASE Record(c) \/ Check(c)
        <4>1. /\ clerk[c] \in [at: {"deciding", "recorded", "checked"}, what: Decisions,
                               package: Packages, read: Decisions \cup {"none"}]
              /\ package' = package
          BY <1>1, <3>2 DEF Record, Check, TypeOK, ClerkState, IdleClerk
        <4>2. PICK at \in {"recorded", "checked"} :
                 clerk' = [clerk EXCEPT ![c] = [clerk[c] EXCEPT !.at = at]]
          BY <3>2 DEF Record, Check
        <4> DEFINE t == [clerk[c] EXCEPT !.at = at]
        <4>3. t.what = clerk[c].what /\ t.package = clerk[c].package
          BY <4>1
        <4> HIDE DEF t
        <4> QED BY <1>1, <4>1, <4>2, <4>3 DEF Settled, TypeOK, t
      <3>3. CASE Update(c)
        BY <1>1, <3>3, <3>i DEF Update, Settled, TypeOK, IdleClerk
      <3>4. CASE GiveUp(c)
        BY <1>1, <3>4, <3>i DEF GiveUp, Settled, TypeOK, IdleClerk
      <3> QED BY <2>3, <3>1, <3>2, <3>3, <3>4 DEF Clerical
    <2>4. CASE \E l \in Plans : Plan(l) \/ Refuse(l)
      BY <2>4, <2>u DEF Plan, Refuse, handoff
    <2>5. CASE \E d \in Deployers : Deploy(d)
      <3>1. PICK d \in Deployers : Deploy(d)
        BY <2>5
      <3>2. CASE \E l \in Plans : Start(d, l)
        BY <3>2, <2>u DEF Start, handoff
      <3>3. CASE ~(\E l \in Plans : Start(d, l))
        BY <1>1, <3>1, <3>3, <2>u, DeployEffect
      <3> QED BY <3>2, <3>3
    <2>6. CASE UNCHANGED vars
      BY <2>6, <2>u DEF vars, handoff
    <2> QED BY <1>1, <2>1, <2>2, <2>3, <2>4, <2>5, <2>6 DEF Next
  <1>2. ASSUME TypeOK, [Next]_vars
        PROVE  [\A p \in Packages : Settled(p) => Settled(p)']_vars
    BY <1>1, <1>2
  <1> QED BY <1>2, ReleaseTyping, PTL DEF Spec, RejectionSticks
=============================================================================
