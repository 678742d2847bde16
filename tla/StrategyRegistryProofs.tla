------------------------ MODULE StrategyRegistryProofs ------------------------
(* Proofs about StrategyRegistry for any runs, promoters and approvals, and *)
(* about StrategyRollout for any number of versions of any sides.           *)
EXTENDS StrategyRegistry, StrategyRollout, WellFoundedInduction, TLAPS

-----------------------------------------------------------------------------
(* The two ways a document is changed.                                     *)

\* Activation keeps ids and runs, leaves one version active at most, and every
\* version it finds activated before stays so.
LEMMA MarkActiveShape ==
  ASSUME NEW versions \in SUBSET Version, NEW uid
  PROVE  /\ MarkActive(versions, uid) \subseteq Version
         /\ \A x \in MarkActive(versions, uid) :
              \E v \in versions :
                /\ x.uid = v.uid /\ x.run = v.run
                /\ x = Marked(v, x.status)
                /\ x.status = "active" => v.uid = uid
                /\ x.status # "apply_ready" => v.uid = uid \/ v.status # "apply_ready"
                /\ x.status = IF v.uid = uid THEN "active"
                              ELSE IF v.status = "active" THEN "previous" ELSE v.status
         /\ \A v \in versions :
              \E x \in MarkActive(versions, uid) :
                /\ x.uid = v.uid
                /\ v.uid = uid => x.status = "active"
                /\ v.status # "apply_ready" => x.status # "apply_ready"
<1>0. \A v \in versions :
        \E x \in MarkActive(versions, uid) :
          /\ x.uid = v.uid
          /\ v.uid = uid => x.status = "active"
          /\ v.status # "apply_ready" => x.status # "apply_ready"
  <2> SUFFICES ASSUME NEW v \in versions
               PROVE  \E x \in MarkActive(versions, uid) :
                        /\ x.uid = v.uid
                        /\ v.uid = uid => x.status = "active"
                        /\ v.status # "apply_ready" => x.status # "apply_ready"
    OBVIOUS
  <2> DEFINE newStatus == IF v.uid = uid THEN "active"
                          ELSE IF v.status = "active" THEN "previous" ELSE v.status
  <2>1. Marked(v, newStatus) \in MarkActive(versions, uid)
    BY DEF MarkActive
  <2>2. Marked(v, newStatus).uid = v.uid /\ Marked(v, newStatus).status = newStatus
    BY DEF Marked
  <2> QED BY <2>1, <2>2
<1> SUFFICES ASSUME NEW x \in MarkActive(versions, uid)
             PROVE  /\ x \in Version
                    /\ \E v \in versions :
                         /\ x.uid = v.uid /\ x.run = v.run
                         /\ x = Marked(v, x.status)
                         /\ x.status = "active" => v.uid = uid
                         /\ x.status # "apply_ready" => v.uid = uid \/ v.status # "apply_ready"
                         /\ x.status = IF v.uid = uid THEN "active"
                              ELSE IF v.status = "active" THEN "previous" ELSE v.status
  BY <1>0
<1>1. PICK v \in versions :
        x = Marked(v, IF v.uid = uid THEN "active"
                      ELSE IF v.status = "active" THEN "previous" ELSE v.status)
  BY DEF MarkActive
<1>2. v \in Version
  OBVIOUS
<1> QED BY <1>1, <1>2 DEF Marked, Version

\* A read or written position of the listing is followed by one of the listing.
LEMMA PassShape ==
  ASSUME NEW pos \in 1..Len(Order), NEW versions \in SUBSET Version
  PROVE  /\ AfterRun(pos) \in 0..Len(Order)
         /\ Reading(AfterRun(pos)) \in Pass /\ ~Reading(AfterRun(pos)).writing
         /\ Reading(AfterRun(pos)).seen = {}
         /\ Writing(pos, versions) \in Pass
         /\ Writing(pos, versions).pos = pos /\ Writing(pos, versions).writing
         /\ Writing(pos, versions).seen = versions
<1>1. Len(Order) \in Nat
  BY RegistryConstants
<1> QED BY <1>1 DEF AfterRun, Reading, Writing, Pass

\* Starting or abandoning a pass.
LEMMA StartShape ==
  ASSUME Order # <<>>
  PROVE  /\ Reading(0) \in Pass /\ Reading(1) \in Pass
         /\ ~Reading(0).writing /\ ~Reading(1).writing
         /\ Reading(0).seen = {} /\ Reading(1).seen = {}
<1>1. Len(Order) \in Nat /\ Len(Order) >= 1
  BY RegistryConstants
<1> QED BY <1>1 DEF Reading, Pass

-----------------------------------------------------------------------------
(* One lemma per action: it preserves RegistryInv.                         *)

\* A pass that begins holds no copy.
LEMMA StartPassStep ==
  ASSUME RegistryInv, NEW p \in Promoters, StartPass(p)
  PROVE  RegistryInv'
<1>1. TypeOK'
  BY StartShape DEF StartPass, RegistryInv, TypeOK, history
<1>2. RegistrySound'
  BY DEF StartPass, RegistryInv, RegistrySound, Sound
<1>3. \A q \in Promoters : promoter'[q] = promoter[q] \/ promoter'[q] = Reading(1)
  BY DEF StartPass, RegistryInv, TypeOK
<1>4. SpentForGood' /\ \A q \in Promoters : promoter'[q].writing => Keeps(promoter[q].seen)'
  BY <1>3, StartShape DEF StartPass, RegistryInv, SpentForGood, Keeps, history
<1> QED BY <1>1, <1>2, <1>3, <1>4, StartShape DEF StartPass, RegistryInv, Sound, Registered

\* A pass that is cut off forgets its copy.
LEMMA AbortPassStep ==
  ASSUME RegistryInv, NEW p \in Promoters, AbortPass(p)
  PROVE  RegistryInv'
<1>1. Order # <<>>
  BY DEF AbortPass, RegistryInv, TypeOK, Pass
<1>2. TypeOK'
  BY <1>1, StartShape DEF AbortPass, RegistryInv, TypeOK, history
<1>3. RegistrySound'
  BY DEF AbortPass, RegistryInv, RegistrySound, Sound
<1>4. \A q \in Promoters : promoter'[q] = promoter[q] \/ promoter'[q] = Reading(0)
  BY DEF AbortPass, RegistryInv, TypeOK
<1>5. SpentForGood' /\ \A q \in Promoters : promoter'[q].writing => Keeps(promoter[q].seen)'
  BY <1>1, <1>4, StartShape DEF AbortPass, RegistryInv, SpentForGood, Keeps, history
<1> QED BY <1>1, <1>2, <1>3, <1>4, <1>5, StartShape DEF AbortPass, RegistryInv, Sound, Registered

\* The copy that is read is as sound as the document and lacks the run.
LEMMA ReadRegistryStep ==
  ASSUME RegistryInv, NEW p \in Promoters, ReadRegistry(p)
  PROVE  RegistryInv'
<1> DEFINE pos == promoter[p].pos
<1>1. pos \in 1..Len(Order) /\ registry \in SUBSET Version
  BY RegistryConstants DEF ReadRegistry, RegistryInv, TypeOK, Pass
<1>2. PICK n \in Pass :
        /\ promoter' = [promoter EXCEPT ![p] = n]
        /\ \/ ~n.writing /\ n.seen = {}
           \/ /\ ~Registered(registry, Order[pos])
              /\ n.writing /\ n.pos = pos /\ n.seen = registry
  <2>1. CASE Registered(registry, Order[pos])
    <3>1. promoter' = [promoter EXCEPT ![p] = Reading(AfterRun(pos))]
      BY <2>1 DEF ReadRegistry
    <3> QED BY <3>1, <1>1, PassShape
  <2>2. CASE ~Registered(registry, Order[pos])
    <3> DEFINE n == Writing(pos, registry)
    <3>1. promoter' = [promoter EXCEPT ![p] = n]
      BY <2>2 DEF ReadRegistry
    <3>2. n \in Pass /\ n.writing /\ n.pos = pos /\ n.seen = registry
      BY <1>1, PassShape
    <3> HIDE DEF n
    <3> QED BY <2>2, <3>1, <3>2
  <2> QED BY <2>1, <2>2
<1>3. TypeOK'
  BY <1>2 DEF ReadRegistry, RegistryInv, TypeOK, history
<1>4. RegistrySound'
  BY DEF ReadRegistry, RegistryInv, RegistrySound, Sound
<1>5. \A q \in Promoters : promoter'[q] = IF q = p THEN n ELSE promoter[q]
  BY <1>2 DEF RegistryInv, TypeOK
<1>6. \A q \in Promoters : promoter'[q].writing =>
        /\ promoter'[q].pos # 0
        /\ Sound(promoter'[q].seen)
        /\ ~Registered(promoter'[q].seen, Order[promoter'[q].pos])
  BY <1>1, <1>2, <1>5 DEF RegistryInv, RegistrySound
<1>7. \A q \in Promoters : \A v \in promoter'[q].seen : v.uid < uids
  BY <1>2, <1>5 DEF RegistryInv
<1>8. SpentForGood' /\ \A q \in Promoters : promoter'[q].writing => Keeps(promoter[q].seen)'
  BY <1>2, <1>5 DEF ReadRegistry, RegistryInv, SpentForGood, Keeps, history
<1> QED BY <1>3, <1>4, <1>6, <1>7, <1>8 DEF ReadRegistry, RegistryInv, Sound, Registered

\* A stale copy that is written back was sound, and the run it adds is new to it.
LEMMA SaveRegistryStep ==
  ASSUME RegistryInv, NEW p \in Promoters, SaveRegistry(p)
  PROVE  RegistryInv'
<1> DEFINE pos  == promoter[p].pos
           seen == promoter[p].seen
           new  == [uid |-> uids, run |-> Order[pos], status |-> "apply_ready"]
<1>1. /\ pos \in 1..Len(Order)
      /\ seen \in SUBSET Version /\ Sound(seen) /\ ~Registered(seen, Order[pos])
      /\ \A v \in seen : v.uid < uids
      /\ uids \in Nat /\ uids' = uids + 1 /\ uids' \in Uid
  BY RegistryConstants DEF SaveRegistry, RegistryInv, TypeOK, Pass, Uid
<1>2. new \in Version
  <2>1. Order[pos] \in Runs
    BY <1>1, RegistryConstants
  <2> QED BY <2>1 DEF Version, RegistryInv, TypeOK
<1>3. /\ promoter' = [promoter EXCEPT ![p] = Reading(AfterRun(pos))]
      /\ registry' = seen \cup {new}
      /\ UNCHANGED <<audit, scope, latest, raced>>
  BY DEF SaveRegistry, history
<1>4. \A q \in Promoters : promoter'[q] = IF q = p THEN Reading(AfterRun(pos)) ELSE promoter[q]
  BY <1>3 DEF RegistryInv, TypeOK
<1>5. TypeOK'
  BY <1>1, <1>2, <1>3, PassShape DEF RegistryInv, TypeOK
<1>6. \A v \in seen : v.uid # new.uid /\ v.run # new.run
  BY <1>1 DEF Registered, Version, Uid
<1>7. Sound(seen \cup {new})
  <2> HIDE DEF new
  <2>1. new.status = "apply_ready"
    BY DEF new
  <2> QED BY <1>1, <1>6, <2>1 DEF Sound
<1>8. RegistrySound'
  BY <1>3, <1>7 DEF RegistrySound, Sound
<1>9. \A v \in registry' : v.uid < uids'
  BY <1>1, <1>3 DEF Version, Uid
<1>10. \A q \in Promoters : promoter'[q].writing => q # p /\ promoter'[q] = promoter[q]
  BY <1>1, <1>4, PassShape
<1>11. \A q \in Promoters : \A v \in promoter'[q].seen : v.uid < uids'
  <2> SUFFICES ASSUME NEW q \in Promoters, NEW v \in promoter'[q].seen PROVE v.uid < uids'
    OBVIOUS
  <2>1. q # p /\ v \in promoter[q].seen
    BY <1>1, <1>4, PassShape
  <2>2. v \in Version /\ v.uid < uids
    BY <2>1 DEF RegistryInv, TypeOK, Pass
  <2> QED BY <2>2, <1>1 DEF Version, Uid
<1>12. \A q \in Promoters : promoter'[q].writing =>
        /\ promoter'[q].pos # 0
        /\ Sound(promoter[q].seen)'
        /\ ~Registered(promoter'[q].seen, Order[promoter'[q].pos])
  BY <1>3, <1>10 DEF RegistryInv, Sound
<1>13. \A a \in audit' : scope'[a] # None
  BY <1>3 DEF RegistryInv
<1>14. SpentForGood'
  <2>1. Keeps(seen)
    BY DEF SaveRegistry, RegistryInv
  <2> HIDE DEF seen, new
  <2> QED BY <1>3, <2>1 DEF SpentForGood, Keeps
<1>15. \A q \in Promoters : promoter'[q].writing => Keeps(promoter[q].seen)'
  BY <1>3, <1>10 DEF RegistryInv, Keeps
<1> HIDE DEF pos, seen, new
<1> QED BY <1>5, <1>8, <1>9, <1>11, <1>12, <1>13, <1>14, <1>15 DEF RegistryInv, Registered

\* An approval given now was not consumed before.
LEMMA ApproveStep ==
  ASSUME RegistryInv, NEW a \in Approvals, NEW v \in registry, Approve(a, v)
  PROVE  RegistryInv'
<1>1. v.uid \in Uid /\ v.uid # None
  BY RegistryConstants DEF RegistryInv, TypeOK, Version, Uid
<1>2. \A b \in audit : b # a /\ scope'[b] = scope[b]
  BY DEF Approve, RegistryInv, TypeOK
<1>3. TypeOK'
  BY <1>1 DEF Approve, RegistryInv, TypeOK, history
<1>4. \A versions : Sound(versions) => Sound(versions)'
  BY <1>2 DEF Approve, Sound
<1>5. SpentForGood' /\ \A p \in Promoters : promoter'[p].writing => Keeps(promoter[p].seen)'
  BY <1>2 DEF Approve, RegistryInv, SpentForGood, Keeps, history
<1> QED BY <1>1, <1>2, <1>3, <1>4, <1>5 DEF Approve, RegistryInv, RegistrySound, Registered

\* The one version an approval activates is named by it, and the copies read
\* earlier stay sound.
LEMMA ActivateStep ==
  ASSUME RegistryInv, NEW a \in Approvals, Activate(a)
  PROVE  RegistryInv'
<1>1. /\ registry \in SUBSET Version
      /\ registry' = MarkActive(registry, scope[a])
      /\ audit' = audit \cup {a} /\ scope[a] # None
      /\ UNCHANGED <<scope, promoter, uids>>
  BY DEF Activate, RegistryInv, TypeOK
<1>2. \A x \in registry' :
        \E v \in registry :
          /\ x.uid = v.uid /\ x.run = v.run
          /\ x = Marked(v, x.status)
          /\ x.status = "active" => v.uid = scope[a]
          /\ x.status # "apply_ready" => v.uid = scope[a] \/ v.status # "apply_ready"
          /\ x.status = IF v.uid = scope[a] THEN "active"
                        ELSE IF v.status = "active" THEN "previous" ELSE v.status
  BY <1>1, MarkActiveShape
<1>3. TypeOK'
  BY <1>1, MarkActiveShape DEF Activate, RegistryInv, TypeOK
<1>4. RegistrySound'
  <2>1. \A x, y \in registry' : x.uid = y.uid \/ x.run = y.run => x = y
    BY <1>2 DEF RegistryInv, RegistrySound, Sound
  <2>2. \A x, y \in registry' : x.status = "active" /\ y.status = "active" => x = y
    BY <1>2, <2>1
  <2>3. \A x \in registry' : x.status # "apply_ready" => \E b \in audit' : scope'[b] = x.uid
    BY <1>1, <1>2 DEF RegistryInv, RegistrySound, Sound
  <2> QED BY <2>1, <2>2, <2>3 DEF RegistrySound, Sound
<1>5. \A versions : Sound(versions) =>
        /\ \A v, w \in versions : v.uid = w.uid \/ v.run = w.run => v = w
        /\ \A v, w \in versions : v.status = "active" /\ w.status = "active" => v = w
        /\ \A v \in versions : v.status # "apply_ready" => \E b \in audit' : scope'[b] = v.uid
  BY <1>1 DEF Sound
<1>6. \A p \in Promoters : promoter'[p].writing =>
        /\ promoter'[p].pos # 0
        /\ Sound(promoter[p].seen)'
        /\ ~Registered(promoter'[p].seen, Order[promoter'[p].pos])
  BY <1>1, <1>5 DEF RegistryInv, Sound
<1>7. \A x \in registry' : x.uid < uids'
  BY <1>1, <1>2 DEF RegistryInv
<1>8. /\ \A b \in audit' : scope'[b] # None
      /\ \A p \in Promoters : \A v \in promoter'[p].seen : v.uid < uids'
  BY <1>1 DEF RegistryInv
<1>9. /\ latest' = a /\ raced \subseteq raced'
      /\ (\E p \in Promoters : promoter[p].writing) => a \in raced'
  BY DEF Activate
<1>10. SpentForGood'
  <2>1. PICK v \in registry : v.uid = scope[a]
    BY DEF Activate
  <2>2. \A w \in registry : \E x \in registry' :
          /\ x.uid = w.uid
          /\ w.uid = scope[a] => x.status = "active"
          /\ w.status # "apply_ready" => x.status # "apply_ready"
    BY <1>1, MarkActiveShape
  <2>3. \A b \in audit \ raced :
          \E x \in registry' : x.uid = scope[b] /\ x.status # "apply_ready"
    BY <2>2 DEF RegistryInv, SpentForGood, Keeps
  <2>4. \E x \in registry' : x.uid = scope[a] /\ x.status = "active"
    BY <2>1, <2>2
  <2>5. \A b \in audit' \ raced' :
          \E x \in registry' : x.uid = scope[b] /\ x.status # "apply_ready"
    <3> SUFFICES ASSUME NEW b \in audit' \ raced'
                 PROVE  \E x \in registry' : x.uid = scope[b] /\ x.status # "apply_ready"
      OBVIOUS
    <3>1. CASE b = a
      BY <2>4, <3>1
    <3>2. CASE b \in audit \ raced
      BY <2>3, <3>2
    <3> QED BY <1>1, <1>9, <3>1, <3>2
  <2>6. scope' = scope
    BY <1>1
  <2> QED BY <1>9, <2>4, <2>5, <2>6 DEF SpentForGood, Keeps
<1>11. \A p \in Promoters : promoter'[p].writing => Keeps(promoter[p].seen)'
  <2> SUFFICES ASSUME NEW p \in Promoters, promoter'[p].writing
               PROVE  Keeps(promoter[p].seen)'
    OBVIOUS
  <2>1. promoter' = promoter /\ scope' = scope /\ audit' = audit \cup {a}
    BY <1>1
  <2>2. Keeps(promoter[p].seen) /\ a \in raced'
    BY <1>9, <2>1 DEF RegistryInv
  <2>3. audit' \ raced' \subseteq audit \ raced /\ latest' \notin audit' \ raced'
    BY <1>9, <2>1, <2>2
  <2> QED BY <2>1, <2>2, <2>3 DEF Keeps
<1> QED BY <1>3, <1>4, <1>6, <1>7, <1>8, <1>10, <1>11 DEF RegistryInv, Registered

-----------------------------------------------------------------------------
(* The invariant and what follows from it.                                 *)

\* An empty registry, no pass under way.
LEMMA InitInv == Init => RegistryInv
<1> SUFFICES ASSUME Init PROVE RegistryInv
  OBVIOUS
<1>1. Reading(0) \in Pass /\ ~Reading(0).writing /\ Reading(0).seen = {}
  BY RegistryConstants DEF Reading, Pass
<1> QED BY <1>1, RegistryConstants
     DEF Init, RegistryInv, TypeOK, Uid, RegistrySound, Sound, SpentForGood, Keeps

\* Promotions and activations preserve the invariant in any interleaving.
LEMMA NextInv == RegistryInv /\ [Next]_vars => RegistryInv'
<1> SUFFICES ASSUME RegistryInv, [Next]_vars PROVE RegistryInv'
  OBVIOUS
<1>1. CASE UNCHANGED vars
  BY <1>1 DEF vars, history, RegistryInv, TypeOK, RegistrySound, Sound, SpentForGood, Keeps,
              Registered
<1>2. CASE Next
  BY <1>2, StartPassStep, ReadRegistryStep, SaveRegistryStep, AbortPassStep, ApproveStep,
     ActivateStep DEF Next
<1> QED BY <1>1, <1>2

\* The invariant itself, copies in the hands of promoters included, for any
\* interleaving of promotions and activations.
THEOREM InvariantHolds == Spec => []RegistryInv
BY InitInv, NextInv, PTL DEF Spec

\* Type correctness for any runs, promoters and approvals.
THEOREM TypeCorrect == Spec => []TypeOK
<1>1. RegistryInv => TypeOK
  BY DEF RegistryInv
<1> QED BY <1>1, InitInv, NextInv, PTL DEF Spec

\* At most one version is active, only through a consumed approval, and no run is
\* registered twice, although promoters write back documents that are out of date.
THEOREM RegistryStaysSound == Spec => []RegistrySound
<1>1. RegistryInv => RegistrySound
  BY DEF RegistryInv
<1> QED BY <1>1, InitInv, NextInv, PTL DEF Spec

\* An approval is spent on an activation that lasts, unless a promoter held a copy
\* it had read before (strategy_candidate_promotion.py:173-185).
THEOREM ApprovalsAreSpentForGood == Spec => []SpentForGood
<1>1. RegistryInv => SpentForGood
  BY DEF RegistryInv
<1> QED BY <1>1, InitInv, NextInv, PTL DEF Spec

-----------------------------------------------------------------------------
(* The same versions in memory, rolled out into the trading runtime one     *)
(* after another: StrategyRollout, whose state is apart from the document.  *)
\* A non-empty set of versions has a last one.
LEMMA LastVersion ==
  ASSUME NEW n \in Nat, NEW S \in SUBSET (1..n), S # {}
  PROVE  Max(S) \in S
<1> DEFINE R == OpToRel(<, Nat)
           back == {n - v : v \in S}
<1>2. IsWellFoundedOn(R, Nat)
  BY NatLessThanWellFounded
<1>3. \A x, y \in Nat : <<y, x>> \in R <=> y < x
  BY DEF OpToRel
<1> HIDE DEF R
<1>1. back \in SUBSET Nat /\ back # {}
  <2>1. \A v \in S : n - v \in Nat
    OBVIOUS
  <2>2. \E v \in S : TRUE
    OBVIOUS
  <2> QED BY <2>1, <2>2
<1>4. \E b \in back : \A y \in back : ~ (<<y, b>> \in R)
  <2> HIDE DEF back
  <2> QED BY <1>1, <1>2, WFMin
<1>5. PICK b \in back : \A y \in back : ~ (<<y, b>> \in R)
  BY <1>4
<1>6. PICK v \in S : b = n - v
  BY <1>5
<1>7. ASSUME NEW w \in S PROVE v >= w
  <2>1. n - w \in back /\ n - w \in Nat /\ b \in Nat /\ v \in Nat /\ w \in Nat
    BY <1>1, <1>6
  <2>2. ~ (n - w < b)
    BY <1>3, <1>5, <2>1
  <2> QED BY <1>6, <2>1, <2>2
<1> QED BY <1>6, <1>7 DEF Max

\* What _deploy falls back to is none, or an ACTIVE version of its side.
LEMMA ActiveShape ==
  ASSUME registered \in Nat, NEW dir
  PROVE  LET v == Active(dir)
         IN v = 0 \/ /\ v \in 1..registered
                     /\ status[v] = "active"
                     /\ dir # "none" => Direction[v] = dir
<1> DEFINE matches == {v \in 1..registered : /\ status[v] = "active"
                                             /\ dir # "none" => Direction[v] = dir}
<1>1. CASE matches = {}
  BY <1>1 DEF Active, NoVersion
<1>2. CASE matches # {}
  <2>1. matches \in SUBSET (1..registered)
    OBVIOUS
  <2>2. Max(matches) \in matches
    <3> HIDE DEF matches
    <3> QED BY <1>2, <2>1, LastVersion
  <2>3. Active(dir) = Max(matches)
    BY <1>2 DEF Active
  <2> HIDE DEF matches
  <2>4. Active(dir) \in matches
    BY <2>2, <2>3
  <2> USE DEF matches
  <2> QED BY <2>4
<1> QED BY <1>1, <1>2

\* The registry between rollouts: versions come and are retired, none is activated.
LEMMA RegistrationKeeps ==
  ASSUME N \in Nat, RolloutInv,
         Register \/ \E v \in 1..registered : Retire(v)
  PROVE  RolloutInv'
<1>1. /\ step = "idle"
      /\ registered \in 0..N /\ registered' \in registered..N
      /\ UNCHANGED <<activated, effective, blocked, step, target, previous, applied, outcome,
                     raised>>
  BY DEF RolloutInv, RolloutTypes, Register,
         Retire, runtime, locals
<1>2. /\ status' \in [Versions -> Statuses]
      /\ \A v \in Versions : status'[v] = "active" => status[v] = "active"
  BY DEF RolloutInv, RolloutTypes, Register, Retire,
         Statuses
<1>3. RolloutTypes'
  BY <1>1, <1>2 DEF RolloutInv, RolloutTypes
<1> QED BY <1>1, <1>2, <1>3
        DEF RolloutInv, OnlyProvenVersionsTrade, OpenAfterFailure, NeverBlocked,
            UnblockRaised, Trying, Verified

\* A rollout starts with the version to fall back to.
LEMMA BeginKeeps ==
  ASSUME N \in Nat, RolloutInv,
         NEW v \in 1..registered, Begin(v)
  PROVE  RolloutInv'
<1> DEFINE fallback == Active(Direction[v])
<1>1. registered \in Nat /\ 1..registered \subseteq Versions
  BY DEF RolloutInv, RolloutTypes, Versions
<1>2. fallback = 0 \/ /\ fallback \in 1..registered
                      /\ status[fallback] = "active"
                      /\ Direction[v] # "none" => Direction[fallback] = Direction[v]
  BY <1>1, ActiveShape
<1>3. /\ target' = v /\ previous' = fallback /\ applied' = FALSE
      /\ \/ step' = "fail" /\ raised' = "request"
         \/ step' = "validate" /\ raised' = "none"
      /\ UNCHANGED <<registered, status, activated, effective, blocked, outcome>>
  BY DEF Begin, inMemory, runtime
<1> HIDE DEF fallback
<1>4. RolloutTypes'
  <2>1. v \in 0..registered /\ fallback \in 0..registered
    BY <1>1, <1>2
  <2>2. step' \in LiveSteps
    BY <1>3 DEF LiveSteps
  <2> QED BY <1>3, <2>1, <2>2 DEF RolloutInv, RolloutTypes
<1>5. fallback # 0 => fallback \in activated
  BY <1>1, <1>2 DEF RolloutInv
<1> QED BY <1>1, <1>2, <1>3, <1>4, <1>5
        DEF RolloutInv, OnlyProvenVersionsTrade, OpenAfterFailure, NeverBlocked,
            UnblockRaised, Trying, Verified, NoVersion

\* A step that raises, or whose check is false, changes nothing but the place.
LEMMA RaiseOrCheckKeeps ==
  ASSUME RolloutInv,
         \/ StepRaises \/ Validate \/ Precheck
         \/ VerifyEffective
  PROVE  RolloutInv'
<1>1. /\ UNCHANGED <<registered, status, activated, effective, blocked, target, previous,
                     outcome>>
      /\ applied' \in BOOLEAN
      /\ \/ /\ step' = "fail" /\ step \in LiveSteps \ {"commit", "fail"} /\ raised' = step
            /\ applied' = (applied \/ step = "apply")
         \/ step = "validate" /\ step' = "block" /\ UNCHANGED <<raised, applied>>
         \/ step = "precheck" /\ step' = "apply" /\ UNCHANGED <<raised, applied>>
         \/ /\ step = "verify" /\ step' = "commit" /\ effective = target
            /\ UNCHANGED <<raised, applied>>
  BY DEF StepRaises, Validate, Precheck, VerifyEffective,
         Checked, inMemory, runtime, locals,
         RolloutInv, RolloutTypes, LiveSteps
<1>2. RolloutTypes'
  BY <1>1 DEF RolloutInv, RolloutTypes, LiveSteps
<1> QED BY <1>1, <1>2
        DEF RolloutInv, OnlyProvenVersionsTrade, OpenAfterFailure, NeverBlocked,
            UnblockRaised, Trying, Verified, LiveSteps

\* The runtime's own calls: entries are blocked before the version changes.
LEMMA RuntimeKeeps ==
  ASSUME RolloutInv, BlockEntries \/ ApplyVersion
  PROVE  RolloutInv'
<1>1. /\ UNCHANGED <<registered, status, activated, target, previous, outcome>>
      /\ applied' \in BOOLEAN
      /\ blocked' = TRUE
      /\ effective' \in {effective, target}
      /\ step # "idle"
      /\ \/ step = "block" /\ step' = "precheck" /\ UNCHANGED <<raised, applied>>
         \/ step = "apply" /\ step' = "verify" /\ UNCHANGED raised
         \/ step \in {"block", "apply"} /\ step' = "fail" /\ raised' = step
  BY DEF BlockEntries, ApplyVersion, ReturnsOrRaises,
         inMemory, locals, RolloutInv, RolloutTypes,
         Trying
<1>2. RolloutTypes'
  BY <1>1 DEF RolloutInv, RolloutTypes, LiveSteps
<1> QED BY <1>1, <1>2
        DEF RolloutInv, OnlyProvenVersionsTrade, OpenAfterFailure, NeverBlocked,
            UnblockRaised, Trying, Verified

\* The registry is told of a version that was verified.
LEMMA MarkKeeps ==
  ASSUME N \in Nat, RolloutInv, MarkTargetActive
  PROVE  RolloutInv'
<1>1. /\ UNCHANGED <<registered, effective, blocked, target, previous, applied, outcome,
                     raised>>
      /\ step = "commit" /\ step' = "unblock"
      /\ activated' = activated \cup {target}
      /\ blocked = TRUE /\ effective = target
  BY DEF MarkTargetActive, runtime, locals, RolloutInv,
         RolloutTypes, Trying, Verified
<1>2. /\ status' \in [Versions -> Statuses]
      /\ \A v \in Versions :
           status'[v] = "active" => v = target \/ status[v] = "active"
  BY DEF MarkTargetActive, RolloutInv, RolloutTypes, Statuses
<1>3. target \in 1..registered
  BY <1>1 DEF RolloutInv, RolloutTypes, NoVersion
<1>4. RolloutTypes'
  BY <1>1, <1>2, <1>3 DEF RolloutInv, RolloutTypes, LiveSteps
<1> QED BY <1>1, <1>2, <1>4
        DEF RolloutInv, OnlyProvenVersionsTrade, OpenAfterFailure, NeverBlocked,
            UnblockRaised, Trying, Verified

\* Entries open over the version just activated; a failure leaves them as they are
\* and may bring back a version that was activated before.
LEMMA EndKeeps ==
  ASSUME RolloutInv, UnblockEntries \/ Fail
  PROVE  RolloutInv'
<1>1. /\ UNCHANGED <<registered, status, activated, target, previous, applied>>
      /\ outcome' \in {"none", "active", "failed_closed"}
      /\ step # "idle"
      /\ blocked' \in BOOLEAN
      /\ \/ step = "unblock" /\ step' = "idle" /\ outcome' = "active" /\ UNCHANGED raised
         \/ step = "unblock" /\ step' = "fail" /\ raised' = "unblock"
         \/ step = "fail" /\ step' = "idle" /\ UNCHANGED <<raised, blocked>>
  BY DEF UnblockEntries, Fail, ReturnsOrRaises, inMemory, locals,
         RolloutInv, RolloutTypes
<1>2. /\ effective' = effective \/ (effective' = previous /\ previous # 0)
      /\ blocked' = blocked \/ (effective' = effective /\ effective \in activated)
  BY DEF UnblockEntries, Fail, NoVersion, RolloutInv,
         Verified
<1>3. RolloutTypes'
  BY <1>1, <1>2 DEF RolloutInv, RolloutTypes, LiveSteps
<1> QED BY <1>1, <1>2, <1>3
        DEF RolloutInv, OnlyProvenVersionsTrade, OpenAfterFailure, NeverBlocked,
            UnblockRaised, Trying, Verified, NoVersion

LEMMA RolloutStarts ==
  ASSUME RolloutInit
  PROVE  RolloutInv
<1>1. 0 \in 0..N /\ 0 \in 0..0 /\ "apply_ready" \in Statuses
  BY RolloutConstants DEF Statuses
<1>2. status \in [Versions -> Statuses]
  BY <1>1 DEF RolloutInit
<1>3. RolloutTypes
  BY <1>1, <1>2 DEF RolloutInit, RolloutTypes, NoVersion
<1> QED BY <1>3
        DEF RolloutInit, RolloutInv, OnlyProvenVersionsTrade, OpenAfterFailure,
            Trying, Verified, NoVersion

LEMMA RolloutStays ==
  ASSUME RolloutInv, [RolloutNext]_rolloutVars
  PROVE  RolloutInv'
<1>1. CASE UNCHANGED rolloutVars
  BY <1>1 DEF rolloutVars, inMemory, runtime, locals,
              RolloutInv, RolloutTypes, OnlyProvenVersionsTrade, OpenAfterFailure,
              NeverBlocked, UnblockRaised, Trying, Verified
<1>2. CASE RolloutNext
  BY <1>2, RolloutConstants, RegistrationKeeps, BeginKeeps, RaiseOrCheckKeeps, RuntimeKeeps, MarkKeeps,
     EndKeeps DEF RolloutNext, Deploy
<1> QED BY <1>1, <1>2

\* The invariant of one lifecycle, for any number of versions of any sides.
THEOREM RolloutInvariant == RolloutSpec => []RolloutInv
BY RolloutStarts, RolloutStays, PTL DEF RolloutSpec

\* A failed rollout leaves entries open only if it had not blocked them yet, or over a
\* version it had verified and activated when its last call raised, whatever else
\* raises when (strategy_deployment.py:14-15, 176).
THEOREM OpenAfterFailureHolds == RolloutSpec => []OpenAfterFailure
<1>1. RolloutInv => OpenAfterFailure
  BY DEF RolloutInv
<1> QED BY <1>1, RolloutInvariant, PTL

\* A failed rollout never brings back a version of the other side
\* (strategy_deployment.py:144-146).
THEOREM OwnSideRestored == RolloutSpec => RestoresOwnSide
<1>1. ASSUME RolloutInv, [RolloutNext]_rolloutVars
      PROVE  [(step = "fail" /\ effective' # effective /\ Direction[target] # "none") =>
                Direction[effective'] = Direction[target]]_rolloutVars
  <2> SUFFICES ASSUME step = "fail", effective' # effective, Direction[target] # "none"
               PROVE  Direction[effective'] = Direction[target]
    OBVIOUS
  <2>1. Fail
    BY <1>1 DEF RolloutNext, Deploy, Register, Retire,
                Begin, StepRaises, Validate, Precheck,
                VerifyEffective, Checked, BlockEntries,
                ApplyVersion, MarkTargetActive, UnblockEntries,
                rolloutVars, runtime
  <2>2. effective' = previous /\ previous # 0
    BY <2>1 DEF Fail, NoVersion
  <2> QED BY <1>1, <2>2 DEF RolloutInv, NoVersion
<1> QED BY <1>1, RolloutInvariant, PTL DEF RolloutSpec, RestoresOwnSide
=============================================================================
