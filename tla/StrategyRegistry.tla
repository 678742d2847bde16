--------------------------- MODULE StrategyRegistry ---------------------------
(***************************************************************************)
(* The strategy version registry of one family, as the database keeps it:  *)
(* one JSON document that promoters (strategy_candidate_promotion.py) read *)
(* and later write back whole, and that approved activations               *)
(* (trusted_strategy_activation.py) change inside one write transaction.   *)
(***************************************************************************)
EXTENDS Naturals, Sequences

CONSTANTS
  Runs,        \* research runs that pass the promotion bar, one family
  Order,       \* list_runs: the sequence of those runs, newest first
  Promoters,   \* processes running promote-strategy-candidates
  Approvals,   \* approval ids handed out for a version
  MaxUid,      \* bound: version ids ever drawn
  None

ASSUME RegistryConstants ==
  /\ Order \in Seq(Runs)
  /\ \A run \in Runs : \E i \in 1..Len(Order) : Order[i] = run
  /\ MaxUid \in Nat
  /\ None \notin 0..MaxUid

VARIABLES
  registry,  \* the document: the set of versions of the family
  audit,     \* gaon_strategy_activation_audit: approvals consumed
  scope,     \* the version id each approval was given for, or None
  promoter,  \* progress of each promotion pass
  uids,      \* version ids drawn so far (uuid4)
  latest,    \* history: the approval consumed last, or None
  raced      \* history: approvals consumed while a promoter held a copy

history == <<latest, raced>>
vars == <<registry, audit, scope, promoter, uids, history>>

Uid == 0..MaxUid
Version == [uid : Uid, run : Runs, status : {"apply_ready", "active", "previous"}]
\* pos: next run of the listing, 0 when no pass runs; seen: the registry that
\* was read for the run being registered; writing: between read and write.
Pass == [pos : 0..Len(Order), writing : BOOLEAN, seen : SUBSET Version]

Reading(pos) == [pos |-> pos, writing |-> FALSE, seen |-> {}]
Writing(pos, versions) == [pos |-> pos, writing |-> TRUE, seen |-> versions]

Init ==
  /\ registry = {}
  /\ audit = {}
  /\ scope = [a \in Approvals |-> None]
  /\ promoter = [p \in Promoters |-> Reading(0)]
  /\ uids = 0
  /\ latest = None
  /\ raced = {}

-----------------------------------------------------------------------------
(* promote_eligible_candidates: no transaction spans the read and the write *)
(* of one run.                                                              *)

StartPass(p) ==
  /\ promoter[p].pos = 0
  /\ Order # <<>>
  /\ promoter' = [promoter EXCEPT ![p] = Reading(1)]
  /\ UNCHANGED <<registry, audit, scope, uids, history>>

AfterRun(pos) == IF pos = Len(Order) THEN 0 ELSE pos + 1

Registered(versions, run) == \E v \in versions : v.run = run

ReadRegistry(p) ==
  /\ promoter[p].pos # 0
  /\ ~promoter[p].writing
  /\ promoter' = [promoter EXCEPT ![p] =
        IF Registered(registry, Order[@.pos])
        THEN Reading(AfterRun(@.pos))
        ELSE Writing(@.pos, registry)]
  /\ UNCHANGED <<registry, audit, scope, uids, history>>

\* register_apply_ready on the copy, then save: the whole document is replaced.
SaveRegistry(p) ==
  /\ promoter[p].writing
  /\ uids < MaxUid
  /\ uids' = uids + 1
  /\ registry' = promoter[p].seen \cup
       {[uid |-> uids, run |-> Order[promoter[p].pos], status |-> "apply_ready"]}
  /\ promoter' = [promoter EXCEPT ![p] = Reading(AfterRun(@.pos))]
  /\ UNCHANGED <<audit, scope, history>>

\* Killed, or "database is locked" raised: the rest of the pass is lost.
AbortPass(p) ==
  /\ promoter[p].pos # 0
  /\ promoter' = [promoter EXCEPT ![p] = Reading(0)]
  /\ UNCHANGED <<registry, audit, scope, uids, history>>

-----------------------------------------------------------------------------
(* activate_approved_version.                                              *)

\* A human approves a version the console shows.
Approve(a, v) ==
  /\ scope[a] = None
  /\ scope' = [scope EXCEPT ![a] = v.uid]
  /\ UNCHANGED <<registry, audit, promoter, uids, history>>

Marked(v, status) == [uid |-> v.uid, run |-> v.run, status |-> status]

\* Mutant: the version that was active is not demoted.
MarkActiveOnly(versions, uid) ==
  {Marked(v, IF v.uid = uid THEN "active" ELSE v.status) : v \in versions}

\* Mutant: the version that was active can be applied as if it never had been.
MarkActiveReady(versions, uid) ==
  {Marked(v, IF v.uid = uid THEN "active"
             ELSE IF v.status = "active" THEN "apply_ready" ELSE v.status) : v \in versions}

\* mark_active: the active version becomes previous, the target active.
MarkActive(versions, uid) ==
  {Marked(v, IF v.uid = uid THEN "active"
             ELSE IF v.status = "active" THEN "previous" ELSE v.status) : v \in versions}

\* Mutant: the audit row is written by a second transaction, which is lost.
ActivateUnaudited(a) ==
  /\ scope[a] # None
  /\ a \notin audit
  /\ \E v \in registry : v.uid = scope[a] /\ v.status \in {"apply_ready", "previous"}
  /\ registry' = MarkActive(registry, scope[a])
  /\ UNCHANGED <<audit, scope, promoter, uids, history>>

\* One BEGIN IMMEDIATE transaction: consumes the approval and activates.
Activate(a) ==
  /\ scope[a] # None
  /\ a \notin audit
  /\ \E v \in registry : v.uid = scope[a] /\ v.status \in {"apply_ready", "previous"}
  /\ registry' = MarkActive(registry, scope[a])
  /\ audit' = audit \cup {a}
  /\ latest' = a
  /\ raced' = IF \E p \in Promoters : promoter[p].writing THEN raced \cup {a} ELSE raced
  /\ UNCHANGED <<scope, promoter, uids>>

-----------------------------------------------------------------------------
Next ==
  \/ \E p \in Promoters : StartPass(p) \/ ReadRegistry(p) \/ SaveRegistry(p) \/ AbortPass(p)
  \/ \E a \in Approvals : Activate(a) \/ \E v \in registry : Approve(a, v)

Spec == Init /\ [][Next]_vars

-----------------------------------------------------------------------------
(* Properties.                                                             *)

TypeOK ==
  /\ registry \subseteq Version
  /\ audit \subseteq Approvals
  /\ scope \in [Approvals -> Uid \cup {None}]
  /\ promoter \in [Promoters -> Pass]
  /\ uids \in Uid
  /\ latest \in Approvals \cup {None}
  /\ raced \subseteq Approvals

\* A document: each version id and each run once, at most one version active,
\* and none active that no consumed approval names.
Sound(versions) ==
  /\ \A v, w \in versions : v.uid = w.uid \/ v.run = w.run => v = w
  /\ \A v, w \in versions : v.status = "active" /\ w.status = "active" => v = w
  /\ \A v \in versions :
       v.status # "apply_ready" => \E a \in audit : scope[a] = v.uid

\* strategy_version.py:9-13 and strategy_candidate_promotion.py:174: at most one
\* ACTIVE version, only through a consumed approval, and no run registered twice,
\* however promotions and activations overwrite each other.
RegistrySound == Sound(registry)

\* An approval is spent on what it was given for: its version stays activated for
\* good, and stays the active one until the next approval is spent, whatever passes
\* begin, write back or are cut off later.  The exception is an activation between a
\* promoter's read and its write, which the write undoes
\* (strategy_candidate_promotion.py:173-185) while the audit keeps the approval.
Keeps(versions) ==
  /\ \A a \in audit \ raced :
       \E v \in versions : v.uid = scope[a] /\ v.status # "apply_ready"
  /\ latest \in audit \ raced =>
       \E v \in versions : v.uid = scope[latest] /\ v.status = "active"
SpentForGood == Keeps(registry)

\* The inductive form of both: copies in the hands of promoters are as sound as the
\* document, keep what it keeps, and lack the run they are about to add.
RegistryInv ==
  /\ TypeOK
  /\ RegistrySound
  /\ SpentForGood
  /\ \A p \in Promoters : promoter[p].writing =>
       /\ promoter[p].pos # 0
       /\ Sound(promoter[p].seen)
       /\ Keeps(promoter[p].seen)
       /\ ~Registered(promoter[p].seen, Order[promoter[p].pos])
  /\ \A a \in audit : scope[a] # None
  /\ \A v \in registry : v.uid < uids
  /\ \A p \in Promoters : \A v \in promoter[p].seen : v.uid < uids
=============================================================================
