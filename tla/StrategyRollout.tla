---------------------------- MODULE StrategyRollout ----------------------------
(***************************************************************************)
(* Applying or rolling back a strategy version: one bounded lifecycle of   *)
(* control/strategy_deployment.py over the in-memory registry of           *)
(* control/strategy_version.py and a trading runtime of which every call   *)
(* may raise, with or without having taken effect.                         *)
(***************************************************************************)
EXTENDS Naturals, FiniteSetsExt

CONSTANTS
  N,          \* bound: versions ever registered; version v is the v-th
  Direction   \* [1..N -> {"LONG", "SHORT", "none"}]

Versions == 1..N
NoVersion == 0     \* no version; also what the runtime ran before the first rollout

ASSUME RolloutConstants ==
  /\ N \in Nat
  /\ Direction \in [Versions -> {"LONG", "SHORT", "none"}]

VARIABLES
  registered,  \* versions 1..registered are in the registry
  status,      \* their statuses
  activated,   \* versions whose activated_at is set
  effective,   \* the version the runtime runs
  blocked,     \* runtime.entries_blocked
  step,        \* where _deploy is, "idle" between rollouts
  target,      \* _deploy's local variables
  previous,
  applied,
  outcome,     \* of the latest rollout
  raised       \* history: the step in which the rollout at hand, or the latest, failed

inMemory == <<registered, status, activated>>
runtime  == <<effective, blocked>>
locals   == <<target, previous, applied>>
rolloutVars == <<inMemory, runtime, step, locals, outcome, raised>>

Statuses == {"apply_ready", "active", "previous", "retired"}
LiveSteps == {"validate", "block", "precheck", "apply", "verify", "commit", "unblock", "fail"}

RolloutInit ==
  /\ registered = 0
  /\ status = [v \in Versions |-> "apply_ready"]
  /\ activated = {}
  /\ effective = NoVersion
  /\ blocked \in BOOLEAN
  /\ step = "idle"
  /\ target = NoVersion /\ previous = NoVersion /\ applied = FALSE
  /\ outcome = "none" /\ raised = "none"

-----------------------------------------------------------------------------
(* The registry.                                                           *)

\* Mutant: the sides are not told apart.
ActiveOfAnySide(dir) ==
  LET matches == {v \in 1..registered : status[v] = "active"}
  IN IF matches = {} THEN NoVersion ELSE Max(matches)

\* active(direction): the last ACTIVE version of that side; without a side, of any.
Active(dir) ==
  LET matches == {v \in 1..registered : /\ status[v] = "active"
                                        /\ dir # "none" => Direction[v] = dir}
  IN IF matches = {} THEN NoVersion ELSE Max(matches)

Register ==
  /\ step = "idle"
  /\ registered < N
  /\ registered' = registered + 1
  /\ UNCHANGED <<status, activated, runtime, step, locals, outcome, raised>>

\* Mutant: the retired version is taken out of the list.
RetireDeletes(v) ==
  /\ step = "idle"
  /\ registered' = registered - 1
  /\ UNCHANGED <<status, activated, runtime, step, locals, outcome, raised>>

\* mark_retired takes any version, the ACTIVE one included.
Retire(v) ==
  /\ step = "idle"
  /\ status' = [status EXCEPT ![v] = "retired"]
  /\ UNCHANGED <<registered, activated, runtime, step, locals, outcome, raised>>

-----------------------------------------------------------------------------
(* The lifecycle.                                                          *)

Begin(v) ==
  /\ step = "idle"
  /\ target' = v
  /\ previous' = Active(Direction[v])
  /\ applied' = FALSE
  /\ IF status[v] = "retired" THEN step' = "fail" /\ raised' = "request"
                             ELSE step' = "validate" /\ raised' = "none"
  /\ UNCHANGED <<inMemory, runtime, outcome>>

\* Every step may raise, or find its check false.
StepRaises ==
  /\ step \in LiveSteps \ {"commit", "fail"}
  /\ step' = "fail" /\ raised' = step
  /\ applied' = (applied \/ step = "apply")
  /\ UNCHANGED <<inMemory, runtime, target, previous, outcome>>

Checked(at, next) ==
  /\ step = at
  /\ step' = next
  /\ UNCHANGED <<inMemory, runtime, locals, outcome, raised>>

Validate == Checked("validate", "block")
Precheck == Checked("precheck", "apply")

\* The call took effect and returned, or took effect and raised.
ReturnsOrRaises(next) ==
  \/ step' = next /\ UNCHANGED raised
  \/ step' = "fail" /\ raised' = step

\* Mutant: entries stay open while the version changes.
BlockNothing ==
  /\ step = "block"
  /\ ReturnsOrRaises("precheck")
  /\ UNCHANGED <<inMemory, runtime, locals, outcome>>

BlockEntries ==
  /\ step = "block"
  /\ blocked' = TRUE
  /\ ReturnsOrRaises("precheck")
  /\ UNCHANGED <<inMemory, effective, locals, outcome>>

ApplyVersion ==
  /\ step = "apply"
  /\ effective' = target
  /\ applied' = TRUE
  /\ ReturnsOrRaises("verify")
  /\ UNCHANGED <<inMemory, blocked, target, previous, outcome>>

VerifyEffective ==
  /\ effective = target
  /\ Checked("verify", "commit")

\* mark_active: demotes the ACTIVE version of exactly this direction.
MarkTargetActive ==
  /\ step = "commit"
  /\ status' = [v \in Versions |->
        IF v = target THEN "active"
        ELSE IF status[v] = "active" /\ Direction[v] = Direction[target] THEN "previous"
        ELSE status[v]]
  /\ activated' = activated \cup {target}
  /\ step' = "unblock"
  /\ UNCHANGED <<registered, runtime, locals, outcome, raised>>

UnblockEntries ==
  /\ step = "unblock"
  /\ blocked' = FALSE
  /\ ReturnsOrRaises("idle")
  /\ outcome' = IF step' = "idle" THEN "active" ELSE outcome
  /\ UNCHANGED <<inMemory, effective, locals>>

\* The except clause: the previous version is restored if anything was applied,
\* best effort, and the result is FAILED_CLOSED.
Fail ==
  /\ step = "fail"
  /\ step' = "idle"
  /\ outcome' = "failed_closed"
  /\ effective' \in IF applied /\ previous # NoVersion THEN {effective, previous} ELSE {effective}
  /\ UNCHANGED <<inMemory, blocked, locals, raised>>

Deploy ==
  \/ StepRaises \/ Validate \/ BlockEntries \/ Precheck \/ ApplyVersion
  \/ VerifyEffective \/ MarkTargetActive \/ UnblockEntries \/ Fail

RolloutNext ==
  \/ Register
  \/ \E v \in 1..registered : Retire(v) \/ Begin(v)
  \/ Deploy

RolloutSpec == RolloutInit /\ [][RolloutNext]_rolloutVars

-----------------------------------------------------------------------------
(* Properties.                                                             *)

RolloutTypes ==
  /\ registered \in 0..N
  /\ status \in [Versions -> Statuses]
  /\ activated \subseteq 1..registered
  /\ effective \in 0..registered
  /\ blocked \in BOOLEAN
  /\ step \in LiveSteps \cup {"idle"}
  /\ target \in 0..registered /\ previous \in 0..registered
  /\ applied \in BOOLEAN
  /\ outcome \in {"none", "active", "failed_closed"}
  /\ raised \in LiveSteps \cup {"none", "request"}

\* Entries are open only while the runtime runs a version that was verified and
\* activated at some time, or that it ran before any rollout.
OnlyProvenVersionsTrade ==
  ~blocked => effective \in activated \cup {NoVersion}

\* strategy_deployment.py:14-15, on a failure "the runtime is best-effort restored to
\* the previous version and entries stay blocked": a rollout that failed after it
\* began to change the runtime leaves the entries blocked.
EntriesStayBlocked ==
  (step = "idle" /\ outcome = "failed_closed" /\ applied) => blocked

\* What the code does of it.  A rollout that reports FAILED_CLOSED leaves entries open
\* only if it failed before it had blocked them, the runtime untouched, or in its last
\* call, unblock_entries(), which took effect and raised (strategy_deployment.py:176):
\* then over the version it had verified and activated, or the one restored; and in
\* either case over a version that was verified once.
NeverBlocked  == raised \in {"request", "validate", "block"} /\ ~applied
UnblockRaised == /\ raised = "unblock"
                 /\ target \in activated
                 /\ effective \in {target, previous}
OpenAfterFailure ==
  (step = "idle" /\ outcome = "failed_closed" /\ ~blocked) =>
    /\ NeverBlocked \/ UnblockRaised
    /\ OnlyProvenVersionsTrade

\* The inductive invariant behind these properties: an ACTIVE version was activated
\* once; while a version is tried, entries are blocked; from its verification on it
\* is what the runtime runs; and _deploy falls back to a version of its own side.
Trying   == step \in {"precheck", "apply", "verify", "commit", "unblock"}
Verified == step \in {"commit", "unblock"}

RolloutInv ==
  /\ RolloutTypes
  /\ OnlyProvenVersionsTrade
  /\ OpenAfterFailure
  /\ step = "fail" /\ ~blocked => NeverBlocked \/ UnblockRaised
  /\ step \in {"validate", "block", "precheck"} => ~applied
  /\ \A v \in Versions : status[v] = "active" => v \in activated
  /\ Trying => blocked
  /\ Verified => effective = target
  /\ step = "unblock" => target \in activated
  /\ step # "idle" =>
       /\ target # NoVersion
       /\ previous # NoVersion =>
            /\ previous \in activated
            /\ Direction[target] # "none" => Direction[previous] = Direction[target]

\* A failed rollout of one side never puts the other side's version into the
\* runtime (strategy_deployment.py:144-146).
RestoresOwnSide ==
  [][(step = "fail" /\ effective' # effective /\ Direction[target] # "none") =>
       Direction[effective'] = Direction[target]]_rolloutVars
=============================================================================
