# A TLA+ verification of StrategyLab / Gaon

StrategyLab v2 ("Gaon") is a Python system that runs on one host: two systemd
services (`gaon-web`, `gaon-runtime`) over one SQLite database, command-line
commands that administrators and timers start beside them, and a deployment
pipeline that replaces the code under the services.  Very little of it is
parallel inside one process; what is hard is that *processes* interleave between
SQL statements or system calls, and that any of them may die or fail half way.
That is what the modules here are about.

Paths below are relative to the repository root.

## 1. Inventory

| Component | State | Operations | What is hard |
|---|---|---|---|
| **Deployment broker and worker** `deploy/cicd/` | live checkout, systemd units, `active.json`, `reports/`, `deploy.lock` | admit, prepare, stop, switch, check, start, verify, roll back, recover, abandon, report | two processes, death of either, calls that fail after taking effect, later runs after a cut-off one |
| **Strategy version registry** `src/gaon/control/strategy_version.py`, `strategy_candidate_promotion.py`, `trusted_strategy_activation.py`, `src/gaon/runtime/strategy_version_repository.py` | one JSON document per family, audit of consumed approvals | register, promote, approve, activate, retire | read-modify-write without a transaction beside a transaction |
| **Strategy rollout** `src/gaon/control/strategy_deployment.py` | registry, effective version and entry block of the runtime | apply, roll back | partial failure at each step, two sides (LONG, SHORT) |
| **Champion registry** `src/gaon/adapters/champion_registry.py` | active row, history, requests, decisions | bootstrap, request, approve, reject, roll back | each statement commits alone; concurrent commands, death between commits |
| **Mode transition and approvals** `src/gaon/control/transition.py`, `approval.py`, `trading_mode.py` | controller state, service, issued and consumed tickets | issue, transition DEMO/LIVE, record a verification | fail-closed on every path |
| **Scheduled automation and daily briefing** `src/gaon/runtime/scheduled_automation.py`, `daily_briefing.py` | jobs, runs | register, enable, disable, claim, run, complete, plan the next day | claims by a unique key, counting attempts, messages sent again after a timeout, a dead runner, two kinds of runner over one table |
| **Task queue** `src/gaon/runtime/worker.py` | queue items with leases | enqueue, lease, run, succeed, fail, cancel, recover | a lease whose update is not looked at, reports that write by id, recovery beside workers that still run, against a clock that stands still |
| **Telegram poll** `src/gaon/runtime/telegram_worker.py`, `cli.py`, `src/gaon/integrations/telegram/` | update offset, processed ids | poll, take, answer, save the offset | at-most-once handling over restarts and beside manual polls |
| **Event store** `src/gaon/runtime/event_store.py`, `repositories.py` | event log, replay positions | append, replay | idempotence of append, order of replay |
| **SQLite lock and storage** `src/gaon/runtime/sqlite_lock.py`, `storage.py`, `storage_maintenance.py`, `deploy/scripts/storage_lifecycle_manager.py` | lock file, database, backups | lock, back up, verify, prune | stale locks, a prune next to a backup |
| **Handoff and strategy deployment** `src/gaon/adapters/strategy_handoff.py`, `strategy_deployment.py` | packages, approvals, plans, runs, the active strategy file, backups | create, approve, reject, plan, run, roll back | a commit per statement, files written in place, one backup file and one run record per plan |
| **Paper-forward, champion evaluation, execution adapters** `src/gaon/adapters/` | reports, observations | evaluate, observe | arithmetic over reports |
| **Trading and exchange adapters** | none of their own | read-only calls, paper orders | external services |
| **Backtest, validation, `src/strategylab/`** | none | numeric computation | floating point; no concurrency |
| **Conversation, LLM and agent runtime** | sessions | interpret, answer | text, not state |
| **Research, briefing, knowledge, learning, cognitive** | documents and records | transform, store, deliver | large data, sequential code |
| **Web API, passkey, console, CLI** | sessions | views, commands | wiring; the commands appear as actions of the components they call |

### How the components interact

* The workflow gate in CI starts one broker per run over ssh.  Broker and worker
  talk over a pipe: the worker asks for privileged calls, the broker performs
  them, and only the broker writes the journal and the report.  systemd restarts
  a service that died with whatever is checked out at that moment.
* A research run that passes the promotion bar is registered APPLY_READY
  (promotion), approved by a human, activated in the database (activation), and
  applied to the trading runtime by a rollout.
* A challenger evaluation leads to a promotion request; approving it makes the
  challenger the champion of its slot.  A champion with a LIVE_ELIGIBLE report is
  packaged, approved once more, planned and deployed to a target directory
  (`StrategyRelease` sees of the champion registry only which version is active).
* Every start of a runtime service recovers the task queue, also beside the workers of
  another one: `run --once` runs the same `start()` (cli.py:1223-1233) and nothing keeps
  it away; and `stop()` gives a worker up after 5 s without ending it (service.py:92-101).
* The runtime service polls Telegram and runs due briefings in one thread; commands
  an operator starts (`telegram-poll-once`, `run --once`, `schedule-run-due`) do the same
  over the same tables.
* All persistent components share one SQLite database and its write lock, so a
  statement is atomic and a sequence of statements is not, unless the code opens
  a transaction.

### What makes each modelled component correct

* *Deployment*: no outage that the journal does not tell of; the checkout moves
  only under stopped services; a report never claims a success or a rollback that
  did not happen; a deployment ends with the new commit served, the old commit
  served, or all further deployments blocked.
* *Registry*: at most one active version per family, only by a consumed approval,
  no run registered twice; a consumed approval keeps what it was consumed for.
* *Rollout*: a version being tried does not trade, and a rollout that reports a failure
  leaves entries blocked, but for what its last call may do; LONG and SHORT do not
  disturb each other.
* *Champion*: the history is a gapless chain of approved versions, and whatever
  interleaves, the slot behaves as if activations were atomic, each promotion bringing
  in an approved challenger and each rollback the champion before.
* *Telegram*: a message is taken once at most and never passed over untaken; only
  the poller that took it answers it.
* *Scheduled jobs*: a run has one executor, attempts are bounded, every message belongs
  to one of them and none brings more of it than its sending is retried, no day is left
  out of the chain of briefings.
* *Mode*: whatever a transition met, entries are open only over a service that runs
  in the mode the controller reports; a ticket turns the system LIVE once.
* *Task queue*: until a start takes an item out of a worker's hands, it has one executor
  although a lease may be handed out twice, each failure counts once and what is finished
  stays finished; each such start costs one more executor and one more attempt at most.
* *Release*: nothing unapproved reaches the target or a backup, and a deployer that
  worked alone reports what the target holds.

The hazards behind these properties are listed with their lines in
`PROJECT.json`; where a property covers a hazard only in part, or not at all, a note
says which part is left.

## 2. Plan

Order: what can hurt production first, then what decides which strategy trades.

1. *done* `ReleaseSlot` (abstract), `DeployBroker`, and proofs.
2. *done* `StrategyRegistry` and proofs.
3. *done* `StrategyRollout`, with proofs in `StrategyRegistryProofs`.
4. *done* `AtomicChampion` (abstract), `ChampionRegistry` and proofs, with the
   refinement proved.
5. *done* `ModeTransition` and proofs: `transition.py` with the tickets of `approval.py`
   and the controller of `trading_mode.py`.
6. *done* `Inbox` (abstract), `TelegramPoll` and proofs, with the refinement proved.
7. *done* `BriefingChain` (abstract), `ScheduledJobs` and proofs, with the refinement proved.
8. *done* `AtomicQueue` (abstract), `TaskQueue` and proofs, with the refinement proved.
9. *done* `StrategyRelease` and proofs.
10. `ResearchTick`: the tick that registers, retires and plans autonomous research
   (autonomous_research_runtime.py), which, unlike the chain of briefings, repairs itself:
   its liveness is the property.  Then storage_maintenance.py, which has the same shape.
11. `EventReplay`: append and replay over the event store (replay is only run dry), the
   storage lifecycle and the single-writer lock.
12. Composition: `ChampionRegistry` with `StrategyRelease`, which today sees of it only
    which version is active.  (`StrategyRegistry` and `StrategyRollout` are not composed:
    nothing in `src/` hands an activation in the database to the in-memory registry that a
    rollout works on.)

Bounds follow one rule: two of everything that can race, and enough steps that
each failure can hit a second attempt.

## 3. Modules

### DeployBroker (deploy/cicd/deployment_broker.py, deploy_worker.py, service_control.py)

`bpc[r]` is where the broker of run `r` is in `main` and `Session.execute`;
`worker[r]` where its worker is: before the checkpoint (`preflight`, `prepare`), in
the rollout (`apply`), the rollback (`rollback`, also of a recovery worker) or the
last resort (`giveup`), and at which of the seven steps of `Plan`.  `journal`,
`reports` and `lock` are the files, `session` and `result` the broker's memory,
`head` and `unit` the host, `main` the branch on GitHub.

* A privileged call of the worker is one action of the broker (`Prepare`,
  `RecordStop`, `Dispatch`), with an alternative in which it took effect and
  reported failure; `StepFails` is every failure without effect.
* The first stop is two actions because the code writes the journal first
  (`RecordStop`) and calls systemctl afterwards (`Dispatch`).
* `WorkerCrash` and `BrokerCrash` are enabled at every step.  A worker whose broker is
  gone can no longer make privileged calls, but still runs git (`Switch` does not
  require `Supervised`).
* `UnitFails` and `UnitRestarts` are systemd (external): a service that dies
  is restarted from the checkout of that moment.
* The content of bundles, schemas and backups, and the compatibility checks, are one
  guard each: `StepFails` or success.  Commands a dead worker leaves running are not
  modelled.

The services' health is modelled as "both active"; whether the code that is
checked out works is the choice between `ImportCheck`/`Verify` and `StepFails`.

`ReleaseSlot` is what all this promises: `Slot` maps the journal and the lock to its
state, and `SlotSpec`, `SlotFairSpec` state the refinement.

### StrategyRegistry (the registry document under concurrent processes)

`registry` is the document of one family as the set of its versions; a promoter holds
the copy it read (`seen`) until it writes it back with one version more; an
activation is one action, because the code opens `BEGIN IMMEDIATE` first.  The
listing of runs is fixed (`Order`); the promotion bar itself is data.
`AbortPass` is the death of a pass or a "database is locked" error.  `Version` carries
the three statuses the persisted path can produce: nothing retires a
version in the database.  Two histories serve `SpentForGood`: `latest` is the approval
consumed last, `raced` the approvals consumed while some promoter held a copy.

### StrategyRollout (one lifecycle over runtime and in-memory registry)

One action per step of `_deploy`.  A runtime call may take effect and raise
(`ReturnsOrRaises`), or raise without effect (`StepRaises`, which is also a check
that finds its condition false).  `Fail` is the except clause: it may or may not
manage to restore the previous version.  `raised` remembers the step that failed: the
result does not tell, and `OpenAfterFailure` asks which step it was.  Versions are numbered in the order of
registration, so `Active`, which the code computes as the last match of the list, is a
maximum.  The controller is a single thread: `Register`, `Retire` and a new
rollout only start between rollouts.

### ChampionRegistry (commands as processes)

`client[c]` is the command a process runs and the statement it is at.  Reads that
decide are actions (`Bootstrap`, `Request`, `Approve`, `Reject`, `ReadCurrent`,
`Rollback`), and so is every write, because each is committed by its own `with
connection`.  `AddHistory` fails when `UNIQUE(slot, revision)` is violated, which
ends the command.  `Abort` is death or an exception at any statement, the events it
records included.  A promotion id stands for its evaluation (the code refuses a
second id for one evaluation).  Each version carries its `activation_type`.
`AtomicChampion` is the slot if every activation were one step: a bootstrap fills an
empty slot, a promotion brings in the challenger of an approved request, a rollback
the champion before the present one; `Champions` reads the sequence, kinds included, off
the history.

### TelegramPoll (poll_once by the service and by telegram-poll-once)

`poller[p]` is where a process is in `poll_once`: before `getUpdates` (`fetch`), at an
update of its batch (`update`), answering it (`reply`), or at the two statements of
`_save_poll_offset` (`save` has read nothing yet, `write` has decided to write).
`offset` and `processed` are the two tables; `arrived`, `confirmed` and `delivered`
are Telegram, which forgets updates below an offset it was asked for (external).
Kinds of update are those `parse_update_result` and the allowlist tell apart.
`Send` and `SendFails` are one attempt of `_send_with_retry`, which may reach the chat
and fail.  `Abandon` is a malformed payload, any other exception, and death.
An answer counts as one message; splitting long answers is left out.

`Inbox` is the abstraction: a message waits, is taken, and is settled, with at most
`Attempts` answers while it is taken.  `State` reads this off `processed` and the
pollers, so the refinement says that no second poller ever takes or answers.

### ScheduledJobs (briefings and schedule-run-due over one job table)

`jobs[d]` is the job of day `d`, `runs` the table of runs with its key `(day, started)`.
`runner[p]` is a process in `run_due`: at the count or the insert of `claim_run`,
executing, at `complete_run`, at the event recorded inside the try (`record`), or at
`_reschedule_next_occurrence` (`plan`).  `todo` is the list of due jobs, read once.
Schedulers (the service, `run --once`) deliver and plan; operators dispatch the
request text and plan nothing.  A briefing goes through `_send_with_retry`
(telegram/runtime.py:73-80, 99-110), which calls Telegram again when a call goes wrong,
also when it was a timeout after Telegram had taken the message: `Resend` is a call that
is followed by another, `Deliver` the last one, `try` counts them, and `sent` is what
arrived, for each run by its day and start.  A long briefing is sent in parts, each with
its own retry; `sent` follows any one of them.  `FailsInTry` are the statements whose exception is
caught and recorded as a failure, `Abandon` every other exception and death.
The three kinds of briefing share no row, so one chain stands for each.
`ensure_daily_briefing_jobs` has acted in `Init` and never acts again, because the
first job stays in the table.

`BriefingChain` is the chain without processes, claims and rows: each day is unplanned,
planned or done, has tries, and each try has sent so and so many messages.  `Stage` reads
it off the jobs and the runs (a day is done with its first run that succeeded or failed;
a blocked run does not count), `Tried` are the starts of a day's rows.  The bound `Tries`
is what the code allows: `MaxAttempts` and one more for every process but one; a try
sends `PerTry` messages at most, which is `SendAttempts`.

### ModeTransition (control/transition.py, approval.py, trading_mode.py)

`ctl` is the controller's state, `service` the trading service as it is, `run` the
local state of one `execute()`: the step whose call has not returned, the copy of the
controller's state it works on, and whether it has touched the service.  One action
per step; a step that makes a call ends in its own action (the call answers yes),
`VerifierSaysNo` or `CallRaises`, and the last two end in `FailClosed`, the helper that
both error paths share, with its restart that may raise and is swallowed.  `Adopt` is
the caller that takes `result.state`; between any two steps verifications may be
recorded into the controller (`Verify`), tickets issued and time may pass.

* A verifier observes the mode of a running service or nothing; the configured mode
  of a restarted service is any mode, because the service manager is outside the code.
* `positions_safe` and `target_account` are answers without a state of their own.
* Tickets keep the instant they expire at and whether they are for DEMO to LIVE with
  the LIVE intent; the ids are drawn fresh.
* `live_approved=True`, the override of callers that validated before, is left out: it
  turns off what `OneTicketOneLive` is about.  So is a service that dies by itself
  between transitions, of which the controller could only learn by a verification.
* `desired_mode`, `credential_profile`, `strategy_version` and the `last_*` texts are
  carried along without a decision taken on them.

### TaskQueue (runtime/worker.py, and its recovery in service.py)

`status`, `attempts` and `due` are the columns of an item, `worker[w]` is a thread and
where it is: between the select and the update of `lease_next` (`selected`), with an
item in its hands (`held`), running it, or between the read and the write of
`mark_failed` (`failing`).  `Guarded` is `_transition`: one update with the status it
expects, whose row count is checked.  `lease_next` does not check the row count of its
own update, so two workers may be handed one item; `Lease` says so.  `ComesDue`
is the clock.  Enqueuing is an environment's: nothing in `src/` enqueues in production,
and no loop in `src/` works the queue, so nothing is claimed about items being decided
in the end.

`Start` is `recover_stale` in the `start()` of some service.  It puts every RUNNING item
back, whoever runs it, because `run --once` starts beside the live service and `stop()`
leaves a worker that takes longer than 5 s at work; a LEASED item does not go back,
because `recover_stale` compares with an instant that is fixed in service.py:59.
`LetGo` is independent of it: the worker dies, gives the item up, or its report raises
(a locked database), and the row stays as it is.  `overtaken[i]` counts the starts that
put item `i` back under an executor: what the code promises holds until the first of
these, and degrades by one with each.

`AtomicQueue` is the queue without leases, retries and recovery: an item is open, in one
hand at a time, and decided; `Dispute` takes items out of the hands they are in, and
nothing is promised of them afterwards.  `State` shows the three unfinished statuses as
open and an overtaken item as disputed, and `InHand` holds the items some worker
executes; leasing, releasing and the recovery of abandoned rows are stutters.  The
abstract `Fail` takes a cancelled item too and leaves it open again, because
`mark_failed` does (see the findings); a success may not.

### StrategyRelease (adapters/strategy_handoff.py, strategy_deployment.py)

`package`, `records` and `latest` are the handoff tables, `clerk[c]` a command that
approves or rejects: it decides on the status it read, commits its record, then reads
and writes the package in two more statements.  `plan` is the result of the preflight,
`run` the record of the run of each plan (one row, replaced by every run), `target` the
active strategy file, `backup` the backup file of each plan, and `deployer[d]` a process
in `run()` with the statement it is at.  Which record is the latest goes by
`decided_at`, taken at the start of a command, so among overlapping commands either may
be (`Record`).

* A file that is being written when the process dies or the write raises is torn.
* `Raises` is an exception after the package was applied and leads to the rollback in
  the except clause (the second rollback, of an exception behind the first one,
  strategy_deployment.py:403-409, restores the same backup again and is left out); `ApplyFails` is one while it was being applied, which restores
  nothing because `modified` is still False; `Dies` is death and everything that raises
  out of `run()`.
* The reload, the health check and the verification are one answer (`NotVerified`); the
  preflight is one action, since all it reads it reads at once and its verdict is what
  counts.  The fake adapter, the export and the validation of the target's name
  change no state.
* `Promote` is the champion registry (external here): any version may become active.

## 4. Runs

| Run | Checks | Bounds | Shows |
|---|---|---|---|
| `deploy` | `OutageIsJournalled`, `ReportsAreTrue`, `IInv`, `CheckoutMovesWhileStopped`, `SlotSpec`, `SlotFairSpec`, `LockIsReleased` | 2 runs of different commits, the second of them the one that is live at first, fair | 440,000 states: the second run meets every state the first can leave behind, with its worker still alive or not; an opened deployment closes or blocks |
| `registry` | `RegistrySound`, `RegistryInv`, `SpentForGood` | 2 promoters, 2 runs, 3 approvals, 8 version ids | 117,000 states: lost updates never break the document, and undo an approval only from a copy that was held when it was consumed |
| `rollout_safety` | `RolloutInv`, `OpenAfterFailure`, `RestoresOwnSide` | 4 versions: two LONG, one SHORT, one undirected | any order of rollouts, rollbacks, retirements and failures |
| `rollout_unblock` | `EntriesStayBlocked` | the same | *violated* |
| `champion_safety` | `RevisionChain`, `ApprovedOnly`, `ChampionInv`, `ImplementsSlot` | 2 processes, 2 promotions, 2 strategies, 4 revisions | 363,000 states: interleavings and deaths of two commands over three activations after the bootstrap |
| `telegram_poll` | `OffsetIsSafe`, `PollInv`, `ImplementsInbox`, `TextsAreTaken` | 2 pollers, 5 updates (a whole batch without messages, a message, one from a stranger, a malformed one), batches of 2, 3 attempts, a manual poll that goes back to update 2, fair | no interleaving or death loses, skips or doubles a message, and every message that no malformed update precedes is taken |
| `jobs` | `JobsInv`, `OneExecutorPerRun`, `NoDaySkipped`, `SuccessIsFinal`, `ImplementsChain` | service and operator, 2 days, 2 attempts, 2 calls for a message; the clock runs to 2 and the operator may give `--now` 4, when both days are due | 821,000 states: claims, retries, messages sent twice, both jobs in one list, planning |
| `jobs_chain_breaks` | `ChainGoesOn` | the service alone, fair | *violated* |
| `mode` | `ModeInv`, `EntryMatchesService`, `OneTicketOneLive`, `NotLeftDark`, `FailedStaysClosed` | 2 tickets that live one instant, 3 instants | transitions in both directions one after another, a ticket presented twice, late, or for the wrong transition, and every failure of every call, also of the restart |
| `queue` | `QueueInv`, `RunnersBounded`, `FailuresAreCounted`, `AttemptsBounded`, `ImplementsQueue` | 2 workers, 3 items of which 2 share a key, 2 attempts, 2 starts | 610,000 states: double leases, failures racing cancellations, starts beside workers at every statement and a second one during the retry |
| `release` | `ReleaseInv`, `OnlyApprovedOnTarget`, `TargetAsReported`, `RejectionSticks` | 2 clerks, 2 deployers, 1 package with its plan, 2 champion versions | overlapping decisions and deployments, reruns of one plan over its own backup after any death |
| `release_duplicate` | `DuplicatePrevented` | the same with one deployer | *violated* |

`IInv`, `RegistryInv`, `RolloutInv`, `ChampionInv`, `PollInv`, `JobsInv`, `ModeInv`,
`QueueInv` and `ReleaseInv` are the inductive invariants of the proofs (in `release`,
the part of them that is not a property of the run already); each has the module's
`TypeOK` (`RolloutTypes`) as a conjunct, so these runs check the types through them.  What follows from
them by a theorem is not checked again: `NoJournalMeansServing` from `IInv`,
`BoundedDeliveries` from `JobsInv`, `FinishedIsFinal` from `QueueInv`, `OnlyProvenVersionsTrade`
from `RolloutInv`.

Deadlock is checked except in `jobs_chain_breaks`, which ends when no job is left and
the clock is at its bound, in `queue`, which may end with every item decided or left RUNNING
or LEASED by a worker that let go, and in `champion_safety`, where the system may really stop: with every request settled and no
predecessor to return to, the remaining commands are refused.  `mode` declares its tickets symmetric, and `release` its clerks and
its deployers: neither run checks a liveness property, and no definition tells the
members of these sets apart.  The other models are small enough without.

Why the bounds suffice.  The properties speak about pairs (a stale reader and a
writer, a dead deployment and the next one), and two of each make every pair.  In
`ChampionRegistry` revisions up to 4 allow bootstrap, promotion, rollback and one more
activation that overlaps any of them.  In `StrategyRollout` no property
distinguishes more than a target, its predecessor and a version of the other side,
plus an undirected one.  In `ModeTransition` a second ticket serves a second attempt;
in `StrategyRelease` packages and plans meet only in the target, where the second
deployer of one plan shows more than a second plan, for it shares the backup as well
(instances with two packages and two plans were run too and need some minutes).  A run
of `queue` with one start cannot overtake an item in its first and in its second try.
`jobs` is kept to two calls for a message, where the code makes three: two
show the resend and the message that arrives twice.  Day 1 can start at three
instants there, which is also the bound on its attempts, so in this run the key of the
table keeps that bound too; that the count keeps it is the theorem, for any instants.
The theorems below hold without bounds on runs,
commits, promoters or processes.

### Fairness

* `DeployBroker!Fairness`: weak fairness of each process.  All waits have timeouts
  (120 s for the lock, 1200 s for the worker, a limit for each command), so a process
  that is alive takes its next step.  Death and repair by systemd are not fair.
* `TelegramPoll!Fairness`: systemd restarts the service (`Restart=` of its unit), which
  ticks again (`Begin`); sending is weakly fair because it ends in a timeout; the other
  statements are strongly fair, for a service that dies at the same statement every
  time takes nothing.  Manual polls are not fair.
* `ScheduledJobs!Fairness`: the clock goes on and the service ticks and takes its steps;
  death is possible but nothing requires it.

The other modules state no fairness.  Nothing in the repository starts a promotion again
(strategy_candidate_promotion.py:25: "Not wired into any always-on service loop"), a
worker of the task queue, a deployer or a command, so that a registration, an item or a
request is settled in the end is not claimed.

## 5. Theorems

Constants are arbitrary, subject to `DeployConstants`, `RegistryConstants`,
`RolloutConstants`, `ChampionConstants`, `PollConstants`, `JobConstants`,
`TicketAssumption`, `ClockAssumption`, `QueueAssumption` and `ReleaseAssumption`
(non-clashing absent values, functions of the right type).

* **DeployBrokerProofs.** `IInv` is inductive.  The safety properties alone are not:
  that an outage is journalled depends on *which* process owns the journal
  (`OneBroker`), on the session of a live worker agreeing with the journal
  (`WorkerPlace`, `SessionJournalled`), on units being stopped at the steps of the plan
  where they should be (`StoppedInPlan`, also for workers without a broker, whose units
  nobody else can start), and on what is stopped once the broker gives up or reports
  (`CleanBeforeClear`).  From `IInv` follow `OutageIsJournalled`,
  `NoJournalMeansServing` and, as an action property, `CheckoutMovesWhileStopped`.
  `TruthInv` adds to `ReportsAreTrue` what the claims need (`ClaimsExclude`): no outcome
  claims both a success and a rollback, a broker that recovers claims no success, and one that
  gives up takes its rollback back.  `JournalFits` gives the refinement of `ReleaseSlot`:
  the journal's run was admitted, the checkout is one of its two commits, and no
  attended worker before its checkpoint finds a journal, so the checkpoint is `Open`,
  removing the journal `Commit` or `Restore`, and losing the lock over it `Block`.
* **StrategyRegistryProofs.** `RegistryInv` says that the copies in the hands of
  promoters are as sound as the document and keep what it keeps.  Writing one back can
  therefore lose updates, but not create a second active version, one without approval,
  or a second registration (`RegistrySound`), and what it loses of an activation was
  activated after the copy was read (`SpentForGood`): an approval consumed while nobody
  held a copy stays in every later copy.  The module also
  holds the proofs about `StrategyRollout`, which it extends too (the two share no
  name; nothing composes their states): `RolloutInv` adds to `OpenAfterFailure` that
  entries are blocked while a version is tried, that the effective version is the target
  once it is verified, what the except clause finds when entries are open (nothing
  applied, or `unblock_entries` raised), and that the fallback was
  activated before and is of the target's side; `RestoresOwnSide` follows from the last.
  That `Active` finds the last match is proved from well-foundedness.
* **ChampionRegistryProofs.** `ChampionInv`: at most one process is between the insert
  and the active row, and whatever a process proposes is either stale (its revision
  is taken, so the insert will fail) or follows from the present champion the way its
  command has to (`Follows`): the challenger of its request, or the champion before.  That
  is also the refinement step: `PutActive` is `Bootstrap`, `Promote` or `Rollback` of
  `AtomicChampion`, as the kind of the version says, and the record of an approval is
  `Approve`; everything else is a stutter.
* **TelegramPollProofs.** `PollInv`: whatever a poller is about to fetch from, works on
  or has behind it is safe, that is, every message before it has been taken; and no
  two pollers answer one message.  From it follow `TypeOK`, `OffsetIsSafe` and the
  refinement: `Take` is `Inbox!Take`, a send is `Answer`, giving up is `Settle`.
* **ScheduledJobsProofs.** `JobsInv` is inductive.  `ClaimInv`: every executor has a row
  with its key and its attempt, and no other executor has the same key.  `TypeInv`: the
  types, and what a process has in hand at each statement.  `RowInv`: the rows have
  different keys, and the row of an executor has the status its place requires, so
  nobody finishes a run that has succeeded.  `CountInv`: the rows of a job and the
  processes between the count and the insert are fewer than `MaxAttempts` plus the
  processes: the count is only passed below `MaxAttempts`, and each process inserts at
  most once on it.  `SentInv`: what has arrived has its row, never exceeds
  `SendAttempts`, and while the row has an executor is no more than the calls it
  has made; that needs the key, for a second executor of the row would start to count
  again.  From it follow the safety properties of the run, its types and
  `BoundedDeliveries`.  In `BriefingChain` an insert is `Try`, a call that arrives
  `Send`, whether it is made again or not, the
  first completion that is a success or a failure `Close`, and planning `Plan`; that a
  day is planned before anything has run for it (`RunsPlanned`) makes the last a step
  from "unplanned" to "planned".  Nothing is assumed about the clock or about the values
  `--now` gives.
* **ModeTransitionProofs.** `TicketInv`: an attempt that is past its approval holds a
  consumed ticket that has completed nothing yet, so one that is in progress is the only
  completion still to come.  `GateInv` carries `EntryMatchesService` over the attempt: the
  result that is about to be adopted is as true of the service as the controller's
  state.  `DarkInv`: a service that is down although the attempt found it up has been
  touched, so every error path starts it again.
* **TaskQueueProofs.** `RunnerInv`: an item has one executor more than it was overtaken
  only while it is RUNNING or was cancelled under its runner, so the guard of
  `mark_running` refuses every other holder of the same lease, and a start that puts the
  item back pays for the executor it lets in.  `LimitInv`: the attempts and the executors
  that are left, each of which may still report a count of its own, never exceed
  `MaxAttempts` by more than the starts that overtook the item.  `CountInv`: a count that
  was read is no more than the failures there were, and is still the row's while nobody
  else executes the item.  From these follow the four properties of the run, for any
  number of workers and starts, and `FinishedIsFinal`.  In `AtomicQueue` `mark_running` is
  `Take`, `mark_succeeded` is `Succeed`, or `Drop` of an item that was cancelled
  meanwhile, `mark_failed` is `Fail`, letting go is `Drop`, and a start is `Dispute` of
  the items it takes out of a hand, or a stutter when it finds abandoned rows only.
* **StrategyReleaseProofs.** `OnlyApprovedOnTarget` needs that a plan that passed, a
  package that is approved, and what a deployer works on have an approval on record.
  `TargetAsReported` needs, for a deployer that is alone, what the target and its own
  backup hold at each place of `run()`; starting a second deployer takes the claim
  away from both.  A rejection is settled by the package's status and the clerks
  at work, which is inductive by itself.

Only model-checked: the liveness properties (`SlotFairSpec`, `LockIsReleased`,
`TextsAreTaken`), since liveness under fairness
is outside what the proof system handles.  Every invariant and action property of the
passing runs, and the safety part of every refinement, is proved.

## 6. Findings

Each is a run whose property, taken from the repository's own words, is violated.

1. `jobs_chain_breaks`: a death, or a locked database, between completing a briefing and
   planning the next ends the briefings for good.
2. `release_duplicate`: a run of a plan whose package is deployed is refused with "duplicate
   deployment prevented"; the refusal is written over the record of the success, under
   the same run id, so the next run of the plan deploys again, and its backup then
   holds the package itself.
3. `rollout_unblock`: "entries stay blocked" on a failure (strategy_deployment.py:14-15),
   but `unblock_entries` (:176) may take effect and raise: the result is FAILED_CLOSED with
   entries open, over the target or over the previous version, while the registry already
   calls the target ACTIVE.  `OpenAfterFailure` states the other cases: none but this
   one opens entries that the rollout had blocked.

The models show more differences from what the documents say, which are not runs
of their own; each is a short trace of the module named:

* `DeployBroker`: the broker merges the recovery result over the first result
  (deployment_broker.py:318); `manual_recovery_required` of a failed rollback survives a
  recovery that succeeded, and the journal is kept although
  docs/operations/gaon-deployment-recovery.md:50 keeps it for failed recoveries.
* `StrategyRegistry`: `promote_eligible_candidates` says it never mutates an existing
  version (strategy_candidate_promotion.py:159); it overwrites an activation that
  committed between its read and its write.  The approval stays consumed in the audit, so
  it is spent on nothing; `SpentForGood` excepts exactly these (`raced`).
* `StrategyRegistry`: a pass that is killed at the same run each time registers nothing
  behind it, and nothing in the repository starts the next pass.
* `ChampionRegistry`: a death between history and active row takes the next revision for
  good; rollback and promotion of that slot fail from then on
  (docs/operations/ChampionRegistry.md:42).
* `ChampionRegistry`: an overlapping approval and rejection of one pending request both
  succeed, each checking the status it read first (champion_registry.py:276-284,
  312-319); the request may end rejected with its strategy active.
* `TelegramPoll`: two polls at once may put the saved offset back (cli.py:6500-6502);
  `processed_messages` keeps the messages in between from being answered again.
* `TelegramPoll`: a message whose poller dies behind `mark_processed` is never answered;
  `Inbox` allows it (a message is settled with none to `Attempts` answers).
* `ScheduledJobs`: attempts are counted outside the transaction that inserts the run
  (scheduled_automation.py:157), so runners with different timestamps may make more
  than `max_attempts`; `BoundedDeliveries` and the `Tries` of `BriefingChain` state the
  bound that does hold.
* `ScheduledJobs`: one run may bring its briefing into the chat three times, when calls
  time out after Telegram has taken the message (telegram/runtime.py:99-110), and may be
  recorded as failed on top of it and be retried, with three more.
* `ScheduledJobs`: a blocked run whose event cannot be recorded is completed once more, as
  failed (scheduled_automation.py:246-255).

* `StrategyRelease`: when `apply_package` raises half way, the target is torn, the run is
  FAILED without a rollback, and every later backup raises on the torn file
  (strategy_deployment.py:354-357, 219-226).
* `StrategyRelease`: `run()` does not look again at the champion and the approval that
  `plan()` checked, however much later it comes.
* `StrategyRelease`: a clerk that dies after its record and before the package's update
  leaves a package whose approval can be neither repeated (its id is taken) nor used; it
  can only be rejected.  Overlapping decisions may turn an approved package rejected,
  or a rejected one approved, because `update_package` checks and writes in two statements
  (strategy_handoff.py:241-251); what is on record decides at the next plan.
* `StrategyRelease`: a rerun after a death saves what the first run left in the target,
  an unverified package, over the backup of what was there before it.
* `TaskQueue`: a worker that reports a failure puts an item back that was cancelled while
  it ran, because `mark_failed` writes by id alone (worker.py:105-112).
* `TaskQueue`: a start beside workers that still run (`run --once` next to the live
  service, or a restart over a worker that `stop()` gave up on) puts a RUNNING item back
  under its executor: it is executed a second time, two failures may be counted as one,
  a late `mark_failed` opens or fails an item that had succeeded meanwhile, and the
  attempts may pass `max_attempts` by one for each such start.
* `TaskQueue`: a worker whose report meets a locked database leaves the row RUNNING with
  no worker until the next start; and the instant `recover_stale` is given
  (service.py:59) stands still, so the lease of a worker that let go before
  `mark_running` is never taken back.
* `ModeTransition`: a risk guard triggered while an attempt runs is overwritten when its
  completed result is adopted, because `execute()` works on a copy.

## 7. Not modelled

Floating-point backtests and validation, text understanding, language models, HTTP
views, cryptography, migrations and the transformation of research and knowledge
records: they are sequential functions of data, or external services.  They are also
most of the code by size, about 109,000 lines, so the modules, which cover what
keeps state and meets failure or another process, stand for a small share of it.

State machines that are still to be written are plan items 10 and 11.  Of the modelled
components, `schedule-create`, the order of the ticks of the runtime service, and what is
named in section 3 as left out are not in the models.
