---------------------------- MODULE DeployBroker ----------------------------
(***************************************************************************)
(* The production deployment of one host: the root broker                  *)
(* (deploy/cicd/deployment_broker.py) admits one workflow run at a time,   *)
(* supervises the unprivileged worker (deploy/cicd/deploy_worker.py) over  *)
(* a request/response channel, keeps the journal active.json and the       *)
(* reports, and runs a second, fixed recovery worker when the first one    *)
(* left the services stopped.  Either process may die between two steps,   *)
(* and every system call may fail with or without having taken effect.     *)
(***************************************************************************)
EXTENDS Naturals, Sequences

CONSTANTS
  Runs,      \* run ids "<workflow run>-<attempt>" that ask for a deployment
  Shas,      \* commits
  Initial,   \* the commit checked out and served at the start
  Target,    \* [Runs -> Shas], the commit each run asks for
  None       \* absent journal, absent report, free lock

ASSUME DeployConstants ==
  /\ Initial \in Shas
  /\ Target \in [Runs -> Shas]
  /\ None \notin Runs \cup Shas
  /\ None \notin [run : Runs, previous : Shas, target : Shas, stopped : BOOLEAN]

VARIABLES
  main,      \* head of the main branch on GitHub
  head,      \* HEAD of the live checkout
  unit,      \* the two systemd units
  journal,   \* active.json: the unfinished deployment, or None
  reports,   \* reports/<run>.json
  lock,      \* the run whose broker holds deploy.lock, or None
  bpc,       \* where each run's broker process is
  session,   \* Session.previous and Session.stopped of each broker
  result,    \* the result dictionary Session.execute builds
  worker     \* the worker process of each run

host == <<head, unit>>
disk == <<journal, reports>>
vars == <<main, head, unit, journal, reports, lock, bpc, session, result, worker>>

-----------------------------------------------------------------------------
(* Data.                                                                   *)

Units == {"web", "runtime"}

\* "failed": died on its own, systemd restarts it; "stopped": by systemctl stop.
\* code: the commit it loaded; fresh: its pid differs from the one recorded
\* when the rollback checkpoint was taken.
UnitState == [state : {"active", "failed", "stopped"}, code : Shas, fresh : BOOLEAN]

InState(x, state) == [state |-> state, code |-> x.code, fresh |-> x.fresh]

Journal == [run : Runs, previous : Shas, target : Shas, stopped : BOOLEAN]

SessionState == [previous : Shas \cup {None}, stopped : BOOLEAN]

Outcome == [status : {"success", "failed", "blocked_duplicate", "unknown"},
            rollback : BOOLEAN, manual : BOOLEAN]
Ended(status, rollback, manual) ==
  [status |-> status, rollback |-> rollback, manual |-> manual]
Unknown == Ended("unknown", FALSE, FALSE)

BrokerRunning == {"locked", "deploying", "observe", "recovering",
                  "recover-observe", "abandon-web", "abandon-runtime",
                  "report", "clear"}
BrokerPC == BrokerRunning \cup {"new", "refused", "done", "crashed"}

\* What both the rollout and the rollback do, in order; giving up is its
\* first two steps.
\* Mutant: restart on the old code, switch afterwards.
PlanSwitchLast == << <<"stop", "web">>, <<"stop", "runtime">>, <<"check", "imports">>,
                     <<"start", "runtime">>, <<"start", "web">>, <<"git", "switch">>,
                     <<"check", "health">> >>

Plan == << <<"stop", "web">>, <<"stop", "runtime">>, <<"git", "switch">>,
           <<"check", "imports">>, <<"start", "runtime">>, <<"start", "web">>,
           <<"check", "health">> >>
Steps == 1..7  \* of Plan
Worker == [phase : {"none", "preflight", "prepare", "apply", "rollback",
                    "giveup", "exited", "dead"},
           step : Steps, prev : Shas, out : Outcome]

Go(w, phase, step, prev) == [phase |-> phase, step |-> step, prev |-> prev, out |-> w.out]

Alive(r) == worker[r].phase \notin {"none", "exited", "dead"}
Attached(r) == bpc[r] \in {"deploying", "recovering"}
Supervised(r) == Alive(r) /\ Attached(r)

-----------------------------------------------------------------------------
Init ==
  /\ main \in Shas
  /\ head = Initial
  /\ unit = [u \in Units |-> [state |-> "active", code |-> Initial, fresh |-> FALSE]]
  /\ journal = None
  /\ reports = [r \in Runs |-> None]
  /\ lock = None
  /\ bpc = [r \in Runs |-> "new"]
  /\ session = [r \in Runs |-> [previous |-> None, stopped |-> FALSE]]
  /\ result = [r \in Runs |-> Unknown]
  /\ worker = [r \in Runs |-> [phase |-> "none", step |-> 1, prev |-> Initial,
                               out |-> Unknown]]

-----------------------------------------------------------------------------
(* The host: commits reach main, services die and systemd restarts them    *)
(* from whatever is checked out.                                           *)

MainMoves ==
  /\ main' \in Shas \ {main}
  /\ UNCHANGED <<host, disk, lock, bpc, session, result, worker>>

UnitFails(u) ==
  /\ unit[u].state = "active"
  /\ unit' = [unit EXCEPT ![u] = InState(@, "failed")]
  /\ UNCHANGED <<main, head, disk, lock, bpc, session, result, worker>>

Started(u) == [state |-> "active", code |-> head, fresh |-> TRUE]

UnitRestarts(u) ==
  /\ unit[u].state = "failed"
  /\ unit' = [unit EXCEPT ![u] = Started(u)]
  /\ UNCHANGED <<main, head, disk, lock, bpc, session, result, worker>>

\* systemctl: starting an active unit changes nothing.
Systemctl(verb, u) ==
  IF verb = "stop" THEN [unit EXCEPT ![u] = InState(@, "stopped")]
  ELSE IF unit[u].state = "active" THEN unit
  ELSE [unit EXCEPT ![u] = Started(u)]

-----------------------------------------------------------------------------
(* Admission: main() of the broker.                                        *)

Acquire(r) ==
  /\ bpc[r] = "new"
  /\ lock = None
  /\ lock' = r
  /\ bpc' = [bpc EXCEPT ![r] = "locked"]
  /\ UNCHANGED <<main, host, disk, session, result, worker>>

\* DeploymentBusy after 120 s of retries.
Busy(r) ==
  /\ bpc[r] = "new"
  /\ lock # None
  /\ bpc' = [bpc EXCEPT ![r] = "refused"]
  /\ UNCHANGED <<main, host, disk, lock, session, result, worker>>

\* A journal, a report of this run, an authorization that fails (or cannot
\* be obtained) or a bundle that does not arrive.
Refuse(r) ==
  /\ bpc[r] = "locked"
  /\ bpc' = [bpc EXCEPT ![r] = "refused"]
  /\ lock' = None
  /\ UNCHANGED <<main, host, disk, session, result, worker>>

\* Mutant: an unfinished deployment does not stop the next one.
AdmitIgnoringJournal(r) ==
  /\ bpc[r] = "locked"
  /\ reports[r] = None
  /\ main = Target[r]
  /\ bpc' = [bpc EXCEPT ![r] = "deploying"]
  /\ worker' = [worker EXCEPT ![r] = Go(@,
                  IF \E q \in Runs : Alive(q) THEN "exited" ELSE "preflight", 1, head)]
  /\ UNCHANGED <<main, host, disk, lock, session, result>>

\* The worker's own lock is taken without waiting: a worker that outlived its
\* broker makes the new one exit at once.
Admit(r) ==
  /\ bpc[r] = "locked"
  /\ journal = None
  /\ reports[r] = None
  /\ main = Target[r]
  /\ bpc' = [bpc EXCEPT ![r] = "deploying"]
  /\ worker' = [worker EXCEPT ![r] = Go(@,
                  IF \E q \in Runs : Alive(q) THEN "exited" ELSE "preflight", 1, head)]
  /\ UNCHANGED <<main, host, disk, lock, session, result>>

-----------------------------------------------------------------------------
(* The worker: Deployment.execute and recover.                             *)

Exit(w, out) == [phase |-> "exited", step |-> w.step, prev |-> w.prev, out |-> out]

\* Mutant: goes on after the last step.
AfterSuccessTooFar(w) ==
  IF w.phase = "giveup" /\ w.step = 2 THEN Exit(w, Ended("failed", FALSE, TRUE))
  ELSE IF w.step <= 7 THEN Go(w, w.phase, w.step + 1, w.prev)
  ELSE Exit(w, IF w.phase = "apply" THEN Ended("success", FALSE, FALSE)
                                    ELSE Ended("failed", TRUE, FALSE))

AfterSuccess(w) ==
  IF w.phase = "giveup" /\ w.step = 2 THEN Exit(w, Ended("failed", FALSE, TRUE))
  ELSE IF w.step < 7 THEN Go(w, w.phase, w.step + 1, w.prev)
  ELSE Exit(w, IF w.phase = "apply" THEN Ended("success", FALSE, FALSE)
                                    ELSE Ended("failed", TRUE, FALSE))

\* Mutant: the rollback switches back without stopping the services first.
AfterFailureNoStop(w) ==
  IF w.phase \in {"preflight", "prepare"} THEN Exit(w, Ended("failed", FALSE, FALSE))
  ELSE IF w.phase = "apply"    THEN Go(w, "rollback", 3, w.prev)
  ELSE IF w.phase = "rollback" THEN Go(w, "giveup", 1, w.prev)
  ELSE AfterSuccess(w)

AfterFailure(w) ==
  IF w.phase \in {"preflight", "prepare"} THEN Exit(w, Ended("failed", FALSE, FALSE))
  ELSE IF w.phase = "apply"    THEN Go(w, "rollback", 1, w.prev)
  ELSE IF w.phase = "rollback" THEN Go(w, "giveup", 1, w.prev)
  ELSE AfterSuccess(w)

\* Any step may raise without effect: a failed command or request, a signal
\* delivered at a step's boundary, a channel whose broker is gone.
StepFails(r) ==
  /\ Alive(r)
  /\ worker' = [worker EXCEPT ![r] = AfterFailure(@)]
  /\ UNCHANGED <<main, host, disk, lock, bpc, session, result>>

\* Reads HEAD, checks health, schema, bundle and compatibility, takes the
\* backups; everything before the checkpoint.
Preflight(r) ==
  /\ Supervised(r)
  /\ worker[r].phase = "preflight"
  /\ worker' = [worker EXCEPT ![r] =
        IF head = Target[r] THEN Exit(@, Ended("blocked_duplicate", FALSE, FALSE))
        ELSE Go(@, "prepare", 1, head)]
  /\ UNCHANGED <<main, host, disk, lock, bpc, session, result>>

Checkpoint(r, stopped) ==
  [run |-> r, previous |-> worker[r].prev, target |-> Target[r], stopped |-> stopped]

\* Session.request('prepare'): the rollback checkpoint.
Prepare(r) ==
  /\ Supervised(r)
  /\ worker[r].phase = "prepare"
  /\ worker[r].prev # Target[r]
  /\ session[r].previous = None
  /\ head = worker[r].prev
  /\ main = Target[r]
  /\ \A u \in Units : unit[u].state = "active"
  /\ unit' = [u \in Units |-> [state |-> "active", code |-> unit[u].code, fresh |-> FALSE]]
  /\ journal' = Checkpoint(r, FALSE)
  /\ \/ /\ session' = [session EXCEPT ![r] = [previous |-> worker[r].prev, stopped |-> FALSE]]
        /\ worker' = [worker EXCEPT ![r] = Go(@, "apply", 1, @.prev)]
     \/ /\ worker' = [worker EXCEPT ![r] = AfterFailure(@)]  \* saved, but save() raised
        /\ UNCHANGED session
  /\ UNCHANGED <<main, head, reports, lock, bpc, result>>

InPlan(r) == worker[r].phase \in {"apply", "rollback", "giveup"}
Op(r) == Plan[worker[r].step]

\* Mutant: the first stop is only noted in memory.
RecordStopInMemory(r) ==
  /\ Supervised(r) /\ InPlan(r)
  /\ Op(r)[1] = "stop"
  /\ session[r].previous # None
  /\ ~session[r].stopped
  /\ session' = [session EXCEPT ![r] = [previous |-> @.previous, stopped |-> TRUE]]
  /\ UNCHANGED <<main, host, disk, lock, bpc, result, worker>>

\* Session.request: the first stop is journalled before it is executed.
RecordStop(r) ==
  /\ Supervised(r) /\ InPlan(r)
  /\ Op(r)[1] = "stop"
  /\ session[r].previous # None
  /\ ~session[r].stopped
  /\ journal' = Checkpoint(r, TRUE)
  /\ \/ /\ session' = [session EXCEPT ![r] = [previous |-> @.previous, stopped |-> TRUE]]
        /\ UNCHANGED worker
     \/ /\ worker' = [worker EXCEPT ![r] = AfterFailure(@)]  \* saved, but save() raised
        /\ UNCHANGED session
  /\ UNCHANGED <<main, host, reports, lock, bpc, result>>

Dispatch(r, verb, u) ==
  /\ Supervised(r) /\ InPlan(r)
  /\ Op(r) = <<verb, u>>
  /\ session[r].previous # None
  /\ verb = "stop" => session[r].stopped
  /\ unit' = Systemctl(verb, u)
  /\ \/ worker' = [worker EXCEPT ![r] = AfterSuccess(@)]
     \/ worker' = [worker EXCEPT ![r] = AfterFailure(@)]  \* took effect, reported failure
  /\ UNCHANGED <<main, head, disk, lock, bpc, session, result>>

\* Git does not need the broker: a worker that outlived it still switches.
Switch(r) ==
  /\ Alive(r) /\ InPlan(r)
  /\ Op(r) = <<"git", "switch">>
  /\ head' = IF worker[r].phase = "apply" THEN Target[r] ELSE worker[r].prev
  /\ \/ worker' = [worker EXCEPT ![r] = AfterSuccess(@)]
     \/ worker' = [worker EXCEPT ![r] = AfterFailure(@)]
  /\ UNCHANGED <<main, unit, disk, lock, bpc, session, result>>

ImportCheck(r) ==
  /\ Alive(r) /\ InPlan(r)
  /\ Op(r) = <<"check", "imports">>
  /\ worker' = [worker EXCEPT ![r] = AfterSuccess(@)]
  /\ UNCHANGED <<main, host, disk, lock, bpc, session, result>>

\* Deployment.healthy, and after a rollout the pids and HEAD.
Verify(r) ==
  /\ Supervised(r) /\ InPlan(r)
  /\ Op(r) = <<"check", "health">>
  /\ \A u \in Units : unit[u].state = "active"
  /\ worker[r].phase = "apply" =>
       /\ head = Target[r]
       /\ \A u \in Units : unit[u].fresh
  /\ worker' = [worker EXCEPT ![r] = AfterSuccess(@)]
  /\ UNCHANGED <<main, host, disk, lock, bpc, session, result>>

\* Killed, out of memory, or killed by the broker's 1200 s deadline; also a
\* signal between the end of execute and the printed report.
WorkerCrash(r) ==
  /\ Alive(r) \/ (worker[r].phase = "exited" /\ Attached(r))
  /\ worker' = [worker EXCEPT ![r] = Go(@, "dead", @.step, @.prev)]
  /\ UNCHANGED <<main, host, disk, lock, bpc, session, result>>

-----------------------------------------------------------------------------
(* The broker: Session.execute once the worker is gone.                    *)

\* What Session.execute does with a result it will not improve by observing.
Settle(r, res) ==
  /\ result' = [result EXCEPT ![r] = res]
  /\ IF session[r].stopped /\ res.status # "success" /\ ~res.rollback
     THEN /\ bpc' = [bpc EXCEPT ![r] = "recovering"]
          /\ worker' = [worker EXCEPT ![r] = Go(@, "rollback", 1, session[r].previous)]
     ELSE /\ bpc' = [bpc EXCEPT ![r] = "report"]
          /\ UNCHANGED worker

Collect(r) ==
  /\ bpc[r] = "deploying"
  /\ ~Alive(r)
  /\ LET res == IF worker[r].phase = "dead" THEN Unknown ELSE worker[r].out
     IN IF res.status = "success" /\ ~(session[r].stopped /\ session[r].previous # None)
        THEN Settle(r, Unknown)
        ELSE IF res.status = "success" \/ res.rollback
        THEN /\ result' = [result EXCEPT ![r] = res]
             /\ bpc' = [bpc EXCEPT ![r] = "observe"]
             /\ UNCHANGED worker
        ELSE Settle(r, res)
  /\ UNCHANGED <<main, host, disk, lock, session>>

\* Session.observe: the broker's own look at HEAD and the services.
Observed(r, sha, fresh) ==
  /\ head = sha
  /\ \A u \in Units : unit[u].state = "active" /\ (fresh => unit[u].fresh)

Observe(r) ==
  /\ bpc[r] = "observe"
  /\ \/ /\ IF result[r].status = "success"
           THEN Observed(r, Target[r], TRUE)
           ELSE Observed(r, session[r].previous, FALSE)
        /\ Settle(r, result[r])
     \/ Settle(r, Unknown)
  /\ UNCHANGED <<main, host, disk, lock, session>>

\* Mutant: a recovery worker that fails is not noticed.
CollectRecoveryNoFailure(r) ==
  /\ bpc[r] = "recovering"
  /\ ~Alive(r)
  /\ worker[r].phase = "exited" /\ worker[r].out.rollback
  /\ result' = [result EXCEPT ![r] = Ended("failed", TRUE, @.manual)]
  /\ bpc' = [bpc EXCEPT ![r] = "recover-observe"]
  /\ UNCHANGED <<main, host, disk, lock, session, worker>>

\* result.update(worker('recover')): the keys recover() sets replace those of
\* the first worker; manual_recovery_required is set by it only on failure.
CollectRecovery(r) ==
  /\ bpc[r] = "recovering"
  /\ ~Alive(r)
  /\ IF worker[r].phase = "exited" /\ worker[r].out.rollback
     THEN /\ result' = [result EXCEPT ![r] = Ended("failed", TRUE, @.manual)]
          /\ bpc' = [bpc EXCEPT ![r] = "recover-observe"]
     ELSE /\ result' = [result EXCEPT ![r] = Ended(@.status, FALSE, TRUE)]
          /\ bpc' = [bpc EXCEPT ![r] = "abandon-web"]
  /\ UNCHANGED <<main, host, disk, lock, session, worker>>

ObserveRecovery(r) ==
  /\ bpc[r] = "recover-observe"
  /\ \/ /\ Observed(r, session[r].previous, FALSE)
        /\ bpc' = [bpc EXCEPT ![r] = "report"]
        /\ UNCHANGED result
     \/ /\ bpc' = [bpc EXCEPT ![r] = "abandon-web"]
        /\ result' = [result EXCEPT ![r] = Ended(@.status, FALSE, TRUE)]
  /\ UNCHANGED <<main, host, disk, lock, session, worker>>

\* The last resort: stop both units, ignoring failures.
AbandonPC(u) == IF u = "web" THEN "abandon-web" ELSE "abandon-runtime"

Abandon(r, u) ==
  /\ bpc[r] = AbandonPC(u)
  /\ unit' \in {unit, Systemctl("stop", u)}
  /\ bpc' = [bpc EXCEPT ![r] = IF u = "web" THEN "abandon-runtime" ELSE "report"]
  /\ UNCHANGED <<main, head, disk, lock, session, result, worker>>

Report(r) ==
  /\ bpc[r] = "report"
  /\ reports' = [reports EXCEPT ![r] = result[r]]
  /\ bpc' = [bpc EXCEPT ![r] = "clear"]
  /\ UNCHANGED <<main, host, journal, lock, session, result, worker>>

\* Mutants: the journal removed in every case; the lock kept after the run.
ClearAlways(r) ==
  /\ bpc[r] = "clear"
  /\ journal' = None
  /\ bpc' = [bpc EXCEPT ![r] = "done"]
  /\ lock' = None
  /\ UNCHANGED <<main, host, reports, session, result, worker>>

ClearKeepingLock(r) ==
  /\ bpc[r] = "clear"
  /\ journal' = IF result[r].manual THEN journal ELSE None
  /\ bpc' = [bpc EXCEPT ![r] = "done"]
  /\ UNCHANGED <<main, host, reports, lock, session, result, worker>>

\* Removes the journal unless the run needs an administrator, then exits.
Clear(r) ==
  /\ bpc[r] = "clear"
  /\ journal' = IF result[r].manual THEN journal ELSE None
  /\ bpc' = [bpc EXCEPT ![r] = "done"]
  /\ lock' = None
  /\ UNCHANGED <<main, host, reports, session, result, worker>>

\* SIGKILL, a signal outside worker(), or a report that cannot be written.
BrokerCrash(r) ==
  /\ bpc[r] \in BrokerRunning
  /\ bpc' = [bpc EXCEPT ![r] = "crashed"]
  /\ lock' = None
  /\ UNCHANGED <<main, host, disk, session, result, worker>>

-----------------------------------------------------------------------------
WorkerStep(r) ==
  \/ StepFails(r) \/ Preflight(r) \/ Prepare(r) \/ RecordStop(r)
  \/ \E verb \in {"stop", "start"}, u \in Units : Dispatch(r, verb, u)
  \/ Switch(r) \/ ImportCheck(r) \/ Verify(r)

BrokerStep(r) ==
  \/ Acquire(r) \/ Busy(r) \/ Refuse(r) \/ Admit(r)
  \/ Collect(r) \/ Observe(r) \/ CollectRecovery(r) \/ ObserveRecovery(r)
  \/ \E u \in Units : Abandon(r, u)
  \/ Report(r) \/ Clear(r)

Environment ==
  \/ MainMoves
  \/ \E u \in Units : UnitFails(u) \/ UnitRestarts(u)
  \/ \E r \in Runs : WorkerCrash(r) \/ BrokerCrash(r)

Next ==
  \/ \E r \in Runs : WorkerStep(r) \/ BrokerStep(r)
  \/ Environment

Spec == Init /\ [][Next]_vars

\* Both processes keep running between crashes; every call has a timeout.
Fairness == \A r \in Runs : WF_vars(WorkerStep(r)) /\ WF_vars(BrokerStep(r))
FairSpec == Spec /\ Fairness

-----------------------------------------------------------------------------
(* Properties.                                                             *)

TypeOK ==
  /\ main \in Shas
  /\ head \in Shas
  /\ unit \in [Units -> UnitState]
  /\ journal \in Journal \cup {None}
  /\ reports \in [Runs -> Outcome \cup {None}]
  /\ lock \in Runs \cup {None}
  /\ bpc \in [Runs -> BrokerPC]
  /\ session \in [Runs -> SessionState]
  /\ result \in [Runs -> Outcome]
  /\ worker \in [Runs -> Worker]

\* The services run the checked-out commit, or are about to.
Serving(sha) ==
  /\ head = sha
  /\ \A u \in Units : /\ unit[u].state # "stopped"
                      /\ unit[u].state = "active" => unit[u].code = sha

\* Without active.json nothing is left to clean up: no unit was left stopped and
\* none runs a commit other than the checkout, whatever died or failed before.
NoJournalMeansServing == journal = None => Serving(head)

\* As long as a unit is stopped or the checkout is not the commit recorded as
\* previous, the journal on disk says that services were stopped.
OutageIsJournalled ==
  ((\E u \in Units : unit[u].state = "stopped") \/ (journal # None /\ head # journal.previous))
    => journal # None /\ journal.stopped

\* A report that claims success or a rollback describes the host: the commit
\* it names is checked out and is the one both services run.
ReportsAreTrue ==
  \A r \in Runs : bpc[r] \in {"report", "clear"} =>
    /\ result[r].status = "success" => Serving(Target[r])
    /\ result[r].rollback => Serving(session[r].previous)

\* The checkout never moves under a running service, and only between the two
\* commits of the journal: also not by a worker that outlived its broker.
CheckoutMovesWhileStopped ==
  [][head' # head =>
       /\ \A u \in Units : unit[u].state = "stopped"
       /\ journal # None
       /\ head' \in {journal.previous, journal.target}]_vars

\* The inductive invariant behind these properties: who owns the journal and
\* the lock, where each worker may be, and which units are stopped there.
Owner(r) == bpc[r] \in BrokerRunning \ {"locked"}
JournalOf(r) ==
  /\ journal # None
  /\ journal.run = r
  /\ journal.previous = session[r].previous
  /\ journal.target = Target[r]

OneBroker ==
  \A r \in Runs :
    /\ bpc[r] \in BrokerRunning => lock = r
    /\ Owner(r) => journal = None \/ journal.run = r

WorkerPlace ==
  \A r \in Runs :
    /\ Alive(r) => bpc[r] \in {"deploying", "recovering", "crashed"}
    /\ bpc[r] \in {"new", "locked", "refused"} => session[r].previous = None
    /\ worker[r].phase \in {"preflight", "prepare"} => session[r].previous = None
    /\ worker[r].phase = "giveup" => worker[r].step <= 2
    /\ Alive(r) /\ InPlan(r) => session[r].previous = worker[r].prev

SessionJournalled ==
  \A r \in Runs :
    /\ session[r].stopped => session[r].previous # None
    /\ (Owner(r) /\ session[r].previous # None) \/ (Alive(r) /\ InPlan(r)) => JournalOf(r)
    /\ JournalOf(r) /\ session[r].stopped => journal.stopped

StoppedInPlan ==
  \A r \in Runs : worker[r].phase \in {"apply", "rollback"} =>
    /\ worker[r].step >= 2 => session[r].stopped
    /\ worker[r].step \in 2..5 => unit["web"].state = "stopped"
    /\ worker[r].step \in 3..4 => unit["runtime"].state = "stopped"

ActiveRunsCheckout == \A u \in Units : unit[u].state = "active" => unit[u].code = head

NothingStoppedAt(r) == \A u \in Units : unit[u].state # "stopped"
CleanBeforeClear ==
  \A r \in Runs :
    /\ Owner(r) /\ ~session[r].stopped => NothingStoppedAt(r)
    /\ bpc[r] \in {"report", "clear"} /\ ~result[r].manual => NothingStoppedAt(r)
    /\ bpc[r] \in {"abandon-web", "abandon-runtime"} => result[r].manual
    /\ bpc[r] \in {"recovering", "recover-observe", "abandon-web", "abandon-runtime"}
         => session[r].stopped

IInv ==
  /\ TypeOK
  /\ OneBroker /\ WorkerPlace /\ SessionJournalled /\ StoppedInPlan
  /\ ActiveRunsCheckout /\ CleanBeforeClear
  /\ OutageIsJournalled

\* Seen through the journal and the lock the pipeline is a ReleaseSlot: a
\* deployment ends with its target or with the previous commit served, and one
\* that was cut short refuses all later ones.
Slot == INSTANCE ReleaseSlot WITH
  NoGoal  <- None,
  state   <- IF journal = None THEN "serving"
             ELSE IF lock = journal.run THEN "changing" ELSE "blocked",
  version <- IF journal = None THEN head ELSE journal.previous,
  goal    <- IF journal = None THEN None ELSE journal.target

SlotSpec == Slot!Spec
SlotFairSpec == Slot!FairSpec

\* Every broker that took the lock lets go of it, done or dead.
LockIsReleased == \A r \in Runs : lock = r ~> lock # r

=============================================================================
