---------------------------- MODULE ScheduledJobs ----------------------------
(***************************************************************************)
(* A daily briefing as a chain of scheduled jobs, one for each day, each   *)
(* planned when its predecessor has run.  The runtime service runs the     *)
(* briefings that are due (daily_briefing.py); schedule-run-due runs       *)
(* whatever is due (scheduled_automation.py).  Both claim a job by         *)
(* counting its runs and then inserting one, and may die or meet a locked  *)
(* database at every statement.                                            *)
(***************************************************************************)
EXTENDS Naturals, FiniteSets, FiniteSetsExt

CONSTANTS
  Days,         \* bound: the days a briefing is planned for
  Gap,          \* ticks of the clock from one day to the next
  MaxTime,      \* bound on the clock
  MaxAttempts,  \* of a job
  SendAttempts, \* to send a message
  Schedulers,   \* processes with a DailyBriefingScheduler
  Operators,    \* processes running schedule-run-due
  ManualNow     \* given by operators as --now

Runners == Schedulers \cup Operators
Times == 0..MaxTime \cup ManualNow
DayIds == 1..Days
Due(d) == 1 + (d - 1) * Gap

ASSUME JobConstants ==
  /\ Days \in Nat \ {0} /\ Gap \in Nat \ {0} /\ MaxTime \in Nat
  /\ MaxAttempts \in 1..5 /\ SendAttempts \in Nat \ {0}
  /\ IsFiniteSet(Schedulers) /\ IsFiniteSet(Operators)
  /\ Schedulers \cap Operators = {} /\ ManualNow \subseteq Nat

VARIABLES
  time,    \* the wall clock
  jobs,    \* scheduled_automation_jobs: the job of each day
  runs,    \* scheduled_automation_runs
  sent,    \* how often each run of each day, named by its start, has brought the
           \* briefing (or one and the same part of a long one) into the chat
  runner   \* progress of each process

vars == <<time, jobs, runs, sent, runner>>

Final == {"succeeded", "failed", "blocked"}
Run == [day : DayIds, started : Times, attempt : 1..MaxAttempts, status : Final \cup {"running"}]

\* now: when run_due was called; todo: the rest of its list of due jobs, the
\* one it is at included; attempt, result: of the run it has claimed; try: calls
\* of its message that went wrong.
Runner == [at : {"idle", "count", "insert", "execute", "complete", "record", "plan"},
           now : Times, todo : SUBSET DayIds, attempt : 0..MaxAttempts,
           result : Final \cup {"none"}, try : 0..SendAttempts - 1]

Idle == [at |-> "idle", now |-> 0, todo |-> {}, attempt |-> 0, result |-> "none", try |-> 0]
Job(p) == Min(runner[p].todo)
Become(p, w) == runner' = [runner EXCEPT ![p] = w]
Goto(p, at) == Become(p, [runner[p] EXCEPT !.at = at])
Listed(now, todo) ==
  IF todo = {} THEN Idle
  ELSE [at |-> "count", now |-> now, todo |-> todo, attempt |-> 0, result |-> "none", try |-> 0]
NextJob(p) == Become(p, Listed(runner[p].now, runner[p].todo \ {Job(p)}))

RunsOf(d) == {r \in runs : r.day = d}
Claimed(p) == CHOOSE r \in runs : r.day = Job(p) /\ r.started = runner[p].now

\* ensure_daily_briefing_jobs has registered the first job, due later; as that
\* job is never deleted, it registers nothing again.
Init ==
  /\ time = 0
  /\ jobs = [d \in DayIds |-> IF d = 1 THEN "enabled" ELSE "absent"]
  /\ runs = {}
  /\ sent = [d \in DayIds |-> [t \in Times |-> 0]]
  /\ runner = [p \in Runners |-> Idle]

-----------------------------------------------------------------------------
Clock ==
  /\ time < MaxTime
  /\ time' = time + 1
  /\ UNCHANGED <<jobs, runs, sent, runner>>

\* run_due: the list of due jobs is read once.
RunDue(p, now) ==
  /\ runner[p].at = "idle"
  /\ \E d \in DayIds : jobs[d] = "enabled" /\ Due(d) <= now
  /\ Become(p, Listed(now, {d \in DayIds : jobs[d] = "enabled" /\ Due(d) <= now}))
  /\ UNCHANGED <<time, jobs, runs, sent>>

\* Mutant: a job out of attempts is passed over to the next day.
CountAndPlan(p) ==
  /\ runner[p].at = "count"
  /\ LET attempt == Cardinality(RunsOf(Job(p))) + 1
     IN IF attempt > MaxAttempts THEN Goto(p, "plan")
        ELSE Become(p, [runner[p] EXCEPT !.at = "insert", !.attempt = attempt])
  /\ UNCHANGED <<time, jobs, runs, sent>>

\* Mutant: one attempt too many.
CountTooMany(p) ==
  /\ runner[p].at = "count"
  /\ LET attempt == Cardinality(RunsOf(Job(p))) + 1
     IN IF attempt > MaxAttempts + 1 THEN NextJob(p)
        ELSE Become(p, [runner[p] EXCEPT !.at = "insert", !.attempt = attempt])
  /\ UNCHANGED <<time, jobs, runs, sent>>

\* claim_run: the attempts are counted first,
Count(p) ==
  /\ runner[p].at = "count"
  /\ LET attempt == Cardinality(RunsOf(Job(p))) + 1
     IN IF attempt > MaxAttempts THEN NextJob(p)
        ELSE Become(p, [runner[p] EXCEPT !.at = "insert", !.attempt = attempt])
  /\ UNCHANGED <<time, jobs, runs, sent>>

NewRun(p) == [day |-> Job(p), started |-> runner[p].now, attempt |-> runner[p].attempt,
              status |-> "running"]

\* Mutant: a run that is there already is taken over.
InsertOrIgnore(p) ==
  /\ runner[p].at = "insert"
  /\ runs' = IF \E r \in RunsOf(Job(p)) : r.started = runner[p].now THEN runs
             ELSE runs \cup {NewRun(p)}
  /\ Goto(p, "execute")
  /\ UNCHANGED <<time, jobs, sent>>

\* then the run is inserted, unless UNIQUE(job_id, started_at) refuses it.
Insert(p) ==
  /\ runner[p].at = "insert"
  /\ \/ /\ \A r \in RunsOf(Job(p)) : r.started # runner[p].now
        /\ runs' = runs \cup {NewRun(p)}
        /\ Goto(p, "execute")
     \/ /\ \E r \in RunsOf(Job(p)) : r.started = runner[p].now
        /\ NextJob(p)
        /\ UNCHANGED runs
  /\ UNCHANGED <<time, jobs, sent>>

Finish(p, result) ==
  Become(p, [runner[p] EXCEPT !.at = "complete", !.result = result, !.try = 0])
Arrives(p) == sent' = [sent EXCEPT ![Job(p)][runner[p].now] = @ + 1]

\* Mutant: the limit is compared before the call is counted.
ResendOnceMore(p) ==
  /\ p \in Schedulers
  /\ runner[p].at = "execute" /\ runner[p].try < SendAttempts
  /\ Arrives(p) \/ UNCHANGED sent
  /\ Become(p, [runner[p] EXCEPT !.try = @ + 1])
  /\ UNCHANGED <<time, jobs, runs>>

\* _send_with_retry: a call that goes wrong, be it after Telegram took the message,
\* is made again.
Resend(p) ==
  /\ p \in Schedulers
  /\ runner[p].at = "execute" /\ runner[p].try + 1 < SendAttempts
  /\ Arrives(p) \/ UNCHANGED sent
  /\ Become(p, [runner[p] EXCEPT !.try = @ + 1])
  /\ UNCHANGED <<time, jobs, runs>>

\* A scheduler sends the briefing, or nothing when the market is closed; the last
\* call, or what comes behind it, may fail with the message in the chat.
Deliver(p) ==
  /\ p \in Schedulers
  /\ runner[p].at = "execute"
  /\ \/ Arrives(p) /\ Finish(p, "succeeded")
     \/ (Arrives(p) \/ UNCHANGED sent) /\ Finish(p, "failed")
     \/ runner[p].try = 0 /\ UNCHANGED sent /\ Finish(p, "succeeded")
  /\ UNCHANGED <<time, jobs, runs>>

\* schedule-run-due plans and dispatches the request text; nothing is sent.  An
\* agent that needs approval blocks the run too, outside the try: what may follow
\* then is among what may follow the constraint error.
Dispatch(p) ==
  /\ p \in Operators
  /\ runner[p].at = "execute"
  /\ \E result \in Final : Finish(p, result)
  /\ UNCHANGED <<time, jobs, runs, sent>>

\* Mutant: the event of a success is recorded inside the try as well.
CompleteAndRecord(p) ==
  /\ runner[p].at = "complete"
  /\ runs' = (runs \ {Claimed(p)}) \cup {[Claimed(p) EXCEPT !.status = runner[p].result]}
  /\ jobs' = IF runner[p].result \in {"succeeded", "blocked"} \/ runner[p].attempt >= MaxAttempts
             THEN [jobs EXCEPT ![Job(p)] = "disabled"] ELSE jobs
  /\ IF p \in Schedulers THEN Goto(p, "plan")
     ELSE IF runner[p].result # "failed" THEN Goto(p, "record")
     ELSE NextJob(p)
  /\ UNCHANGED <<time, sent>>

\* complete_run, one transaction.
Complete(p) ==
  /\ runner[p].at = "complete"
  /\ runs' = (runs \ {Claimed(p)}) \cup {[Claimed(p) EXCEPT !.status = runner[p].result]}
  /\ jobs' = IF runner[p].result \in {"succeeded", "blocked"} \/ runner[p].attempt >= MaxAttempts
             THEN [jobs EXCEPT ![Job(p)] = "disabled"] ELSE jobs
  /\ IF p \in Schedulers THEN Goto(p, "plan")
     ELSE IF runner[p].result = "blocked" THEN Goto(p, "record")
     ELSE NextJob(p)
  /\ UNCHANGED <<time, sent>>

\* The statements inside a try: a locked database makes the run a failed one.
FailsInTry(p) ==
  /\ \/ runner[p].at = "complete" /\ p \in Schedulers /\ runner[p].result = "succeeded"
     \/ runner[p].at = "complete" /\ p \in Operators /\ runner[p].result = "blocked"
     \/ runner[p].at = "record"
  /\ Finish(p, "failed")
  /\ UNCHANGED <<time, jobs, runs, sent>>

Record(p) ==
  /\ runner[p].at = "record"
  /\ NextJob(p)
  /\ UNCHANGED <<time, jobs, runs, sent>>

\* _reschedule_next_occurrence: created unless it exists already.
Plan(p) ==
  /\ runner[p].at = "plan"
  /\ jobs' = IF Job(p) < Days /\ jobs[Job(p) + 1] = "absent"
             THEN [jobs EXCEPT ![Job(p) + 1] = "enabled"] ELSE jobs
  /\ NextJob(p)
  /\ UNCHANGED <<time, runs, sent>>

\* The process dies, or an exception ends run_due.
Abandon(p) ==
  /\ runner[p].at # "idle"
  /\ Become(p, Idle)
  /\ UNCHANGED <<time, jobs, runs, sent>>

\* schedule-enable, schedule-disable
SetEnabled(d, to) ==
  /\ jobs[d] # "absent"
  /\ jobs' = [jobs EXCEPT ![d] = to]
  /\ UNCHANGED <<time, runs, sent, runner>>

-----------------------------------------------------------------------------
Step(p) ==
  \/ Count(p) \/ Insert(p) \/ Resend(p) \/ Deliver(p) \/ Dispatch(p)
  \/ Complete(p) \/ Record(p) \/ Plan(p)

Next ==
  \/ Clock
  \/ \E p \in Schedulers : RunDue(p, time)
  \/ \E p \in Operators : \E now \in ManualNow \cup {time} : RunDue(p, now)
  \/ \E p \in Runners : Step(p) \/ FailsInTry(p) \/ Abandon(p)
  \/ Operators # {} /\ \E d \in DayIds, to \in {"enabled", "disabled"} : SetEnabled(d, to)

Spec == Init /\ [][Next]_vars

\* Time passes, the service keeps ticking and a step that is begun ends.
Fairness ==
  /\ WF_vars(Clock)
  /\ \A p \in Schedulers : WF_vars(RunDue(p, time)) /\ WF_vars(Step(p))
FairSpec == Spec /\ Fairness

-----------------------------------------------------------------------------
(* Properties.                                                             *)

TypeOK ==
  /\ time \in 0..MaxTime
  /\ jobs \in [DayIds -> {"absent", "enabled", "disabled"}]
  /\ runs \subseteq Run
  /\ sent \in [DayIds -> [Times -> Nat]]
  /\ runner \in [Runners -> Runner]

\* docs/architecture/scheduler-automation.md:41, "preventing overlapping duplicate
\* execution for the same timestamp": a claimed run has one executor, and is
\* still there for it to complete.
Executing(p) == runner[p].at \in {"execute", "complete", "record", "plan"}
OneExecutorPerRun ==
  /\ \A p, q \in Runners :
       Executing(p) /\ Executing(q) /\ Job(p) = Job(q) /\ runner[p].now = runner[q].now => p = q
  /\ \A p \in Runners :
       Executing(p) => \E r \in RunsOf(Job(p)) : r.started = runner[p].now /\ r.attempt = runner[p].attempt

\* Attempts go past max_attempts by no more than the processes that counted before
\* the last one was inserted, and every message belongs to a run of the table,
\* which brings a day's briefing into the chat SendAttempts times at most, dead
\* processes included.
BoundedDeliveries ==
  \A d \in DayIds :
    /\ \A t \in Times : /\ sent[d][t] <= SendAttempts
                        /\ sent[d][t] > 0 => \E r \in RunsOf(d) : r.started = t
    /\ Cardinality(RunsOf(d)) < MaxAttempts + Cardinality(Runners)

\* The chain of briefings leaves no day out: a day is planned only after a run of
\* the day before was finished (run_due reschedules last).
NoDaySkipped ==
  \A d \in DayIds \ {1} :
    jobs[d] # "absent" => \E r \in RunsOf(d - 1) : r.status \in {"succeeded", "failed"}

\* A run once recorded as succeeded is never recorded as failed afterwards,
\* whatever run_due and _execute meet behind their complete_run.
SuccessIsFinal == [][\A r \in runs : r.status = "succeeded" => r \in runs']_vars

\* Whatever claims, failures, reruns and deaths come between the statements, and
\* whoever executes: days are planned in order, tried a bounded number of times, and
\* each try sends as often as one message is retried, no more
\* (daily_briefing.py:487-494, 534, scheduled_automation.py:155).
HasFinished(d) == \E r \in RunsOf(d) : r.status \in {"succeeded", "failed"}
Stage == [d \in DayIds |-> IF jobs[d] = "absent" THEN "unplanned"
                          ELSE IF HasFinished(d) THEN "done" ELSE "planned"]
Tried == [d \in DayIds |-> {r.started : r \in RunsOf(d)}]
Chain == INSTANCE BriefingChain WITH stage <- Stage, tries <- Tried,
                                     Tries <- MaxAttempts + Cardinality(Runners) - 1,
                                     PerTry <- SendAttempts
ImplementsChain == Chain!Spec

\* The inductive invariant behind these properties.  What a process at each place
\* has in its hands:
Local(p, w) ==
  /\ w.at # "idle" => w.todo # {}
  /\ w.at \notin {"idle", "count"} => w.attempt # 0
  /\ w.at = "complete" => w.result # "none"
  /\ w.at = "plan" => p \in Schedulers
  /\ w.at # "execute" => w.try = 0
  /\ p \in Schedulers => w.at # "record" /\ (w.at = "complete" => w.result # "blocked")

TypeInv ==
  /\ TypeOK
  /\ \A p \in Runners : Local(p, runner[p])
  /\ \A p \in Runners : \A d \in runner[p].todo : jobs[d] # "absent"

\* The runs of the table have different keys, and the row of an executor says how
\* far its run has come.
Key(w, r) == r.day = Min(w.todo) /\ r.started = w.now /\ r.attempt = w.attempt
Agrees(w, status) ==
  /\ w.at = "execute" => status = "running"
  /\ w.at = "complete" => status \in {"running", "blocked"}
  /\ w.at = "complete" /\ w.result = "blocked" => status = "running"
  /\ w.at = "record" => status = "blocked"
  /\ w.at = "plan" => status \in {"succeeded", "failed"}

RowInv ==
  /\ \A r, s \in runs : r.day = s.day /\ r.started = s.started => r = s
  /\ \A p \in Runners, r \in runs :
       Executing(p) /\ Key(runner[p], r) => Agrees(runner[p], r.status)

\* A process that has counted and not inserted yet is good for one more run.
At(place, d) == {p \in Runners : runner[p].at = place /\ Min(runner[p].todo) = d}
CountInv ==
  /\ IsFiniteSet(runs)
  /\ \A d \in DayIds :
       Cardinality(RunsOf(d)) + Cardinality(At("insert", d)) < MaxAttempts + Cardinality(Runners)

\* What was sent has its run, and no more of it than calls its executor has made.
SentInv ==
  /\ \A d \in DayIds, t \in Times :
       /\ sent[d][t] <= SendAttempts
       /\ sent[d][t] > 0 => \E r \in runs : r.day = d /\ r.started = t
  /\ \A p \in Runners : runner[p].at = "execute" =>
       sent[Min(runner[p].todo)][runner[p].now] <= runner[p].try

JobsInv == TypeInv /\ OneExecutorPerRun /\ RowInv /\ NoDaySkipped /\ CountInv /\ SentInv

\* daily_briefing.py:491-494: a restarted service runs on from the persisted
\* next_run_at, "there is no in-memory timer state to lose": as long as days are
\* left, there is again and again a job for one that is to come or being retried.
ChainGoesOn == []<>(jobs[Days] # "absent" \/ \E d \in DayIds : jobs[d] = "enabled")
=============================================================================
