------------------------- MODULE ScheduledJobsProofs -------------------------
(***************************************************************************)
(* For any number of processes, days and attempts: a claimed run has one   *)
(* executor, attempts and deliveries are bounded, no day is left out, and  *)
(* a success stays on record.                                              *)
(***************************************************************************)
EXTENDS ScheduledJobs, FiniteSetTheorems, WellFoundedInduction, TLAPS

\* The fields of the records, whatever their values.
RunShape(r) ==
  r \in [day : {r.day}, started : {r.started}, attempt : {r.attempt}, status : {r.status}]
RunnerShape(w) ==
  w \in [at : {w.at}, now : {w.now}, todo : {w.todo}, attempt : {w.attempt},
         result : {w.result}, try : {w.try}]

Busy(w) == w.at \in {"execute", "complete", "record", "plan"}
SameRun(v, w) == Min(v.todo) = Min(w.todo) /\ v.now = w.now

\* The invariant: every executor has its run in the table, and no other executor
\* has the same.
ClaimInv ==
  /\ DOMAIN runner = Runners
  /\ runner = [p \in Runners |-> runner[p]]
  /\ \A p \in Runners : RunnerShape(runner[p])
  /\ \A r \in runs : RunShape(r)
  /\ \A p \in Runners : Busy(runner[p]) => \E r \in runs : Key(runner[p], r)
  /\ \A p, q \in Runners :
       Busy(runner[p]) /\ Busy(runner[q]) /\ SameRun(runner[p], runner[q]) => p = q

LEMMA ClaimInvImplies == ClaimInv => OneExecutorPerRun
BY DEF ClaimInv, OneExecutorPerRun, Executing, Busy, SameRun, Key, Job, RunsOf

LEMMA ListedShape ==
  ASSUME NEW now, NEW todo
  PROVE  RunnerShape(Listed(now, todo)) /\ ~Busy(Listed(now, todo))
BY DEF Listed, Idle, RunnerShape, Busy

(* A step of p after which p executes nothing new: runs may be added, and the
   keys of the ones that are there stay.                                   *)
LEMMA ClaimStep ==
  ASSUME ClaimInv, NEW p \in Runners, NEW w, Become(p, w), RunnerShape(w),
         \/ ~Busy(w)
         \/ Busy(runner[p]) /\ w.todo = runner[p].todo /\ w.now = runner[p].now
              /\ w.attempt = runner[p].attempt,
         \A r \in runs' : RunShape(r),
         \A r \in runs : \E s \in runs' :
           s.day = r.day /\ s.started = r.started /\ s.attempt = r.attempt
  PROVE  ClaimInv'
<1>1. /\ runner'[p] = w /\ DOMAIN runner' = Runners
      /\ runner' = [q \in Runners |-> runner'[q]]
      /\ \A q \in Runners : q # p => runner'[q] = runner[q]
  BY DEF ClaimInv, Become
<1>2. \A q \in Runners : RunnerShape(runner'[q])
  BY <1>1 DEF ClaimInv
<1>3. ASSUME NEW q \in Runners, Busy(runner'[q])
      PROVE  /\ Busy(runner[q]) /\ runner'[q].todo = runner[q].todo
             /\ runner'[q].now = runner[q].now /\ runner'[q].attempt = runner[q].attempt
  BY <1>1, <1>3
<1>4. ASSUME NEW q \in Runners, Busy(runner'[q])
      PROVE  \E s \in runs' : Key(runner'[q], s)
  <2>1. PICK r \in runs : Key(runner[q], r)
    BY <1>3, <1>4 DEF ClaimInv
  <2>2. PICK s \in runs' : s.day = r.day /\ s.started = r.started /\ s.attempt = r.attempt
    OBVIOUS
  <2> QED
    BY <1>3, <1>4, <2>1, <2>2 DEF Key
<1>5. ASSUME NEW q \in Runners, NEW o \in Runners, Busy(runner'[q]), Busy(runner'[o]),
             SameRun(runner'[q], runner'[o])
      PROVE  q = o
  BY <1>3, <1>5 DEF ClaimInv, SameRun
<1> QED
  BY <1>1, <1>2, <1>4, <1>5 DEF ClaimInv

(* The same when the table of runs is not touched.                         *)
LEMMA QuietStep ==
  ASSUME ClaimInv, NEW p \in Runners, NEW w, Become(p, w), RunnerShape(w), UNCHANGED runs,
         \/ ~Busy(w)
         \/ Busy(runner[p]) /\ w.todo = runner[p].todo /\ w.now = runner[p].now
              /\ w.attempt = runner[p].attempt
  PROVE  ClaimInv'
BY ClaimStep DEF ClaimInv

LEMMA InitClaims == Init => ClaimInv
BY DEF Init, ClaimInv, Idle, RunnerShape, Busy

LEMMA RunDueKeeps == ASSUME ClaimInv, NEW p \in Runners, NEW now, RunDue(p, now) PROVE ClaimInv'
BY ListedShape, QuietStep DEF RunDue

LEMMA CountKeeps == ASSUME ClaimInv, NEW p \in Runners, Count(p) PROVE ClaimInv'
<1> DEFINE attempt == Cardinality(RunsOf(Job(p))) + 1
<1>1. CASE attempt > MaxAttempts
  BY <1>1, ListedShape, QuietStep DEF Count, NextJob
<1>2. CASE ~(attempt > MaxAttempts)
  <2>1. PICK n : n = attempt
    OBVIOUS
  <2> DEFINE w == [runner[p] EXCEPT !.at = "insert", !.attempt = n]
  <2>2. Become(p, w) /\ UNCHANGED runs
    BY <1>2, <2>1 DEF Count
  <2>3. PICK a, b, c, d, e, f :
          runner[p] = [at |-> a, now |-> b, todo |-> c, attempt |-> d, result |-> e, try |-> f]
    BY DEF ClaimInv, RunnerShape
  <2>4. RunnerShape(w) /\ w.at = "insert"
    BY <2>3 DEF RunnerShape
  <2> HIDE DEF w
  <2> QED
    BY <2>2, <2>4, QuietStep DEF Busy
<1> QED
  BY <1>1, <1>2

(* Moving on within a job, and finishing it.                               *)
LEMMA GoneTo ==
  ASSUME ClaimInv, NEW p \in Runners, NEW at
  PROVE  LET v == [runner[p] EXCEPT !.at = at]
         IN /\ RunnerShape(v) /\ v.at = at /\ v.todo = runner[p].todo
            /\ v.now = runner[p].now /\ v.attempt = runner[p].attempt
<1> DEFINE w == runner[p]
           v == [w EXCEPT !.at = at]
<1>1. RunnerShape(w)
  BY DEF ClaimInv
<1> HIDE DEF w
<1>2. v \in [at : {at}, now : {w.now}, todo : {w.todo}, attempt : {w.attempt},
             result : {w.result}, try : {w.try}]
  BY <1>1 DEF RunnerShape
<1> HIDE DEF v
<1>3. RunnerShape(v) /\ v.at = at /\ v.todo = w.todo /\ v.now = w.now /\ v.attempt = w.attempt
  BY <1>2 DEF RunnerShape
<1> QED
  BY <1>3 DEF v, w

LEMMA Finished ==
  ASSUME ClaimInv, NEW p \in Runners, NEW result
  PROVE  LET v == [runner[p] EXCEPT !.at = "complete", !.result = result, !.try = 0]
         IN /\ RunnerShape(v) /\ v.at = "complete" /\ v.todo = runner[p].todo
            /\ v.now = runner[p].now /\ v.attempt = runner[p].attempt
<1> DEFINE w == runner[p]
           v == [w EXCEPT !.at = "complete", !.result = result, !.try = 0]
<1>1. RunnerShape(w)
  BY DEF ClaimInv
<1> HIDE DEF w
<1>2. v \in [at : {"complete"}, now : {w.now}, todo : {w.todo}, attempt : {w.attempt},
             result : {result}, try : {0}]
  BY <1>1 DEF RunnerShape
<1> HIDE DEF v
<1>3. RunnerShape(v) /\ v.at = "complete" /\ v.todo = w.todo /\ v.now = w.now /\ v.attempt = w.attempt
  BY <1>2 DEF RunnerShape
<1> QED
  BY <1>3 DEF v, w

LEMMA FinishKeeps ==
  ASSUME ClaimInv, NEW p \in Runners, Busy(runner[p]), NEW result, Finish(p, result), UNCHANGED runs
  PROVE  ClaimInv'
BY Finished, QuietStep DEF Finish

LEMMA Resent ==
  ASSUME ClaimInv, NEW p \in Runners, NEW n
  PROVE  LET v == [runner[p] EXCEPT !.try = n]
         IN /\ RunnerShape(v) /\ v.at = runner[p].at /\ v.todo = runner[p].todo
            /\ v.now = runner[p].now /\ v.attempt = runner[p].attempt
<1> DEFINE w == runner[p]
           v == [w EXCEPT !.try = n]
<1>1. RunnerShape(w)
  BY DEF ClaimInv
<1> HIDE DEF w
<1>2. v \in [at : {w.at}, now : {w.now}, todo : {w.todo}, attempt : {w.attempt},
             result : {w.result}, try : {n}]
  BY <1>1 DEF RunnerShape
<1> HIDE DEF v
<1>3. RunnerShape(v) /\ v.at = w.at /\ v.todo = w.todo /\ v.now = w.now /\ v.attempt = w.attempt
  BY <1>2 DEF RunnerShape
<1> QED
  BY <1>3 DEF v, w

LEMMA ResendKeeps == ASSUME ClaimInv, NEW p \in Runners, Resend(p) PROVE ClaimInv'
<1>1. PICK n : n = runner[p].try + 1
  OBVIOUS
<1>2. PICK w : w = [runner[p] EXCEPT !.try = n]
  OBVIOUS
<1>3. Become(p, w) /\ UNCHANGED runs /\ Busy(runner[p])
  BY <1>1, <1>2 DEF Resend, Busy
<1>4. /\ RunnerShape(w) /\ w.at = runner[p].at /\ w.todo = runner[p].todo
      /\ w.now = runner[p].now /\ w.attempt = runner[p].attempt
  BY <1>2, Resent
<1> QED
  BY <1>3, <1>4, QuietStep

LEMMA InsertKeeps == ASSUME ClaimInv, NEW p \in Runners, Insert(p) PROVE ClaimInv'
<1>1. CASE NextJob(p) /\ UNCHANGED runs
  BY <1>1, ListedShape, QuietStep DEF NextJob
<1>2. CASE /\ \A r \in RunsOf(Job(p)) : r.started # runner[p].now
           /\ runs' = runs \cup {NewRun(p)}
           /\ Goto(p, "execute")
  <2>1. PICK w : w = [runner[p] EXCEPT !.at = "execute"]
    OBVIOUS
  <2>2. /\ RunnerShape(w) /\ w.at = "execute" /\ w.todo = runner[p].todo
        /\ w.now = runner[p].now /\ w.attempt = runner[p].attempt
    BY <2>1, GoneTo
  <2>3. /\ runner'[p] = w /\ DOMAIN runner' = Runners
        /\ runner' = [q \in Runners |-> runner'[q]]
        /\ \A q \in Runners : q # p => runner'[q] = runner[q]
    BY <1>2, <2>1 DEF ClaimInv, Goto, Become
  <2>4. PICK n : n = NewRun(p)
    OBVIOUS
  <2>5. RunShape(n) /\ Key(w, n)
    BY <2>2, <2>4 DEF NewRun, RunShape, Key, Job
  <2>6. runs' = runs \cup {n}
    BY <1>2, <2>4
  <2>7. \A q \in Runners : q # p /\ Busy(runner[q]) => ~SameRun(runner[q], w)
    BY <1>2, <2>2 DEF ClaimInv, Key, SameRun, RunsOf, Job
  <2>8. \A q \in Runners : RunnerShape(runner'[q])
    BY <2>2, <2>3 DEF ClaimInv
  <2>9. \A q \in Runners : Busy(runner'[q]) => \E r \in runs' : Key(runner'[q], r)
    BY <2>3, <2>5, <2>6 DEF ClaimInv
  <2>10. ASSUME NEW q \in Runners, NEW o \in Runners, Busy(runner'[q]), Busy(runner'[o]),
                SameRun(runner'[q], runner'[o])
         PROVE  q = o
    BY <2>3, <2>7, <2>10 DEF ClaimInv, SameRun
  <2> QED
    BY <2>3, <2>5, <2>6, <2>8, <2>9, <2>10 DEF ClaimInv
<1> QED
  BY <1>1, <1>2 DEF Insert

LEMMA CompleteKeeps == ASSUME ClaimInv, NEW p \in Runners, Complete(p) PROVE ClaimInv'
<1>1. PICK c : c = Claimed(p)
  OBVIOUS
<1>2. Busy(runner[p]) /\ c \in runs
  <2>1. Busy(runner[p])
    BY DEF Complete, Busy
  <2>2. \E r \in runs : r.day = Job(p) /\ r.started = runner[p].now
    BY <2>1 DEF ClaimInv, Key, Job
  <2> QED
    BY <1>1, <2>1, <2>2 DEF Claimed
<1>3. PICK f : f = [c EXCEPT !.status = runner[p].result]
  OBVIOUS
<1>4. RunShape(f) /\ f.day = c.day /\ f.started = c.started /\ f.attempt = c.attempt
  <2>1. f \in [day : {c.day}, started : {c.started}, attempt : {c.attempt},
               status : {runner[p].result}]
    BY <1>2, <1>3 DEF ClaimInv, RunShape
  <2> QED
    BY <2>1 DEF RunShape
<1>5. runs' = (runs \ {c}) \cup {f}
  BY <1>1, <1>3 DEF Complete
<1>6. PICK w : /\ Become(p, w)
               /\ \/ w = [runner[p] EXCEPT !.at = "plan"]
                  \/ w = [runner[p] EXCEPT !.at = "record"]
                  \/ w = Listed(runner[p].now, runner[p].todo \ {Job(p)})
  BY DEF Complete, Goto, NextJob
<1>7. /\ RunnerShape(w)
      /\ \/ ~Busy(w)
         \/ w.todo = runner[p].todo /\ w.now = runner[p].now /\ w.attempt = runner[p].attempt
  <2>1. CASE w = [runner[p] EXCEPT !.at = "plan"]
    BY <2>1, GoneTo
  <2>2. CASE w = [runner[p] EXCEPT !.at = "record"]
    BY <2>2, GoneTo
  <2>3. CASE w = Listed(runner[p].now, runner[p].todo \ {Job(p)})
    BY <2>3, ListedShape
  <2> QED
    BY <1>6, <2>1, <2>2, <2>3
<1> QED
  BY <1>2, <1>4, <1>5, <1>6, <1>7, ClaimStep DEF ClaimInv

LEMMA LastStepKeeps ==
  ASSUME ClaimInv, NEW p \in Runners, Record(p) \/ Plan(p) \/ Abandon(p)
  PROVE  ClaimInv'
<1>1. CASE NextJob(p) /\ UNCHANGED runs
  BY <1>1, ListedShape, QuietStep DEF NextJob
<1>2. CASE Become(p, Idle) /\ UNCHANGED runs
  <2>1. RunnerShape(Idle) /\ ~Busy(Idle)
    BY DEF Idle, RunnerShape, Busy
  <2> QED
    BY <1>2, <2>1, QuietStep
<1> QED
  BY <1>1, <1>2 DEF Record, Plan, Abandon

LEMMA FinishingKeeps ==
  ASSUME ClaimInv, NEW p \in Runners, Deliver(p) \/ Dispatch(p) \/ FailsInTry(p)
  PROVE  ClaimInv'
<1>1. Busy(runner[p]) /\ UNCHANGED runs
  BY DEF Deliver, Dispatch, FailsInTry, Busy
<1>2. PICK result : Finish(p, result)
  BY DEF Deliver, Dispatch, FailsInTry
<1> QED
  BY <1>1, <1>2, FinishKeeps

LEMMA OthersKeep ==
  ASSUME ClaimInv,
         Clock \/ (\E d \in DayIds, to \in {"enabled", "disabled"} : SetEnabled(d, to)) \/ UNCHANGED vars
  PROVE  ClaimInv'
<1>1. UNCHANGED <<runs, runner>>
  BY DEF Clock, SetEnabled, vars
<1> QED
  BY <1>1 DEF ClaimInv

(* Whatever other processes do, a run that was claimed has one executor, and its
   row is there for that executor to complete (claim_run's UNIQUE key).    *)
THEOREM RunsHaveOneExecutor == Spec => []OneExecutorPerRun
<1>1. ASSUME ClaimInv, [Next]_vars PROVE ClaimInv'
  BY <1>1, RunDueKeeps, CountKeeps, InsertKeeps, ResendKeeps, CompleteKeeps, LastStepKeeps, FinishingKeeps,
     OthersKeep
     DEF Next, Step, Runners
<1> QED
  BY <1>1, InitClaims, ClaimInvImplies, PTL DEF Spec

-----------------------------------------------------------------------------
(* Types, finished runs and counts.                                        *)

\* The job a process is at is on its list.
LEMMA JobListed ==
  ASSUME NEW todo \in SUBSET DayIds, todo # {}
  PROVE  Min(todo) \in todo
<1> DEFINE R == OpToRel(<, Nat)
<1>1. todo \subseteq Nat
  BY JobConstants DEF DayIds
<1>2. IsWellFoundedOn(R, Nat)
  BY NatLessThanWellFounded
<1>3. \A x, y \in Nat : <<y, x>> \in R <=> y < x
  BY DEF OpToRel
<1> HIDE DEF R
<1>4. \E x \in todo : \A y \in todo : ~ (<<y, x>> \in R)
  BY <1>1, <1>2, WFMin
<1>5. \E n \in todo : \A m \in todo : n <= m
  <2>1. PICK n \in todo : \A y \in todo : ~ (<<y, n>> \in R)
    BY <1>4
  <2>2. ASSUME NEW m \in todo PROVE n <= m
    <3>1. n \in Nat /\ m \in Nat
      BY <1>1
    <3>2. ~ (m < n)
      BY <1>3, <2>1, <3>1
    <3> QED BY <3>1, <3>2
  <2> QED BY <2>2
<1> QED BY <1>5 DEF Min

-----------------------------------------------------------------------------
(* JobsInv, with the executors' claims spelled out.                        *)
KeysUnique == \A r, s \in runs : r.day = s.day /\ r.started = s.started => r = s

RowsAgree ==
  /\ KeysUnique
  /\ \A p \in Runners, r \in runs : Key(runner[p], r) => Agrees(runner[p], r.status)

FullInv == ClaimInv /\ TypeInv /\ RowsAgree /\ NoDaySkipped /\ CountInv /\ SentInv

LEMMA FullInvIsJobsInv == FullInv <=> JobsInv
<1>1. ASSUME TypeOK PROVE OneExecutorPerRun => ClaimInv
  <2>1. runner \in [Runners -> Runner] /\ runs \subseteq Run
    BY <1>1 DEF TypeOK
  <2>2. /\ DOMAIN runner = Runners /\ runner = [p \in Runners |-> runner[p]]
        /\ \A p \in Runners : RunnerShape(runner[p])
        /\ \A r \in runs : RunShape(r)
    BY <2>1 DEF Runner, Run, RunnerShape, RunShape
  <2> QED
    BY <2>2 DEF OneExecutorPerRun, ClaimInv, Executing, Busy, SameRun, Key, Job, RunsOf
<1>2. RowsAgree <=> RowInv
  <2>1. \A p \in Runners, r \in runs : Executing(p) \/ Agrees(runner[p], r.status)
    BY DEF Executing, Agrees
  <2> QED
    BY <2>1 DEF RowsAgree, KeysUnique, RowInv
<1> QED
  BY <1>1, <1>2, ClaimInvImplies DEF FullInv, JobsInv, TypeInv

LEMMA AtWork ==
  ASSUME TypeInv, NEW p \in Runners
  PROVE  /\ runner[p] \in Runner
         /\ runner[p].at # "idle" =>
              /\ Job(p) \in runner[p].todo /\ Job(p) \in DayIds
              /\ jobs[Job(p)] # "absent"
<1>1. runner[p] \in Runner /\ Local(p, runner[p])
  BY DEF TypeInv, TypeOK
<1>2. runner[p].todo \in SUBSET DayIds
  BY <1>1 DEF Runner
<1>3. ASSUME runner[p].at # "idle"
      PROVE  /\ Job(p) \in runner[p].todo /\ Job(p) \in DayIds
             /\ jobs[Job(p)] # "absent"
  <2>1. runner[p].todo # {}
    BY <1>1, <1>3 DEF Local
  <2>2. Job(p) \in runner[p].todo
    BY <1>2, <2>1, JobListed DEF Job
  <2> QED BY <1>2, <2>2 DEF TypeInv
<1> QED BY <1>1, <1>3

LEMMA ListedTyped ==
  ASSUME NEW p \in Runners, NEW now \in Times, NEW todo \in SUBSET DayIds
  PROVE  LET w == Listed(now, todo) IN
         /\ w \in Runner /\ Local(p, w) /\ w.todo \subseteq todo
         /\ w.at \in {"idle", "count"}
<1>1. 0 \in Times /\ 0 \in 0..MaxAttempts /\ 0 \in 0..SendAttempts - 1
  BY JobConstants DEF Times
<1>2. CASE todo = {}
  <2>1. Idle \in Runner /\ Local(p, Idle) /\ Idle.todo = {} /\ Idle.at = "idle"
    BY <1>1 DEF Idle, Runner, Local
  <2> QED BY <1>2, <2>1 DEF Listed
<1>3. CASE todo # {}
  <2> DEFINE w == [at |-> "count", now |-> now, todo |-> todo, attempt |-> 0, result |-> "none", try |-> 0]
  <2>1. w \in Runner /\ Local(p, w) /\ w.todo = todo /\ w.at = "count"
    BY <1>1, <1>3 DEF Runner, Local
  <2> QED BY <1>3, <2>1 DEF Listed
<1> QED BY <1>2, <1>3

(* One step of p: the rest of the processes stay where they are.           *)
LEMMA Moved ==
  ASSUME TypeInv, NEW p \in Runners, NEW w \in Runner, Local(p, w), Become(p, w)
  PROVE  /\ runner' \in [Runners -> Runner]
         /\ runner'[p] = w
         /\ \A q \in Runners : q # p => runner'[q] = runner[q]
         /\ \A q \in Runners : Local(q, runner'[q])
BY DEF TypeInv, TypeOK, Become

LEMMA TypeStep ==
  ASSUME TypeInv, NEW p \in Runners, NEW w \in Runner, Local(p, w), Become(p, w),
         UNCHANGED time,
         sent' \in [DayIds -> [Times -> Nat]],
         runs' \subseteq Run,
         jobs' \in [DayIds -> {"absent", "enabled", "disabled"}],
         \A d \in DayIds : jobs[d] # "absent" => jobs'[d] # "absent",
         \A d \in w.todo : jobs[d] # "absent"
  PROVE  TypeInv'
<1>1. TypeOK'
  BY Moved DEF TypeInv, TypeOK
<1>2. \A q \in Runners : Local(q, runner'[q])
  BY Moved
<1>3. ASSUME NEW q \in Runners, NEW d \in runner'[q].todo PROVE jobs'[d] # "absent"
  <2>1. d \in DayIds
    BY Moved DEF Runner
  <2>2. jobs[d] # "absent"
    BY Moved, <1>3 DEF TypeInv
  <2> QED BY <2>1, <2>2
<1> QED BY <1>1, <1>2, <1>3 DEF TypeInv

(* A step that leaves the runs alone, and the row of p if p executes.       *)
LEMMA QuietRows ==
  ASSUME TypeInv, RowsAgree, NEW p \in Runners, NEW w \in Runner, Local(p, w), Become(p, w),
         UNCHANGED runs,
         \/ ~Busy(w)
         \/ /\ Busy(runner[p]) /\ w.todo = runner[p].todo /\ w.now = runner[p].now
            /\ w.attempt = runner[p].attempt
            /\ \A s : Agrees(runner[p], s) => Agrees(w, s)
  PROVE  RowsAgree'
<1>1. ASSUME NEW q \in Runners, NEW r \in runs, Key(runner'[q], r)
      PROVE  Agrees(runner'[q], r.status)
  <2>1. CASE q # p
    BY <1>1, <2>1, Moved DEF RowsAgree
  <2>2. CASE q = p /\ ~Busy(w)
    BY <2>2, Moved DEF Busy, Agrees
  <2>3. CASE q = p /\ Busy(w)
    <3>1. Key(runner[p], r)
      BY <1>1, <2>3, Moved DEF Key
    <3> QED BY <2>3, <3>1, Moved DEF RowsAgree
  <2> QED BY <2>1, <2>2, <2>3
<1> QED BY <1>1 DEF RowsAgree, KeysUnique

(* The processes at a place, when one of them moves.                       *)
LEMMA RunnersFinite == IsFiniteSet(Runners) /\ Cardinality(Runners) \in Nat
BY JobConstants, FS_Union, FS_CardinalityType DEF Runners

LEMMA AtFinite ==
  ASSUME NEW place, NEW d
  PROVE  /\ IsFiniteSet(At(place, d)) /\ Cardinality(At(place, d)) \in Nat
         /\ Cardinality(At(place, d)) <= Cardinality(Runners)
<1>1. At(place, d) \in SUBSET Runners
  BY DEF At
<1> QED BY <1>1, RunnersFinite, FS_Subset, FS_CardinalityType

LEMMA AtMoves ==
  ASSUME TypeInv, NEW p \in Runners, NEW w \in Runner, Local(p, w), Become(p, w),
         NEW place, NEW d
  PROVE  /\ w.at = place /\ Min(w.todo) = d => At(place, d)' = At(place, d) \cup {p}
         /\ ~ (w.at = place /\ Min(w.todo) = d) => At(place, d)' = At(place, d) \ {p}
BY Moved DEF At

LEMMA AtCard ==
  ASSUME TypeInv, NEW p \in Runners, NEW w \in Runner, Local(p, w), Become(p, w),
         NEW place, NEW d
  PROVE  /\ Cardinality(At(place, d)') \in Nat
         /\ w.at # place \/ Min(w.todo) # d =>
              /\ Cardinality(At(place, d)') <= Cardinality(At(place, d))
              /\ runner[p].at = place /\ Min(runner[p].todo) = d =>
                   Cardinality(At(place, d)') = Cardinality(At(place, d)) - 1
         /\ Cardinality(At(place, d)') <= Cardinality(At(place, d)) + 1
<1>1. CASE w.at = place /\ Min(w.todo) = d
  <2>1. At(place, d)' = At(place, d) \cup {p}
    BY <1>1, AtMoves
  <2>2. IsFiniteSet(At(place, d)) /\ Cardinality(At(place, d)) \in Nat
    BY AtFinite
  <2>3. Cardinality(At(place, d) \cup {p}) \in
          {Cardinality(At(place, d)), Cardinality(At(place, d)) + 1}
    BY <2>2, FS_AddElement
  <2> QED BY <1>1, <2>1, <2>2, <2>3
<1>2. CASE ~ (w.at = place /\ Min(w.todo) = d)
  <2>1. At(place, d)' = At(place, d) \ {p}
    BY <1>2, AtMoves
  <2>2. runner[p].at = place /\ Min(runner[p].todo) = d => p \in At(place, d)
    BY DEF At
  <2>3. IsFiniteSet(At(place, d)) /\ Cardinality(At(place, d)) \in Nat
    BY AtFinite
  <2>4. /\ Cardinality(At(place, d) \ {p}) \in Nat
        /\ Cardinality(At(place, d) \ {p}) =
             IF p \in At(place, d) THEN Cardinality(At(place, d)) - 1
             ELSE Cardinality(At(place, d))
    BY <2>3, FS_RemoveElement, FS_CardinalityType
  <2> QED BY <1>2, <2>1, <2>2, <2>3, <2>4
<1> QED BY <1>1, <1>2

LEMMA RunsFinite ==
  ASSUME CountInv, NEW d
  PROVE  IsFiniteSet(RunsOf(d)) /\ Cardinality(RunsOf(d)) \in Nat
<1>1. RunsOf(d) \in SUBSET runs /\ IsFiniteSet(runs)
  BY DEF RunsOf, CountInv
<1> QED BY <1>1, FS_Subset, FS_CardinalityType

LEMMA ShapeOfRunner == ASSUME NEW w \in Runner PROVE RunnerShape(w)
BY DEF Runner, RunnerShape

(* What was sent stays covered when nothing is sent, the rows keep their   *)
(* keys, and whoever executes has made no fewer calls.                     *)
LEMMA SentQuiet ==
  ASSUME TypeInv, SentInv, NEW p \in Runners, NEW w \in Runner, Local(p, w), Become(p, w),
         UNCHANGED sent,
         \A r \in runs : \E s \in runs' : s.day = r.day /\ s.started = r.started,
         w.at = "execute" => sent[Min(w.todo)][w.now] <= w.try
  PROVE  SentInv'
<1>1. ASSUME NEW q \in Runners, runner'[q].at = "execute"
      PROVE  sent[Min(runner'[q].todo)][runner'[q].now] <= runner'[q].try
  BY <1>1, Moved DEF SentInv
<1>2. ASSUME NEW d \in DayIds, NEW t \in Times, sent[d][t] > 0
      PROVE  \E s \in runs' : s.day = d /\ s.started = t
  BY <1>2 DEF SentInv
<1> QED BY <1>1, <1>2 DEF SentInv

(* A call that arrives belongs to the row of its executor, who has calls   *)
(* left, and to the row of no other.                                       *)
LEMMA SentMore ==
  ASSUME FullInv, NEW p \in Runners, NEW w \in Runner, Local(p, w), Become(p, w),
         runner[p].at = "execute", Arrives(p), UNCHANGED runs,
         \/ w.at # "execute"
         \/ w.todo = runner[p].todo /\ w.now = runner[p].now /\ w.try = runner[p].try + 1
  PROVE  /\ SentInv' /\ sent' \in [DayIds -> [Times -> Nat]]
         /\ sent[Job(p)][runner[p].now] < SendAttempts
         /\ \E r \in runs : r.day = Job(p) /\ r.started = runner[p].now
<1> USE DEF FullInv
<1>1. PICK d \in DayIds : d = Job(p)
  BY AtWork
<1>2. PICK t \in Times : t = runner[p].now
  BY AtWork DEF Runner
<1>3. runner[p].try \in 0..SendAttempts - 1 /\ SendAttempts \in Nat /\ SendAttempts > 0
  BY AtWork, JobConstants DEF Runner
<1>4. sent \in [DayIds -> [Times -> Nat]] /\ sent' = [sent EXCEPT ![d][t] = @ + 1]
  BY <1>1, <1>2 DEF Arrives, TypeInv, TypeOK
<1>5. /\ sent' \in [DayIds -> [Times -> Nat]] /\ sent'[d][t] = sent[d][t] + 1
      /\ \A e \in DayIds, u \in Times : e # d \/ u # t => sent'[e][u] = sent[e][u]
  BY <1>4
<1>6. sent[d][t] <= runner[p].try /\ sent[d][t] \in Nat
  BY <1>1, <1>2, <1>4 DEF SentInv, Job
<1>7. PICK r \in runs : r.day = d /\ r.started = t
  BY <1>1, <1>2 DEF ClaimInv, Busy, Key, Job
<1>8. ASSUME NEW e \in DayIds, NEW u \in Times
      PROVE  /\ sent'[e][u] <= SendAttempts
             /\ sent'[e][u] > 0 => \E s \in runs : s.day = e /\ s.started = u
  <2>1. CASE e = d /\ u = t
    <3>1. sent'[e][u] <= SendAttempts
      BY <1>3, <1>5, <1>6, <2>1
    <3> QED BY <1>7, <2>1, <3>1
  <2>2. CASE ~ (e = d /\ u = t)
    BY <1>5, <2>2 DEF SentInv
  <2> QED BY <2>1, <2>2
<1>9. ASSUME NEW q \in Runners, runner'[q].at = "execute"
      PROVE  sent'[Min(runner'[q].todo)][runner'[q].now] <= runner'[q].try
  <2>1. CASE q = p
    <3>1. Min(runner'[q].todo) = d /\ runner'[q].now = t /\ runner'[q].try = runner[p].try + 1
      BY <1>1, <1>2, <1>9, <2>1, Moved DEF Job
    <3>2. sent[d][t] + 1 <= runner[p].try + 1
      BY <1>3, <1>6
    <3> QED BY <1>5, <3>1, <3>2
  <2>2. CASE q # p
    <3>1. runner'[q] = runner[q] /\ runner[q].at = "execute"
      BY <1>9, <2>2, Moved
    <3>2. Job(q) \in DayIds /\ runner[q].now \in Times
      BY <3>1, AtWork DEF Runner
    <3>3. Job(q) # d \/ runner[q].now # t
      BY <1>1, <1>2, <2>2, <3>1 DEF ClaimInv, Busy, SameRun, Job
    <3>4. sent'[Job(q)][runner[q].now] = sent[Job(q)][runner[q].now]
      BY <1>5, <3>2, <3>3
    <3>5. sent[Job(q)][runner[q].now] <= runner[q].try
      BY <3>1 DEF SentInv, Job
    <3> QED BY <3>1, <3>4, <3>5 DEF Job
  <2> QED BY <2>1, <2>2
<1>10. SentInv'
  BY <1>8, <1>9 DEF SentInv
<1>11. sent[d][t] < SendAttempts
  BY <1>3, <1>6
<1> QED BY <1>1, <1>2, <1>5, <1>7, <1>10, <1>11

-----------------------------------------------------------------------------
(* The steps.                                                              *)

(* A process comes to its next job or to its end.                          *)
LEMMA LeavesJob ==
  ASSUME FullInv, NEW p \in Runners, NEW w \in Runner, Local(p, w), Become(p, w),
         w.at \in {"idle", "count"}, \A d \in w.todo : jobs[d] # "absent",
         UNCHANGED <<time, runs, sent>>,
         jobs' \in [DayIds -> {"absent", "enabled", "disabled"}],
         \A d \in DayIds : jobs[d] # "absent" => jobs'[d] # "absent",
         NoDaySkipped'
  PROVE  FullInv'
<1> USE DEF FullInv
<1>1. ClaimInv'
  BY ShapeOfRunner, QuietStep DEF Busy
<1>2. TypeInv'
  BY TypeStep DEF TypeInv, TypeOK
<1>3. RowsAgree'
  BY QuietRows DEF Busy
<1>4. CountInv'
  <2>1. ASSUME NEW d \in DayIds
        PROVE  Cardinality(RunsOf(d)) + Cardinality(At("insert", d)')
                 < MaxAttempts + Cardinality(Runners)
    <3>1. /\ Cardinality(At("insert", d)') \in Nat
          /\ Cardinality(At("insert", d)') <= Cardinality(At("insert", d))
      BY AtCard
    <3>2. /\ Cardinality(At("insert", d)) \in Nat /\ Cardinality(RunsOf(d)) \in Nat
          /\ Cardinality(Runners) \in Nat /\ MaxAttempts \in Nat
      BY AtFinite, RunsFinite, RunnersFinite, JobConstants DEF TypeInv, TypeOK
    <3> QED BY <2>1, <3>1, <3>2 DEF CountInv
  <2>2. \A d : RunsOf(d)' = RunsOf(d)
    BY DEF RunsOf
  <2> QED BY <2>1, <2>2 DEF CountInv
<1>5. SentInv'
  BY SentQuiet
<1> QED BY <1>1, <1>2, <1>3, <1>4, <1>5

LEMMA NextListed ==
  ASSUME TypeInv, NEW p \in Runners, NextJob(p)
  PROVE  \E w \in Runner : /\ Local(p, w) /\ Become(p, w) /\ w.at \in {"idle", "count"}
                           /\ w.todo \subseteq runner[p].todo
<1> DEFINE w == Listed(runner[p].now, runner[p].todo \ {Job(p)})
<1>1. runner[p].now \in Times /\ runner[p].todo \ {Job(p)} \in SUBSET DayIds
  BY AtWork DEF Runner
<1>2. w \in Runner /\ Local(p, w) /\ w.at \in {"idle", "count"}
      /\ w.todo \subseteq runner[p].todo \ {Job(p)}
  BY <1>1, ListedTyped
<1> QED BY <1>2 DEF NextJob

LEMMA NextJobKeeps ==
  ASSUME FullInv, NEW p \in Runners, NextJob(p), UNCHANGED <<time, runs, sent>>,
         jobs' \in [DayIds -> {"absent", "enabled", "disabled"}],
         \A d \in DayIds : jobs[d] # "absent" => jobs'[d] # "absent",
         NoDaySkipped'
  PROVE  FullInv'
<1>1. PICK w \in Runner : /\ Local(p, w) /\ Become(p, w) /\ w.at \in {"idle", "count"}
                          /\ w.todo \subseteq runner[p].todo
  BY NextListed DEF FullInv
<1>2. \A d \in w.todo : jobs[d] # "absent"
  BY <1>1 DEF FullInv, TypeInv
<1> QED BY <1>1, <1>2, LeavesJob

LEMMA SameJobs ==
  ASSUME FullInv, UNCHANGED <<runs, jobs>>
  PROVE  /\ NoDaySkipped'
         /\ jobs' \in [DayIds -> {"absent", "enabled", "disabled"}]
         /\ \A d \in DayIds : jobs[d] # "absent" => jobs'[d] # "absent"
BY DEF FullInv, NoDaySkipped, RunsOf, TypeInv, TypeOK

LEMMA RunDueStep ==
  ASSUME FullInv, NEW p \in Runners, NEW now \in Times, RunDue(p, now)
  PROVE  FullInv'
<1> DEFINE due == {d \in DayIds : jobs[d] = "enabled" /\ Due(d) <= now}
           w == Listed(now, due)
<1>1. w \in Runner /\ Local(p, w) /\ w.at \in {"idle", "count"} /\ w.todo \subseteq due
  BY ListedTyped
<1>2. \A d \in w.todo : jobs[d] # "absent"
  BY <1>1
<1>3. Become(p, w) /\ UNCHANGED <<time, jobs, runs, sent>>
  BY DEF RunDue
<1> HIDE DEF w
<1> QED BY <1>1, <1>2, <1>3, SameJobs, LeavesJob

LEMMA RecordStep == ASSUME FullInv, NEW p \in Runners, Record(p) PROVE FullInv'
BY SameJobs, NextJobKeeps DEF Record

LEMMA AbandonStep == ASSUME FullInv, NEW p \in Runners, Abandon(p) PROVE FullInv'
<1>1. Idle \in Runner /\ Local(p, Idle) /\ Idle.at = "idle" /\ Idle.todo = {}
  BY JobConstants DEF Idle, Runner, Local, Times
<1> QED BY <1>1, SameJobs, LeavesJob DEF Abandon

(* The day after is planned once the run of the job is finished.           *)
LEMMA PlanStep == ASSUME FullInv, NEW p \in Runners, Plan(p) PROVE FullInv'
<1>1. Job(p) \in DayIds
  BY AtWork DEF Plan, FullInv
<1>2. PICK r \in runs : Key(runner[p], r) /\ r.status \in {"succeeded", "failed"}
  <2>1. PICK r \in runs : Key(runner[p], r)
    BY DEF Plan, FullInv, ClaimInv, Busy
  <2> QED BY <2>1 DEF Plan, FullInv, RowsAgree, Agrees
<1>3. r.day = Job(p)
  BY <1>2 DEF Key, Job
<1>4. UNCHANGED <<time, runs, sent>> /\ NextJob(p)
  BY DEF Plan
<1>5. /\ jobs' \in [DayIds -> {"absent", "enabled", "disabled"}]
      /\ \A d \in DayIds : jobs[d] # "absent" => jobs'[d] # "absent"
      /\ \A d \in DayIds : jobs'[d] # "absent" => jobs[d] # "absent" \/ d = Job(p) + 1
  BY <1>1 DEF Plan, FullInv, TypeInv, TypeOK
<1>6. NoDaySkipped'
  <2>1. ASSUME NEW d \in DayIds \ {1}, jobs'[d] # "absent"
        PROVE  \E s \in runs : s.day = d - 1 /\ s.status \in {"succeeded", "failed"}
    <3>1. CASE jobs[d] # "absent"
      BY <3>1 DEF FullInv, NoDaySkipped, RunsOf
    <3>2. CASE d = Job(p) + 1
      <4>1. d - 1 = Job(p)
        BY <1>1, <3>2 DEF DayIds
      <4> QED BY <4>1, <1>2, <1>3
    <3> QED BY <1>5, <2>1, <3>1, <3>2
  <2> QED BY <1>4, <2>1 DEF NoDaySkipped, RunsOf
<1> QED BY <1>4, <1>5, <1>6, NextJobKeeps

(* claim_run counts: there is room for one more run at this moment.        *)
LEMMA CountStep == ASSUME FullInv, NEW p \in Runners, Count(p) PROVE FullInv'
<1> USE DEF FullInv
<1> DEFINE attempt == Cardinality(RunsOf(Job(p))) + 1
<1>0. UNCHANGED <<time, jobs, runs, sent>> /\ runner[p].at = "count"
  BY DEF Count
<1>1. CASE attempt > MaxAttempts
  BY <1>0, <1>1, SameJobs, NextJobKeeps DEF Count
<1>2. CASE ~(attempt > MaxAttempts)
  <2>1. PICK n : n = attempt
    OBVIOUS
  <2>2. n \in 1..MaxAttempts /\ Cardinality(RunsOf(Job(p))) < MaxAttempts
    <3>1. Cardinality(RunsOf(Job(p))) \in Nat /\ MaxAttempts \in Nat
      BY RunsFinite, JobConstants
    <3> QED BY <1>2, <2>1, <3>1
  <2> DEFINE w == [runner[p] EXCEPT !.at = "insert", !.attempt = n]
  <2>3. Become(p, w)
    BY <1>2, <2>1 DEF Count
  <2>4. runner[p] \in Runner /\ Local(p, runner[p])
    BY AtWork DEF TypeInv
  <2>5. w \in Runner /\ w.at = "insert" /\ w.todo = runner[p].todo /\ Local(p, w)
    <3>1. n \in 0..MaxAttempts /\ n # 0
      BY <2>2
    <3>2. /\ w \in Runner /\ w.at = "insert" /\ w.todo = runner[p].todo /\ w.attempt = n
          /\ w.try = runner[p].try
      BY <2>4, <3>1 DEF Runner
    <3> HIDE DEF w
    <3> QED BY <1>0, <2>4, <3>1, <3>2 DEF Local
  <2> HIDE DEF w
  <2>6. ClaimInv'
    BY <1>0, <2>3, <2>5, ShapeOfRunner, QuietStep DEF Busy
  <2>7. TypeInv'
    BY <1>0, <2>3, <2>5, TypeStep DEF TypeInv, TypeOK
  <2>8. RowsAgree'
    BY <1>0, <2>3, <2>5, QuietRows DEF Busy
  <2>9. CountInv'
    <3>1. ASSUME NEW d \in DayIds
          PROVE  Cardinality(RunsOf(d)) + Cardinality(At("insert", d)')
                   < MaxAttempts + Cardinality(Runners)
      <4>1. /\ Cardinality(At("insert", d)') \in Nat
            /\ d # Job(p) => Cardinality(At("insert", d)') <= Cardinality(At("insert", d))
        BY <2>3, <2>4, <2>5, AtCard DEF Job
      <4>2. /\ Cardinality(At("insert", d)) \in Nat /\ Cardinality(RunsOf(d)) \in Nat
            /\ Cardinality(Runners) \in Nat /\ MaxAttempts \in Nat
        BY AtFinite, RunsFinite, RunnersFinite, JobConstants DEF TypeInv, TypeOK
      <4>3. Cardinality(At("insert", d)') <= Cardinality(Runners)
        <5>1. At("insert", d)' \in SUBSET Runners
          BY DEF At
        <5> QED BY <5>1, RunnersFinite, FS_Subset
      <4> QED BY <3>1, <4>1, <4>2, <4>3, <2>2 DEF CountInv
    <3>2. \A d : RunsOf(d)' = RunsOf(d)
      BY <1>0 DEF RunsOf
    <3> QED BY <1>0, <3>1, <3>2 DEF CountInv
  <2>10. SentInv'
    BY <1>0, <2>3, <2>5, SentQuiet
  <2> QED BY <1>0, <2>6, <2>7, <2>8, <2>9, <2>10, SameJobs
<1> QED BY <1>1, <1>2

(* claim_run inserts: a run with a key of its own, and one inserter less.  *)
LEMMA InsertStep == ASSUME FullInv, NEW p \in Runners, Insert(p) PROVE FullInv'
<1> USE DEF FullInv
<1>0. UNCHANGED <<time, jobs, sent>> /\ runner[p].at = "insert"
  BY DEF Insert
<1>1. CASE NextJob(p) /\ UNCHANGED runs
  BY <1>0, <1>1, SameJobs, NextJobKeeps
<1>2. CASE /\ \A r \in RunsOf(Job(p)) : r.started # runner[p].now
           /\ runs' = runs \cup {NewRun(p)}
           /\ Goto(p, "execute")
  <2> DEFINE n == NewRun(p)
             w == [runner[p] EXCEPT !.at = "execute"]
  <2>1. runner[p] \in Runner /\ Local(p, runner[p]) /\ Job(p) \in DayIds
    BY <1>0, AtWork DEF TypeInv
  <2>2. /\ w \in Runner /\ Local(p, w) /\ w.at = "execute" /\ w.todo = runner[p].todo
        /\ w.now = runner[p].now /\ w.attempt = runner[p].attempt
    BY <1>0, <2>1 DEF Runner, Local
  <2>3. Become(p, w)
    BY <1>2 DEF Goto
  <2>4. /\ n \in Run /\ n.day = Job(p) /\ n.started = runner[p].now
        /\ n.attempt = runner[p].attempt /\ n.status = "running"
    BY <1>0, <2>1 DEF NewRun, Run, Runner, Local
  <2>5. runs' = runs \cup {n} /\ runs \subseteq Run
    BY <1>2 DEF TypeInv, TypeOK
  <2>6. \A r \in runs : ~ (r.day = n.day /\ r.started = n.started)
    BY <1>2, <2>4 DEF RunsOf
  <2> HIDE DEF w, n
  <2>7. ClaimInv'
    BY InsertKeeps
  <2>8. TypeInv'
    BY <1>0, <2>2, <2>3, <2>4, <2>5, TypeStep DEF TypeInv, TypeOK
  <2>9. RowsAgree'
    <3>1. KeysUnique'
      BY <2>5, <2>6 DEF RowsAgree, KeysUnique
    <3>2. ASSUME NEW q \in Runners, NEW r \in runs', Key(runner'[q], r)
          PROVE  Agrees(runner'[q], r.status)
      <4>1. CASE q = p
        <5>1. r = n
          BY <2>2, <2>3, <2>4, <2>5, <2>6, <3>2, <4>1, Moved DEF Key, Job
        <5> QED BY <2>2, <2>3, <2>4, <4>1, <5>1, Moved DEF Agrees
      <4>2. CASE q # p /\ r \in runs
        BY <2>2, <2>3, <3>2, <4>2, Moved DEF RowsAgree
      <4>3. CASE q # p /\ r = n
        <5>1. Key(runner[q], n)
          BY <2>2, <2>3, <3>2, <4>3, Moved
        <5>2. ~Busy(runner[q])
          BY <5>1, <2>6 DEF ClaimInv, Key
        <5> QED BY <2>2, <2>3, <4>3, <5>2, Moved DEF Busy, Agrees
      <4> QED BY <2>5, <4>1, <4>2, <4>3
    <3> QED BY <3>1, <3>2 DEF RowsAgree
  <2>10. NoDaySkipped'
    BY <1>0, <2>5 DEF NoDaySkipped, RunsOf
  <2>11. CountInv'
    <3>1. IsFiniteSet(runs')
      BY <2>5, FS_AddElement DEF CountInv
    <3>2. ASSUME NEW d \in DayIds
          PROVE  Cardinality(RunsOf(d)') + Cardinality(At("insert", d)')
                   < MaxAttempts + Cardinality(Runners)
      <4>0. /\ Cardinality(At("insert", d)) \in Nat
            /\ Cardinality(RunsOf(d)) \in Nat /\ IsFiniteSet(RunsOf(d))
            /\ Cardinality(Runners) \in Nat /\ MaxAttempts \in Nat
            /\ Cardinality(RunsOf(d)) + Cardinality(At("insert", d))
                 < MaxAttempts + Cardinality(Runners)
        BY <3>2, AtFinite, RunsFinite, RunnersFinite, JobConstants DEF TypeInv, TypeOK, CountInv
      <4>1. CASE d = Job(p)
        <5>1. RunsOf(d)' = RunsOf(d) \cup {n} /\ n \notin RunsOf(d)
          BY <2>4, <2>5, <2>6, <4>1 DEF RunsOf
        <5>2. Cardinality(RunsOf(d)') = Cardinality(RunsOf(d)) + 1
          BY <4>0, <5>1, FS_AddElement
        <5>3. Cardinality(At("insert", d)') = Cardinality(At("insert", d)) - 1
          BY <1>0, <2>1, <2>2, <2>3, <4>1, AtCard DEF Job
        <5> QED BY <4>0, <5>2, <5>3
      <4>2. CASE d # Job(p)
        <5>1. RunsOf(d)' = RunsOf(d)
          BY <2>4, <2>5, <4>2 DEF RunsOf
        <5>2. /\ Cardinality(At("insert", d)') <= Cardinality(At("insert", d))
              /\ Cardinality(At("insert", d)') \in Nat
          BY <2>1, <2>2, <2>3, <4>2, AtCard DEF Job
        <5> QED BY <4>0, <5>1, <5>2
      <4> QED BY <4>1, <4>2
    <3> QED BY <1>0, <3>1, <3>2 DEF CountInv
  <2>12. SentInv'
    <3>1. runner[p].now \in Times /\ w.try = 0
      BY <1>0, <2>1 DEF Runner, Local, w
    <3>2. sent[Job(p)][runner[p].now] \in Nat /\ ~ (sent[Job(p)][runner[p].now] > 0)
      BY <2>1, <2>4, <2>6, <3>1 DEF SentInv, TypeInv, TypeOK
    <3>3. sent[Min(w.todo)][w.now] <= w.try
      BY <2>2, <3>1, <3>2 DEF Job
    <3>4. \A r \in runs : \E s \in runs' : s.day = r.day /\ s.started = r.started
      BY <2>5
    <3> QED BY <1>0, <2>2, <2>3, <3>3, <3>4, SentQuiet
  <2> QED BY <2>7, <2>8, <2>9, <2>10, <2>11, <2>12
<1> QED BY <1>1, <1>2 DEF Insert

(* A step that inserts nothing and counts nothing leaves the room there is. *)
LEMMA RoomStays ==
  ASSUME TypeInv, CountInv, NEW p \in Runners, NEW w \in Runner, Local(p, w), Become(p, w),
         w.at # "insert", IsFiniteSet(runs'),
         \A d \in DayIds : Cardinality(RunsOf(d)') = Cardinality(RunsOf(d))
  PROVE  CountInv'
<1>1. ASSUME NEW d \in DayIds
      PROVE  Cardinality(RunsOf(d)') + Cardinality(At("insert", d)')
               < MaxAttempts + Cardinality(Runners)
  <2>1. /\ Cardinality(At("insert", d)') \in Nat
        /\ Cardinality(At("insert", d)') <= Cardinality(At("insert", d))
    BY AtCard
  <2>2. /\ Cardinality(At("insert", d)) \in Nat /\ Cardinality(RunsOf(d)) \in Nat
        /\ Cardinality(Runners) \in Nat /\ MaxAttempts \in Nat
    BY AtFinite, RunsFinite, RunnersFinite, JobConstants
  <2> QED BY <1>1, <2>1, <2>2 DEF CountInv
<1> QED BY <1>1 DEF CountInv

(* The execution ends, or fails behind its end; it may have delivered.     *)
LEMMA FinishStep ==
  ASSUME FullInv, NEW p \in Runners, NEW result \in Final, Finish(p, result),
         runner[p].at \in {"execute", "complete", "record"},
         p \in Schedulers => result # "blocked",
         result = "blocked" => runner[p].at = "execute",
         UNCHANGED <<time, jobs, runs>>,
         sent' = sent \/ (runner[p].at = "execute" /\ Arrives(p))
  PROVE  FullInv'
<1> USE DEF FullInv
<1> DEFINE w == [runner[p] EXCEPT !.at = "complete", !.result = result, !.try = 0]
<1>0. 0 \in 0..SendAttempts - 1 /\ result \in Final \cup {"none"}
  BY JobConstants
<1>1. runner[p] \in Runner /\ Local(p, runner[p]) /\ Job(p) \in DayIds
  BY AtWork DEF TypeInv
<1>2. /\ w \in Runner /\ w.at = "complete" /\ w.todo = runner[p].todo
      /\ w.now = runner[p].now /\ w.attempt = runner[p].attempt /\ w.result = result
      /\ w.try = 0
  BY <1>0, <1>1 DEF Runner
<1>3. Become(p, w)
  BY DEF Finish
<1> HIDE DEF w
<1>4. Local(p, w)
  BY <1>1, <1>2 DEF Local, Final
<1>5. ClaimInv'
  BY FinishKeeps DEF Busy
<1>6. SentInv' /\ sent' \in [DayIds -> [Times -> Nat]]
  <2>1. CASE UNCHANGED sent
    BY <1>2, <1>3, <1>4, <2>1, SentQuiet DEF TypeInv, TypeOK
  <2>2. CASE runner[p].at = "execute" /\ Arrives(p)
    BY <1>2, <1>3, <1>4, <2>2, SentMore
  <2> QED BY <2>1, <2>2
<1>7. TypeInv'
  BY <1>1, <1>2, <1>3, <1>4, <1>6, TypeStep DEF TypeInv, TypeOK
<1>8. RowsAgree'
  <2>1. \A s : Agrees(runner[p], s) => Agrees(w, s)
    BY <1>2 DEF Agrees
  <2> QED BY <1>2, <1>3, <1>4, <2>1, QuietRows DEF Busy
<1>9. CountInv'
  <2>1. \A d \in DayIds : Cardinality(RunsOf(d)') = Cardinality(RunsOf(d))
    BY DEF RunsOf
  <2> QED BY <1>2, <1>3, <1>4, <2>1, RoomStays DEF CountInv
<1> QED BY <1>5, <1>6, <1>7, <1>8, <1>9, SameJobs

(* A call goes wrong and is made again.                                     *)
LEMMA ResendStep == ASSUME FullInv, NEW p \in Runners, Resend(p) PROVE FullInv'
<1> USE DEF FullInv
<1>0. runner[p].at = "execute" /\ UNCHANGED <<time, jobs, runs>>
  BY DEF Resend
<1> DEFINE w == [runner[p] EXCEPT !.try = @ + 1]
<1>1. runner[p] \in Runner /\ Local(p, runner[p]) /\ Job(p) \in DayIds
  BY <1>0, AtWork DEF TypeInv
<1>2. /\ w \in Runner /\ w.at = "execute" /\ w.todo = runner[p].todo
      /\ w.now = runner[p].now /\ w.attempt = runner[p].attempt /\ w.result = runner[p].result
      /\ w.try = runner[p].try + 1 /\ runner[p].try \in Nat
  BY <1>0, <1>1, JobConstants DEF Resend, Runner
<1>3. Become(p, w)
  BY DEF Resend
<1> HIDE DEF w
<1>4. Local(p, w)
  BY <1>0, <1>1, <1>2 DEF Local
<1>5. ClaimInv'
  BY ResendKeeps
<1>6. SentInv' /\ sent' \in [DayIds -> [Times -> Nat]]
  <2>1. CASE UNCHANGED sent
    <3>1. runner[p].now \in Times
      BY <1>1 DEF Runner
    <3>2. sent[Job(p)][runner[p].now] <= runner[p].try /\ sent[Job(p)][runner[p].now] \in Nat
      BY <1>0, <1>1, <3>1 DEF SentInv, Job, TypeInv, TypeOK
    <3>3. sent[Job(p)][runner[p].now] <= w.try
      BY <1>2, <3>2
    <3> QED BY <1>0, <1>2, <1>3, <1>4, <2>1, <3>3, SentQuiet DEF TypeInv, TypeOK, Job
  <2>2. CASE Arrives(p)
    BY <1>0, <1>2, <1>3, <1>4, <2>2, SentMore
  <2> QED BY <2>1, <2>2 DEF Resend
<1>7. TypeInv'
  BY <1>0, <1>1, <1>2, <1>3, <1>4, <1>6, TypeStep DEF TypeInv, TypeOK
<1>8. RowsAgree'
  <2>1. \A s : Agrees(runner[p], s) => Agrees(w, s)
    BY <1>0, <1>2 DEF Agrees
  <2> QED BY <1>0, <1>2, <1>3, <1>4, <2>1, QuietRows DEF Busy
<1>9. CountInv'
  <2>1. \A d \in DayIds : Cardinality(RunsOf(d)') = Cardinality(RunsOf(d))
    BY <1>0 DEF RunsOf
  <2> QED BY <1>0, <1>2, <1>3, <1>4, <2>1, RoomStays DEF CountInv
<1> QED BY <1>0, <1>5, <1>6, <1>7, <1>8, <1>9, SameJobs

LEMMA DeliverStep == ASSUME FullInv, NEW p \in Runners, Deliver(p) PROVE FullInv'
<1>1. PICK result \in Final : Finish(p, result) /\ result # "blocked"
  BY DEF Deliver, Final
<1>2. /\ runner[p].at = "execute" /\ UNCHANGED <<time, jobs, runs>>
      /\ sent' = sent \/ (runner[p].at = "execute" /\ Arrives(p))
  BY DEF Deliver
<1>3. /\ p \in Schedulers => result # "blocked"
      /\ result = "blocked" => runner[p].at = "execute"
      /\ runner[p].at \in {"execute", "complete", "record"}
  BY <1>1, <1>2
<1> QED BY <1>1, <1>2, <1>3, FinishStep

LEMMA DispatchStep == ASSUME FullInv, NEW p \in Runners, Dispatch(p) PROVE FullInv'
<1>1. p \notin Schedulers
  BY JobConstants DEF Dispatch
<1>2. PICK result \in Final : Finish(p, result)
  BY DEF Dispatch
<1>3. /\ runner[p].at = "execute" /\ UNCHANGED <<time, jobs, runs>>
      /\ sent' = sent \/ (runner[p].at = "execute" /\ Arrives(p))
      /\ runner[p].at \in {"execute", "complete", "record"}
  BY DEF Dispatch
<1> QED BY <1>1, <1>2, <1>3, FinishStep

LEMMA FailsInTryStep == ASSUME FullInv, NEW p \in Runners, FailsInTry(p) PROVE FullInv'
<1>1. PICK result \in Final : Finish(p, result) /\ result # "blocked"
  BY DEF FailsInTry, Final
<1>2. /\ runner[p].at \in {"execute", "complete", "record"} /\ UNCHANGED <<time, jobs, runs>>
      /\ sent' = sent \/ (runner[p].at = "execute" /\ Arrives(p))
  BY DEF FailsInTry
<1> QED BY <1>1, <1>2, FinishStep

-----------------------------------------------------------------------------
(* complete_run writes the row of p and no other, and the row was not final. *)
LEMMA ClaimedRow ==
  ASSUME FullInv, NEW p \in Runners, runner[p].at = "complete"
  PROVE  /\ Claimed(p) \in runs /\ Claimed(p) \in Run
         /\ Claimed(p).day = Job(p) /\ Claimed(p).started = runner[p].now
         /\ Claimed(p).attempt = runner[p].attempt
         /\ Claimed(p).status \in {"running", "blocked"}
<1> USE DEF FullInv
<1>1. PICK r \in runs : Key(runner[p], r)
  BY DEF ClaimInv, Busy
<1>2. r.day = Job(p) /\ r.started = runner[p].now /\ r.attempt = runner[p].attempt
  BY <1>1 DEF Key, Job
<1>3. /\ Claimed(p) \in runs /\ Claimed(p).day = Job(p)
      /\ Claimed(p).started = runner[p].now
  BY <1>1, <1>2 DEF Claimed
<1>4. Claimed(p) = r
  BY <1>1, <1>2, <1>3 DEF RowsAgree, KeysUnique
<1>5. r.status \in {"running", "blocked"}
  BY <1>1 DEF RowsAgree, Agrees
<1> QED BY <1>1, <1>2, <1>4, <1>5 DEF TypeInv, TypeOK

(* A row that replaces another of its job leaves the number of rows alone. *)
LEMMA RowReplaced ==
  ASSUME CountInv, NEW c \in runs, NEW f, f.day = c.day, f \notin runs \ {c},
         runs' = (runs \ {c}) \cup {f}, NEW d
  PROVE  Cardinality(RunsOf(d)') = Cardinality(RunsOf(d))
<1>0. IsFiniteSet(RunsOf(d)) /\ Cardinality(RunsOf(d)) \in Nat
  BY RunsFinite
<1>1. CASE d = c.day
  <2> DEFINE rest == RunsOf(d) \ {c}
  <2>1. c \in RunsOf(d) /\ f \notin rest /\ RunsOf(d)' = rest \cup {f}
    BY <1>1 DEF RunsOf
  <2>2. IsFiniteSet(rest) /\ Cardinality(rest) = Cardinality(RunsOf(d)) - 1
    BY <1>0, <2>1, FS_RemoveElement
  <2> HIDE DEF rest
  <2>3. Cardinality(rest \cup {f}) = Cardinality(rest) + 1
    BY <2>1, <2>2, FS_AddElement
  <2> QED BY <1>0, <2>1, <2>2, <2>3
<1>2. CASE d # c.day
  <2>1. RunsOf(d)' = RunsOf(d)
    BY <1>2 DEF RunsOf
  <2> QED BY <2>1
<1> QED BY <1>1, <1>2

LEMMA CompleteStep == ASSUME FullInv, NEW p \in Runners, Complete(p) PROVE FullInv'
<1> USE DEF FullInv
<1>0. runner[p].at = "complete" /\ UNCHANGED <<time, sent>>
  BY DEF Complete
<1> DEFINE result == runner[p].result
           c == Claimed(p)
           f == [c EXCEPT !.status = result]
<1>1. runner[p] \in Runner /\ Local(p, runner[p]) /\ Job(p) \in DayIds /\ jobs[Job(p)] # "absent"
  BY <1>0, AtWork DEF TypeInv
<1>2. result \in Final /\ (p \in Schedulers => result # "blocked")
  BY <1>0, <1>1 DEF Runner, Local
<1>3. /\ c \in runs /\ c \in Run /\ c.day = Job(p) /\ c.started = runner[p].now
      /\ c.attempt = runner[p].attempt /\ c.status \in {"running", "blocked"}
  BY <1>0, ClaimedRow
<1>4. /\ f \in Run /\ f.day = c.day /\ f.started = c.started /\ f.attempt = c.attempt
      /\ f.status = result
  BY <1>2, <1>3 DEF Run
<1>5. runs' = (runs \ {c}) \cup {f} /\ runs \subseteq Run
  BY DEF Complete, TypeInv, TypeOK
<1>6. /\ jobs' \in [DayIds -> {"absent", "enabled", "disabled"}]
      /\ \A d \in DayIds : jobs[d] # "absent" <=> jobs'[d] # "absent"
  BY <1>1 DEF Complete, TypeInv, TypeOK
<1>7. PICK w \in Runner :
        /\ Local(p, w) /\ Become(p, w) /\ w.todo \subseteq runner[p].todo
        /\ w.at \in {"idle", "count", "plan", "record"}
        /\ w.at \in {"plan", "record"} => w.todo = runner[p].todo /\ w.now = runner[p].now
        /\ w.at = "plan" => result \in {"succeeded", "failed"}
        /\ w.at = "record" => result = "blocked"
  <2>1. CASE p \in Schedulers
    <3> DEFINE w == [runner[p] EXCEPT !.at = "plan"]
    <3>1. /\ w \in Runner /\ Become(p, w) /\ w.at = "plan" /\ w.todo = runner[p].todo
          /\ w.now = runner[p].now /\ w.attempt = runner[p].attempt /\ w.try = runner[p].try
      BY <1>1, <2>1 DEF Complete, Goto, Runner
    <3> HIDE DEF w
    <3>2. Local(p, w)
      BY <1>0, <1>1, <2>1, <3>1 DEF Local
    <3> QED BY <1>2, <2>1, <3>1, <3>2 DEF Final
  <2>2. CASE p \notin Schedulers /\ result = "blocked"
    <3> DEFINE w == [runner[p] EXCEPT !.at = "record"]
    <3>1. /\ w \in Runner /\ Become(p, w) /\ w.at = "record" /\ w.todo = runner[p].todo
          /\ w.now = runner[p].now /\ w.attempt = runner[p].attempt /\ w.try = runner[p].try
      BY <1>1, <2>2 DEF Complete, Goto, Runner
    <3> HIDE DEF w
    <3>2. Local(p, w)
      BY <1>0, <1>1, <2>2, <3>1 DEF Local
    <3> QED BY <2>2, <3>1, <3>2
  <2>3. CASE p \notin Schedulers /\ result # "blocked"
    <3>1. NextJob(p)
      BY <2>3 DEF Complete
    <3> QED BY <3>1, NextListed
  <2> QED BY <2>1, <2>2, <2>3
<1> HIDE DEF c, f, result
<1>8. ClaimInv'
  BY CompleteKeeps
<1>9. TypeInv'
  BY <1>0, <1>4, <1>5, <1>6, <1>7, TypeStep DEF TypeInv, TypeOK
<1>10. \A r \in runs : r # c => ~ (r.day = f.day /\ r.started = f.started)
  BY <1>3, <1>4 DEF RowsAgree, KeysUnique
<1>11. RowsAgree'
  <2>1. KeysUnique'
    BY <1>5, <1>10 DEF RowsAgree, KeysUnique
  <2>2. ASSUME NEW q \in Runners, NEW r \in runs', Key(runner'[q], r)
        PROVE  Agrees(runner'[q], r.status)
    <3>1. CASE q = p /\ w.at \in {"plan", "record"}
      <4>1. r.day = f.day /\ r.started = f.started
        BY <1>3, <1>4, <1>7, <2>2, <3>1, Moved DEF Key, Job
      <4>2. r = f
        BY <1>5, <1>10, <4>1
      <4> QED BY <1>4, <1>7, <3>1, <4>2, Moved DEF Agrees
    <3>2. CASE q = p /\ w.at \notin {"plan", "record"}
      BY <1>7, <3>2, Moved DEF Agrees
    <3>3. CASE q # p /\ r \in runs
      BY <1>7, <2>2, <3>3, Moved DEF RowsAgree
    <3>4. CASE q # p /\ r = f
      <4>1. runner'[q] = runner[q]
        BY <1>7, <3>4, Moved
      <4>2. Min(runner[q].todo) = Min(runner[p].todo) /\ runner[q].now = runner[p].now
        BY <1>3, <1>4, <2>2, <3>4, <4>1 DEF Key, Job
      <4>3. ~Busy(runner[q])
        BY <1>0, <3>4, <4>2 DEF ClaimInv, Busy, SameRun
      <4> QED BY <4>1, <4>3 DEF Busy, Agrees
    <3> QED BY <1>5, <3>1, <3>2, <3>3, <3>4
  <2> QED BY <2>1, <2>2 DEF RowsAgree
<1>12. NoDaySkipped'
  <2>1. ASSUME NEW d \in DayIds \ {1}, jobs'[d] # "absent"
        PROVE  \E r \in runs' : r.day = d - 1 /\ r.status \in {"succeeded", "failed"}
    <3>1. PICK r \in runs : r.day = d - 1 /\ r.status \in {"succeeded", "failed"}
      BY <1>6, <2>1 DEF NoDaySkipped, RunsOf
    <3>2. r # c
      BY <1>3, <3>1
    <3> QED BY <1>5, <3>1, <3>2
  <2> QED BY <2>1 DEF NoDaySkipped, RunsOf
<1>13. CountInv'
  <2>0. IsFiniteSet(runs')
    BY <1>5, FS_RemoveElement, FS_AddElement DEF CountInv
  <2>1. \A d \in DayIds : Cardinality(RunsOf(d)') = Cardinality(RunsOf(d))
    BY <1>3, <1>4, <1>5, <1>10, RowReplaced
  <2> QED BY <1>7, <2>0, <2>1, RoomStays
<1>14. SentInv'
  <2>1. \A r \in runs : \E s \in runs' : s.day = r.day /\ s.started = r.started
    BY <1>4, <1>5
  <2> QED BY <1>0, <1>7, <2>1, SentQuiet
<1> QED BY <1>8, <1>9, <1>11, <1>12, <1>13, <1>14

(* The clock, and an operator who enables or disables jobs.                *)
LEMMA NoRunnerStep ==
  ASSUME FullInv,
         Clock \/ (\E d \in DayIds, to \in {"enabled", "disabled"} : SetEnabled(d, to)) \/ UNCHANGED vars
  PROVE  FullInv'
<1> USE DEF FullInv
<1>1. UNCHANGED <<runs, sent, runner>>
  BY DEF Clock, SetEnabled, vars
<1>2. ClaimInv'
  BY OthersKeep
<1>3. /\ time' \in 0..MaxTime
      /\ jobs' \in [DayIds -> {"absent", "enabled", "disabled"}]
      /\ \A d \in DayIds : jobs[d] # "absent" <=> jobs'[d] # "absent"
  BY JobConstants DEF Clock, SetEnabled, vars, TypeInv, TypeOK
<1>4. TypeInv'
  <2>1. TypeOK'
    BY <1>1, <1>3 DEF TypeInv, TypeOK
  <2>2. ASSUME NEW p \in Runners, NEW d \in runner[p].todo PROVE jobs'[d] # "absent"
    <3>1. d \in DayIds /\ jobs[d] # "absent"
      BY AtWork DEF TypeInv, Runner
    <3> QED BY <1>3, <3>1
  <2> QED BY <1>1, <2>1, <2>2 DEF TypeInv
<1>5. RowsAgree'
  BY <1>1 DEF RowsAgree, KeysUnique
<1>6. NoDaySkipped'
  BY <1>1, <1>3 DEF NoDaySkipped, RunsOf
<1>7. CountInv'
  BY <1>1 DEF CountInv, At, RunsOf
<1>8. SentInv'
  BY <1>1 DEF SentInv
<1> QED BY <1>2, <1>4, <1>5, <1>6, <1>7, <1>8

LEMMA InitJobs == Init => FullInv
<1> SUFFICES ASSUME Init PROVE FullInv
  OBVIOUS
<1>0. Idle \in Runner /\ Idle.at = "idle" /\ Idle.todo = {} /\ Idle.try = 0 /\ runs = {}
      /\ \A p \in Runners : runner[p] = Idle
  BY JobConstants DEF Init, Idle, Runner, Times
<1>1. TypeOK
  BY <1>0, JobConstants DEF Init, TypeOK, DayIds
<1>2. TypeInv /\ RowsAgree
  BY <1>0, <1>1 DEF TypeInv, Local, RowsAgree, KeysUnique
<1>3. NoDaySkipped
  BY DEF Init, NoDaySkipped
<1>4. CountInv
  <2>1. IsFiniteSet(runs) /\ \A d : RunsOf(d) = {}
    BY <1>0, FS_EmptySet DEF RunsOf
  <2>2. \A d : At("insert", d) = {}
    BY <1>0 DEF At
  <2>4. Cardinality({}) = 0 /\ Cardinality(Runners) \in Nat /\ MaxAttempts \in 1..5
    BY FS_EmptySet, RunnersFinite, JobConstants
  <2> QED BY <2>1, <2>2, <2>4 DEF CountInv
<1>5. SentInv
  <2>1. \A d \in DayIds, t \in Times : sent[d][t] = 0
    BY DEF Init
  <2>2. 0 <= SendAttempts
    BY JobConstants
  <2> QED BY <1>0, <2>1, <2>2 DEF SentInv
<1> QED BY <1>2, <1>3, <1>4, <1>5, InitClaims DEF FullInv

LEMMA NextJobs == FullInv /\ [Next]_vars => FullInv'
<1> SUFFICES ASSUME FullInv, [Next]_vars PROVE FullInv'
  OBVIOUS
<1>1. time \in Times /\ ManualNow \subseteq Times
  BY DEF FullInv, TypeInv, TypeOK, Times
<1>2. ASSUME NEW p \in Runners, Step(p) \/ FailsInTry(p) \/ Abandon(p) PROVE FullInv'
  BY <1>2, CountStep, InsertStep, ResendStep, DeliverStep, DispatchStep, CompleteStep, RecordStep,
     PlanStep, FailsInTryStep, AbandonStep DEF Step
<1> QED
  BY <1>1, <1>2, RunDueStep, NoRunnerStep DEF Next, Runners

(* Claims made by inserting a row, attempts counted before it, rows completed
   and days planned after it, with deaths and locked databases in between: each
   executor has its row and is the only one (scheduled_automation.py:155-278). *)
THEOREM JobsInvariant == Spec => []JobsInv
BY FullInvIsJobsInv, InitJobs, NextJobs, PTL DEF Spec

(* Jobs, runs and processes keep their types; a row that is completed exists and
   an attempt is never above the bound.                                    *)
THEOREM JobTyping == Spec => []TypeOK
<1>1. FullInv => TypeOK
  BY DEF FullInv, TypeInv
<1> QED BY <1>1, InitJobs, NextJobs, PTL DEF Spec

(* A day is planned only behind a finished run of the day before, whoever ran it,
   failed it or enabled and disabled its job (run_due plans last).         *)
THEOREM NoDayIsSkipped == Spec => []NoDaySkipped
<1>1. FullInv => NoDaySkipped
  BY DEF FullInv
<1> QED BY <1>1, InitJobs, NextJobs, PTL DEF Spec

(* For any number of processes: attempts exceed max_attempts by fewer than the
   processes there are, what is sent has its row, and no run brings a message into
   the chat more often than it is retried, though a call may go wrong after
   Telegram took it (_send_with_retry).                                    *)
THEOREM DeliveriesAreBounded == Spec => []BoundedDeliveries
<1>1. ASSUME FullInv PROVE BoundedDeliveries
  <2>1. ASSUME NEW d \in DayIds
        PROVE  Cardinality(RunsOf(d)) < MaxAttempts + Cardinality(Runners)
    <3>1. /\ Cardinality(At("insert", d)) \in Nat /\ Cardinality(RunsOf(d)) \in Nat
          /\ Cardinality(Runners) \in Nat /\ MaxAttempts \in Nat
      BY <1>1, AtFinite, RunsFinite, RunnersFinite, JobConstants DEF FullInv
    <3> QED BY <1>1, <3>1 DEF FullInv, CountInv
  <2>2. ASSUME NEW d \in DayIds, NEW t \in Times
        PROVE  /\ sent[d][t] <= SendAttempts
               /\ sent[d][t] > 0 => \E r \in RunsOf(d) : r.started = t
    BY <1>1 DEF FullInv, SentInv, RunsOf
  <2> QED BY <2>1, <2>2 DEF BoundedDeliveries
<1> QED BY <1>1, InitJobs, NextJobs, PTL DEF Spec

(* complete_run is reached again only by runs that were not recorded as
   succeeded, so a success stays on record.                                *)
THEOREM SuccessStays == Spec => SuccessIsFinal
<1>1. ASSUME FullInv, [Next]_vars, NEW r \in runs, r.status = "succeeded"
      PROVE  r \in runs'
  <2>1. CASE \E p \in Runners : Complete(p)
    <3>1. PICK p \in Runners : Complete(p)
      BY <2>1
    <3>2. Claimed(p).status # "succeeded"
      BY <1>1, <3>1, ClaimedRow DEF Complete
    <3> QED BY <1>1, <3>1, <3>2 DEF Complete
  <2>2. CASE ~ \E p \in Runners : Complete(p)
    <3>1. runs \subseteq runs'
      BY <1>1, <2>2 DEF Next, Step, Clock, RunDue, Count, Insert, Resend, Deliver, Dispatch, FailsInTry,
         Record, Plan, Abandon, SetEnabled, vars, Runners
    <3> QED BY <3>1
  <2> QED BY <2>1, <2>2
<1>2. FullInv /\ [Next]_vars => [\A r \in runs : r.status = "succeeded" => r \in runs']_vars
  BY <1>1
<1> QED BY <1>2, InitJobs, NextJobs, PTL DEF Spec, SuccessIsFinal

-----------------------------------------------------------------------------
(* The refinement of BriefingChain.  A job that is not planned has no run. *)
RunsPlanned == \A r \in runs : r.day \in DayIds /\ jobs[r.day] # "absent"

LEMMA PlannedStep ==
  ASSUME FullInv, RunsPlanned, [Next]_vars
  PROVE  RunsPlanned'
<1>0. TypeInv /\ TypeOK
  BY DEF FullInv, TypeInv
<1>1. ASSUME NEW d \in DayIds, jobs[d] # "absent" PROVE jobs'[d] # "absent"
  BY <1>0, <1>1 DEF TypeOK, Next, vars, Clock, RunDue, Step, Count, Insert, Resend, Deliver, Dispatch,
     Complete, FailsInTry, Record, Plan, Abandon, SetEnabled
<1>2. \A r \in runs' : \/ \E q \in runs : q.day = r.day
                       \/ r.day \in DayIds /\ jobs[r.day] # "absent"
  <2>1. ASSUME NEW p \in Runners, Insert(p)
        PROVE  \A r \in runs' : r \in runs \/ (r.day \in DayIds /\ jobs[r.day] # "absent")
    <3>1. Job(p) \in DayIds /\ jobs[Job(p)] # "absent"
      BY <1>0, <2>1, AtWork DEF Insert
    <3>2. PICK n : n = NewRun(p)
      OBVIOUS
    <3>3. n.day = Job(p)
      BY <3>2 DEF NewRun
    <3>4. runs' = runs \/ runs' = runs \cup {n}
      BY <2>1, <3>2 DEF Insert
    <3> QED BY <3>1, <3>3, <3>4
  <2>2. ASSUME NEW p \in Runners, Complete(p)
        PROVE  \A r \in runs' : \E q \in runs : q.day = r.day
    <3> DEFINE f == [Claimed(p) EXCEPT !.status = runner[p].result]
    <3>1. Claimed(p) \in runs /\ Claimed(p) \in Run
      BY <2>2, ClaimedRow DEF Complete
    <3>2. f.day = Claimed(p).day
      BY <3>1 DEF Run
    <3>3. runs' = (runs \ {Claimed(p)}) \cup {f}
      BY <2>2 DEF Complete
    <3> HIDE DEF f
    <3> QED BY <3>1, <3>2, <3>3
  <2>3. CASE \E p \in Runners : Insert(p)
    BY <2>1, <2>3
  <2>4. CASE \E p \in Runners : Complete(p)
    BY <2>2, <2>4
  <2>5. CASE UNCHANGED runs
    BY <2>5
  <2> QED
    BY <2>3, <2>4, <2>5 DEF Next, vars, Clock, RunDue, Step, Count, Resend, Deliver, Dispatch,
       FailsInTry, Record, Plan, Abandon, SetEnabled
<1> QED BY <1>1, <1>2 DEF RunsPlanned

LEMMA SameChain ==
  ASSUME UNCHANGED <<runs, sent>>, \A d \in DayIds : jobs'[d] = "absent" <=> jobs[d] = "absent"
  PROVE  UNCHANGED <<Stage, Tried, sent>>
BY DEF Stage, Tried, HasFinished, RunsOf

LEMMA SomeoneAt ==
  ASSUME NEW p \in Runners, NEW place, runner[p].at = place
  PROVE  Cardinality(At(place, Job(p))) \in Nat \ {0}
<1>1. p \in At(place, Job(p))
  BY DEF At, Job
<1> QED BY <1>1, AtFinite, FS_EmptySet

(* The runs of a day are no fewer than their starts.                        *)
LEMMA TriesCounted ==
  ASSUME CountInv, NEW d \in DayIds
  PROVE  /\ IsFiniteSet(Tried[d]) /\ Cardinality(Tried[d]) \in Nat
         /\ Cardinality(Tried[d]) <= Cardinality(RunsOf(d))
<1> DEFINE S == RunsOf(d)
           T == {r.started : r \in S}
           f == [r \in S |-> r.started]
<1>1. IsFiniteSet(S)
  BY RunsFinite
<1>2. f \in Surjection(S, T)
  BY DEF Surjection
<1>3. Tried[d] = T
  BY DEF Tried
<1> HIDE DEF f, S, T
<1>4. IsFiniteSet(T) /\ Cardinality(T) <= Cardinality(S)
  BY <1>1, <1>2, FS_Surjection
<1> QED BY <1>3, <1>4, FS_CardinalityType DEF S

(* claim_run's insert is a try of the day: the inserter is among those that
   counted, so the day has one try left.                                   *)
LEMMA InsertChain ==
  ASSUME FullInv, NEW p \in Runners, Insert(p)
  PROVE  \/ \E d \in DayIds, t \in Times : Chain!Try(d, t)
         \/ UNCHANGED <<Stage, Tried, sent>>
<1>0. UNCHANGED <<jobs, sent>> /\ runner[p].at = "insert"
  BY DEF Insert
<1>1. CASE UNCHANGED runs
  BY <1>0, <1>1, SameChain
<1>2. CASE /\ \A r \in RunsOf(Job(p)) : r.started # runner[p].now
           /\ runs' = runs \cup {NewRun(p)}
  <2>1. PICK n : n = NewRun(p)
    OBVIOUS
  <2>2. n.day = Job(p) /\ n.started = runner[p].now /\ n.status = "running"
    BY <2>1 DEF NewRun
  <2>3. runs' = runs \cup {n} /\ n \notin RunsOf(Job(p))
    BY <1>2, <2>1, <2>2
  <2>4. PICK d \in DayIds : d = Job(p) /\ jobs[d] # "absent"
    BY <1>0, AtWork DEF FullInv
  <2>5. PICK t \in Times : t = runner[p].now
    BY AtWork DEF FullInv, Runner
  <2>6. Stage' = Stage
    <3>1. \A e \in DayIds : HasFinished(e)' <=> HasFinished(e)
      BY <2>2, <2>3 DEF HasFinished, RunsOf
    <3> QED BY <1>0, <3>1 DEF Stage
  <2>7. /\ \A e \in DayIds : e # d => Tried'[e] = Tried[e]
        /\ Tried'[d] = Tried[d] \cup {t} /\ t \notin Tried[d]
    <3>1. RunsOf(d)' = RunsOf(d) \cup {n}
      BY <2>2, <2>3, <2>4 DEF RunsOf
    <3>2. \A e \in DayIds : e # d => RunsOf(e)' = RunsOf(e)
      BY <2>2, <2>3, <2>4 DEF RunsOf
    <3>3. \A e \in DayIds : Tried[e] = {r.started : r \in RunsOf(e)}
      BY DEF Tried
    <3>4. \A e \in DayIds : Tried'[e] = {r.started : r \in RunsOf(e)'}
      BY DEF Tried
    <3>5. Tried'[d] = Tried[d] \cup {t}
      BY <2>2, <2>5, <3>1, <3>3, <3>4
    <3>6. t \notin Tried[d]
      BY <1>2, <2>4, <2>5, <3>3
    <3> QED BY <3>2, <3>3, <3>4, <3>5, <3>6
  <2>8. Tried' = [Tried EXCEPT ![d] = @ \cup {t}]
    BY <2>7 DEF Tried
  <2>9. Cardinality(Tried[d]) < MaxAttempts + Cardinality(Runners) - 1
    <3>1. /\ Cardinality(At("insert", d)) \in Nat \ {0} /\ Cardinality(RunsOf(d)) \in Nat
          /\ Cardinality(Runners) \in Nat /\ MaxAttempts \in Nat
      BY <1>0, <2>4, SomeoneAt, RunsFinite, RunnersFinite, JobConstants DEF FullInv
    <3>2. Cardinality(RunsOf(d)) + Cardinality(At("insert", d))
            < MaxAttempts + Cardinality(Runners)
      BY DEF FullInv, CountInv
    <3>3. Cardinality(Tried[d]) \in Nat /\ Cardinality(Tried[d]) <= Cardinality(RunsOf(d))
      BY TriesCounted DEF FullInv
    <3> QED BY <3>1, <3>2, <3>3
  <2>10. Stage[d] # "unplanned"
    BY <2>4 DEF Stage
  <2>11. Chain!Try(d, t)
    <3>1. t \notin Tried[d]
      BY <2>7
    <3>2. Chain!Cardinality(Tried[d]) = Cardinality(Tried[d])
      BY DEF Chain!Cardinality, Cardinality
    <3> QED BY <1>0, <2>6, <2>8, <2>9, <2>10, <3>1, <3>2 DEF Chain!Try
  <2> QED BY <2>11
<1> QED BY <1>1, <1>2 DEF Insert

(* What a scheduler sends belongs to the run it has claimed, and is one of the
   calls it has left.                                                      *)
LEMMA CallChain ==
  ASSUME FullInv, NEW p \in Runners, Resend(p) \/ Deliver(p)
  PROVE  \/ \E d \in DayIds, t \in Times : Chain!Send(d, t)
         \/ UNCHANGED <<Stage, Tried, sent>>
<1>0. UNCHANGED <<jobs, runs>> /\ runner[p].at = "execute"
  BY DEF Resend, Deliver
<1>1. UNCHANGED <<Stage, Tried>>
  BY <1>0 DEF Stage, Tried, HasFinished, RunsOf
<1>2. PICK d \in DayIds : d = Job(p)
  BY <1>0, AtWork DEF FullInv
<1>3. PICK t \in Times : t = runner[p].now
  BY AtWork DEF FullInv, Runner
<1>4. sent[d][t] < SendAttempts
  <2>1. runner[p].try \in 0..SendAttempts - 1 /\ SendAttempts \in Nat
    BY AtWork, JobConstants DEF FullInv, Runner
  <2>2. sent[d][t] <= runner[p].try /\ sent[d][t] \in Nat
    BY <1>0, <1>2, <1>3 DEF FullInv, SentInv, TypeInv, TypeOK, Job
  <2> QED BY <2>1, <2>2
<1>5. t \in Tried[d]
  <2>1. PICK r \in runs : Key(runner[p], r)
    BY <1>0 DEF FullInv, ClaimInv, Busy
  <2> QED BY <1>2, <1>3, <2>1 DEF Tried, RunsOf, Key, Job
<1>6. sent' = [sent EXCEPT ![d][t] = @ + 1] \/ UNCHANGED sent
  BY <1>2, <1>3 DEF Resend, Deliver, Arrives
<1> QED BY <1>1, <1>4, <1>5, <1>6 DEF Chain!Send

(* complete_run closes the day with its first run that is over.            *)
LEMMA CompleteChain ==
  ASSUME FullInv, NEW p \in Runners, Complete(p)
  PROVE  (\E d \in DayIds : Chain!Close(d)) \/ UNCHANGED <<Stage, Tried, sent>>
<1>0. runner[p].at = "complete" /\ UNCHANGED sent
  BY DEF Complete
<1>1. PICK c \in runs :
        /\ c = Claimed(p) /\ c \in Run /\ c.day = Job(p) /\ c.started = runner[p].now
        /\ c.status \in {"running", "blocked"}
  BY <1>0, ClaimedRow
<1>2. PICK f : f = [c EXCEPT !.status = runner[p].result]
  OBVIOUS
<1>3. f.day = c.day /\ f.started = c.started
  BY <1>1, <1>2 DEF Run
<1>4. runs' = (runs \ {c}) \cup {f}
  BY <1>1, <1>2 DEF Complete
<1>5. PICK d \in DayIds : d = Job(p) /\ jobs[d] # "absent"
  BY <1>0, AtWork DEF FullInv
<1>6. \A e \in DayIds : jobs'[e] = "absent" <=> jobs[e] = "absent"
  BY <1>5 DEF Complete, FullInv, TypeInv, TypeOK
<1>7. Tried' = Tried
  <2>1. ASSUME NEW e \in DayIds
        PROVE  {r.started : r \in RunsOf(e)'} = {r.started : r \in RunsOf(e)}
    <3>1. \A r \in RunsOf(e)' : \E s \in RunsOf(e) : s.started = r.started
      BY <1>3, <1>4 DEF RunsOf
    <3>2. \A r \in RunsOf(e) : \E s \in RunsOf(e)' : s.started = r.started
      BY <1>3, <1>4 DEF RunsOf
    <3> QED BY <3>1, <3>2
  <2> QED BY <2>1 DEF Tried
<1>8. \A e \in DayIds : HasFinished(e)' <=>
        HasFinished(e) \/ (e = d /\ f.status \in {"succeeded", "failed"})
  <2>1. ASSUME NEW e \in DayIds
        PROVE  HasFinished(e)' <=> HasFinished(e) \/ (e = d /\ f.status \in {"succeeded", "failed"})
    <3>1. /\ HasFinished(e)' <=> \E r \in runs' : r.day = e /\ r.status \in {"succeeded", "failed"}
          /\ HasFinished(e) <=> \E r \in runs : r.day = e /\ r.status \in {"succeeded", "failed"}
      BY DEF HasFinished, RunsOf
    <3>2. c.status \notin {"succeeded", "failed"} /\ f.day = d
      BY <1>1, <1>3, <1>5
    <3> QED BY <1>4, <3>1, <3>2
  <2> QED BY <2>1
<1>9. \/ Stage' = [Stage EXCEPT ![d] = "done"] /\ Stage[d] = "planned"
      \/ Stage' = Stage
  <2>1. CASE f.status \in {"succeeded", "failed"} /\ ~HasFinished(d)
    <3>1. \A e \in DayIds : Stage'[e] = IF e = d THEN "done" ELSE Stage[e]
      BY <1>5, <1>6, <1>8, <2>1 DEF Stage
    <3>2. Stage' = [Stage EXCEPT ![d] = "done"]
      BY <3>1 DEF Stage
    <3> QED BY <1>5, <2>1, <3>2 DEF Stage
  <2>2. CASE ~ (f.status \in {"succeeded", "failed"} /\ ~HasFinished(d))
    <3>1. \A e \in DayIds : HasFinished(e)' <=> HasFinished(e)
      BY <1>8, <2>2 DEF HasFinished
    <3> QED BY <1>6, <3>1 DEF Stage
  <2> QED BY <2>1, <2>2
<1>10. Tried[d] # {}
  BY <1>1, <1>5 DEF Tried, RunsOf
<1> QED BY <1>0, <1>5, <1>7, <1>9, <1>10 DEF Chain!Close

(* _reschedule_next_occurrence plans the next day, which has no run yet.   *)
LEMMA PlanChain ==
  ASSUME FullInv, RunsPlanned, NEW p \in Runners, Plan(p)
  PROVE  (\E d \in DayIds : Chain!Plan(d)) \/ UNCHANGED <<Stage, Tried, sent>>
<1>0. runner[p].at = "plan" /\ UNCHANGED <<runs, sent>>
  BY DEF Plan
<1>1. Job(p) \in DayIds /\ jobs[Job(p)] # "absent"
  BY <1>0, AtWork DEF FullInv
<1>2. UNCHANGED Tried /\ \A e \in DayIds : HasFinished(e)' <=> HasFinished(e)
  BY <1>0 DEF Tried, HasFinished, RunsOf
<1>3. CASE UNCHANGED jobs
  BY <1>0, <1>3, SameChain
<1>4. CASE /\ Job(p) < Days /\ jobs[Job(p) + 1] = "absent"
           /\ jobs' = [jobs EXCEPT ![Job(p) + 1] = "enabled"]
  <2>1. PICK d \in DayIds : d = Job(p) + 1 /\ d > 1 /\ d - 1 = Job(p)
    BY <1>1, <1>4, JobConstants DEF DayIds
  <2>2. HasFinished(Job(p))
    <3>1. PICK r \in runs : Key(runner[p], r)
      BY <1>0 DEF FullInv, ClaimInv, Busy
    <3>2. r.status \in {"succeeded", "failed"}
      BY <1>0, <3>1 DEF FullInv, RowsAgree, Agrees
    <3> QED BY <3>1, <3>2 DEF HasFinished, RunsOf, Key, Job
  <2>3. ~HasFinished(d)
    BY <1>4, <2>1 DEF RunsPlanned, HasFinished, RunsOf
  <2>4. Stage[d - 1] = "done" /\ Stage[d] = "unplanned"
    BY <1>1, <1>4, <2>1, <2>2 DEF Stage
  <2>5. \A e \in DayIds : jobs'[e] = IF e = d THEN "enabled" ELSE jobs[e]
    BY <1>4, <2>1 DEF FullInv, TypeInv, TypeOK
  <2>6. \A e \in DayIds : Stage'[e] = IF e = d THEN "planned" ELSE Stage[e]
    BY <1>2, <2>3, <2>5 DEF Stage
  <2>7. Stage' = [Stage EXCEPT ![d] = "planned"]
    BY <2>6 DEF Stage
  <2> QED BY <1>0, <1>2, <2>1, <2>4, <2>7 DEF Chain!Plan
<1> QED BY <1>3, <1>4 DEF Plan

LEMMA InitChain == Init => Chain!Init /\ RunsPlanned
<1> SUFFICES ASSUME Init PROVE Chain!Init /\ RunsPlanned
  OBVIOUS
<1>1. runs = {} /\ \A d : RunsOf(d) = {}
  BY DEF Init, RunsOf
<1>2. Tried = [d \in DayIds |-> {}]
  BY <1>1 DEF Tried
<1>3. Stage = [d \in DayIds |-> IF d = 1 THEN "planned" ELSE "unplanned"]
  BY <1>1 DEF Init, Stage, HasFinished
<1> QED BY <1>1, <1>2, <1>3 DEF Init, Chain!Init, DayIds, Chain!DayIds, RunsPlanned

LEMMA StepChain ==
  ASSUME FullInv, RunsPlanned, [Next]_vars
  PROVE  [Chain!Next]_(Chain!chain)
<1>1. \/ \E d \in DayIds, t \in Times : Chain!Try(d, t) \/ Chain!Send(d, t)
      \/ \E d \in DayIds : Chain!Close(d) \/ Chain!Plan(d)
      \/ UNCHANGED <<Stage, Tried, sent>>
  <2>1. CASE \E p \in Runners : Insert(p) \/ Resend(p) \/ Deliver(p) \/ Complete(p) \/ Plan(p)
    BY <2>1, InsertChain, CallChain, CompleteChain, PlanChain
  <2>2. CASE ~ \E p \in Runners : Insert(p) \/ Resend(p) \/ Deliver(p) \/ Complete(p) \/ Plan(p)
    <3>1. /\ UNCHANGED <<runs, sent>>
          /\ UNCHANGED jobs \/ \E d \in DayIds, to \in {"enabled", "disabled"} : SetEnabled(d, to)
      BY <2>2 DEF Next, Step, Clock, RunDue, Count, Dispatch, FailsInTry, Record, Abandon,
         SetEnabled, vars, Runners
    <3>2. \A d \in DayIds : jobs'[d] = "absent" <=> jobs[d] = "absent"
      BY <3>1 DEF SetEnabled, FullInv, TypeInv, TypeOK
    <3> QED BY <3>1, <3>2, SameChain
  <2> QED BY <2>1, <2>2
<1> QED BY <1>1 DEF Chain!Next, Chain!chain, DayIds, Chain!DayIds

(* Whoever runs the jobs, dies between two statements or runs one again: a day is
   planned behind its predecessor, is tried a bounded number of times, and each try
   sends as often as one message is retried, no more (scheduled_automation.py:155,
   daily_briefing.py:487-494, 534).                                        *)
THEOREM JobsImplementChain == Spec => ImplementsChain
BY InitJobs, NextJobs, PlannedStep, InitChain, StepChain, PTL
   DEF Spec, ImplementsChain, Chain!Spec
=============================================================================
