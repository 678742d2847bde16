------------------------- MODULE DeployBrokerProofs -------------------------
(* Proofs about DeployBroker for any runs, commits and targets.            *)
EXTENDS DeployBroker, TLAPS

-----------------------------------------------------------------------------
(* What a worker is after a step, whatever the step.                       *)

\* Every outcome a worker reports is an outcome record.
LEMMA EndedType ==
  ASSUME NEW st \in {"success", "failed", "blocked_duplicate", "unknown"},
         NEW rb \in BOOLEAN, NEW mn \in BOOLEAN
  PROVE  Ended(st, rb, mn) \in Outcome
  BY DEF Ended, Outcome

\* An absent journal is not a journal.
LEMMA NoJournalIsNone == None \notin Journal
  BY DeployConstants DEF Journal

\* Exiting keeps everything but the phase and the outcome.
LEMMA ExitShape ==
  ASSUME NEW w \in Worker, NEW out \in Outcome
  PROVE  /\ Exit(w, out) \in Worker
         /\ Exit(w, out).phase = "exited"
         /\ Exit(w, out).prev = w.prev
  BY DEF Exit, Worker

\* The operations of the plan at each position.
LEMMA PlanShape ==
  /\ Plan[1] = <<"stop", "web">> /\ Plan[2] = <<"stop", "runtime">>
  /\ Plan[3] = <<"git", "switch">> /\ Plan[4] = <<"check", "imports">>
  /\ Plan[5] = <<"start", "runtime">> /\ Plan[6] = <<"start", "web">>
  /\ Plan[7] = <<"check", "health">>
  BY DEF Plan

\* A step of a plan that succeeds is followed by the next one or by the end.
LEMMA AfterSuccessShape ==
  ASSUME NEW w \in Worker,
         w.phase \in {"apply", "rollback", "giveup"},
         w.phase = "giveup" => w.step <= 2
  PROVE  /\ AfterSuccess(w) \in Worker
         /\ AfterSuccess(w).prev = w.prev
         /\ AfterSuccess(w).phase \in {"exited", w.phase}
         /\ AfterSuccess(w).phase # "exited" => AfterSuccess(w).step = w.step + 1
         /\ AfterSuccess(w).phase = "giveup" => AfterSuccess(w).step <= 2
<1>1. CASE w.phase = "giveup" /\ w.step = 2
  <2>1. AfterSuccess(w) = Exit(w, Ended("failed", FALSE, TRUE))
    BY <1>1 DEF AfterSuccess
  <2>2. Ended("failed", FALSE, TRUE) \in Outcome
    BY EndedType
  <2> QED BY ZenonT(40), <1>1, <2>1, <2>2, ExitShape
<1>2. CASE ~(w.phase = "giveup" /\ w.step = 2) /\ w.step < 7
  <2>1. AfterSuccess(w) = Go(w, w.phase, w.step + 1, w.prev)
    BY <1>2 DEF AfterSuccess
  <2>2. /\ w.step + 1 \in Steps /\ w.prev \in Shas
        /\ w.phase = "giveup" => w.step + 1 <= 2
    BY <1>2 DEF Worker, Steps
  <2>3. /\ AfterSuccess(w) \in Worker
        /\ AfterSuccess(w).phase = w.phase
        /\ AfterSuccess(w).step = w.step + 1
        /\ AfterSuccess(w).prev = w.prev
    BY <2>1, <2>2 DEF Go, Worker
  <2> QED BY <2>2, <2>3
<1>3. CASE ~(w.phase = "giveup" /\ w.step = 2) /\ ~(w.step < 7)
  <2>1. AfterSuccess(w) = Exit(w, IF w.phase = "apply" THEN Ended("success", FALSE, FALSE)
                                  ELSE Ended("failed", TRUE, FALSE))
    BY <1>3 DEF AfterSuccess
  <2>2. PICK out \in Outcome : AfterSuccess(w) = Exit(w, out)
    BY <2>1, EndedType
  <2> QED BY <2>2, ExitShape
<1> QED BY <1>1, <1>2, <1>3

\* A failed step ends the worker or moves it to the start of its next fallback.
LEMMA AfterFailureShape ==
  ASSUME NEW w \in Worker,
         w.phase \in {"preflight", "prepare", "apply", "rollback", "giveup"},
         w.phase = "giveup" => w.step <= 2
  PROVE  /\ AfterFailure(w) \in Worker
         /\ AfterFailure(w).prev = w.prev
         /\ AfterFailure(w).phase \in {"exited", "rollback", "giveup"}
         /\ AfterFailure(w).phase = "rollback" => AfterFailure(w).step = 1
         /\ AfterFailure(w).phase = "giveup" => AfterFailure(w).step <= 2
         /\ AfterFailure(w).phase # "exited" => w.phase \in {"apply", "rollback", "giveup"}
<1>1. CASE w.phase \in {"preflight", "prepare"}
  <2>1. AfterFailure(w) = Exit(w, Ended("failed", FALSE, FALSE))
    BY <1>1 DEF AfterFailure
  <2>2. Ended("failed", FALSE, FALSE) \in Outcome
    BY EndedType
  <2> QED BY <1>1, <2>1, <2>2, ExitShape
<1>2. CASE w.phase \in {"apply", "rollback"}
  <2>1. PICK phase \in {"rollback", "giveup"} : AfterFailure(w) = Go(w, phase, 1, w.prev)
    BY <1>2 DEF AfterFailure
  <2>2. 1 \in Steps /\ w.prev \in Shas
    BY DEF Worker, Steps
  <2>3. /\ AfterFailure(w) \in Worker
        /\ AfterFailure(w).phase = phase
        /\ AfterFailure(w).step = 1
        /\ AfterFailure(w).prev = w.prev
    BY <2>1, <2>2 DEF Go, Worker
  <2> QED BY <1>2, <2>3
<1>3. CASE w.phase = "giveup"
  BY <1>3, AfterSuccessShape DEF AfterFailure
<1> QED BY <1>1, <1>2, <1>3

\* Whatever a step of a plan returns, the worker keeps its previous commit and is
\* one position further, at the start of a fallback, or gone.
LEMMA PlanStepShape ==
  ASSUME IInv, NEW r \in Runs, InPlan(r),
         \/ worker' = [worker EXCEPT ![r] = AfterSuccess(@)]
         \/ worker' = [worker EXCEPT ![r] = AfterFailure(@)]
  PROVE  \E n \in Worker :
           /\ worker' = [worker EXCEPT ![r] = n]
           /\ n.prev = worker[r].prev
           /\ n.phase \in {"exited", "apply", "rollback", "giveup"}
           /\ n.phase = "giveup" => n.step <= 2
           /\ n.phase \in {"apply", "rollback"} =>
                \/ n.step = 1
                \/ n.phase = worker[r].phase /\ n.step = worker[r].step + 1
<1> DEFINE w == worker[r]
<1>1. /\ w \in Worker
      /\ w.phase \in {"apply", "rollback", "giveup"}
      /\ w.phase = "giveup" => w.step <= 2
  BY DEF IInv, TypeOK, WorkerPlace, InPlan
<1>2. CASE worker' = [worker EXCEPT ![r] = AfterSuccess(@)]
  <2> DEFINE n == AfterSuccess(w)
  <2>1. /\ n \in Worker
        /\ n.prev = w.prev
        /\ n.phase \in {"exited", w.phase}
        /\ n.phase # "exited" => n.step = w.step + 1
        /\ n.phase = "giveup" => n.step <= 2
    BY <1>1, AfterSuccessShape
  <2>2. worker' = [worker EXCEPT ![r] = n]
    BY <1>2
  <2> HIDE DEF n
  <2> QED BY <1>1, <2>1, <2>2
<1>3. CASE worker' = [worker EXCEPT ![r] = AfterFailure(@)]
  <2> DEFINE n == AfterFailure(w)
  <2>1. /\ n \in Worker
        /\ n.prev = w.prev
        /\ n.phase \in {"exited", "rollback", "giveup"}
        /\ n.phase = "rollback" => n.step = 1
        /\ n.phase = "giveup" => n.step <= 2
    BY <1>1, AfterFailureShape
  <2>2. worker' = [worker EXCEPT ![r] = n]
    BY <1>3
  <2> HIDE DEF n
  <2> QED BY <1>1, <2>1, <2>2
<1> QED BY <1>2, <1>3

\* Where each operation sits in the plan.
LEMMA OpPosition ==
  ASSUME NEW i \in Steps
  PROVE  /\ Plan[i] = <<"stop", "web">> => i = 1
         /\ Plan[i] = <<"stop", "runtime">> => i = 2
         /\ Plan[i] = <<"git", "switch">> => i = 3
         /\ Plan[i] = <<"check", "imports">> => i = 4
         /\ Plan[i] = <<"start", "runtime">> => i = 5
         /\ Plan[i] = <<"start", "web">> => i = 6
         /\ Plan[i] = <<"check", "health">> => i = 7
  BY PlanShape DEF Steps

\* A worker inside a plan is the only one, and no broker but its own is at work.
LEMMA SoleWorker ==
  ASSUME IInv, NEW r \in Runs, Alive(r), InPlan(r)
  PROVE  /\ JournalOf(r)
         /\ \A q \in Runs : Owner(q) => q = r
         /\ \A q \in Runs : Alive(q) /\ InPlan(q) => q = r
<1>1. \A q \in Runs : (Alive(q) /\ InPlan(q)) => JournalOf(q)
  BY DEF IInv, SessionJournalled
<1>2. \A q \in Runs : Owner(q) => journal = None \/ journal.run = q
  BY DEF IInv, OneBroker
<1>3. JournalOf(r)
  BY <1>1
<1> QED BY <1>1, <1>2, <1>3 DEF JournalOf

\* A broker at work is the only one.
LEMMA SoleOwner ==
  ASSUME IInv, NEW r \in Runs, Owner(r)
  PROVE  /\ lock = r
         /\ \A q \in Runs : Owner(q) => q = r
         /\ \A q \in Runs : Alive(q) /\ InPlan(q) => q = r
<1>1. \A q \in Runs : Owner(q) => lock = q
  BY DEF IInv, OneBroker, Owner
<1>2. \A q \in Runs : (Alive(q) /\ InPlan(q)) => \A p \in Runs : Owner(p) => p = q
  BY SoleWorker
<1> QED BY <1>1, <1>2

-----------------------------------------------------------------------------
(* The host and the admission.                                             *)

\* A push to main concerns no process and no unit.
LEMMA MainMovesStep ==
  ASSUME IInv, MainMoves
  PROVE  IInv'
<1>1. TypeOK'
  BY DeployConstants DEF MainMoves, host, disk, IInv, TypeOK, BrokerPC, BrokerRunning
<1>2. OneBroker' /\ WorkerPlace' /\ SessionJournalled' /\ StoppedInPlan' /\ ActiveRunsCheckout' /\ CleanBeforeClear' /\ OutageIsJournalled'
  BY
     DEF MainMoves, host, disk, IInv, OneBroker, WorkerPlace, SessionJournalled,
        StoppedInPlan, ActiveRunsCheckout, CleanBeforeClear, OutageIsJournalled, Owner,
        BrokerRunning, Alive, InPlan, JournalOf, Units, NothingStoppedAt
<1> QED BY <1>1, <1>2 DEF IInv

\* A service that dies is not a stopped one.
LEMMA UnitFailsStep ==
  ASSUME IInv, NEW u \in Units, UnitFails(u)
  PROVE  IInv'
<1>1. TypeOK'
  BY DeployConstants
     DEF UnitFails, InState, disk, IInv, TypeOK, BrokerPC, BrokerRunning, UnitState,
        Worker, Outcome
<1>2. StoppedInPlan'
  BY DeployConstants DEF UnitFails, InState, disk, IInv, StoppedInPlan, Units
<1>3. ActiveRunsCheckout'
  BY DeployConstants DEF UnitFails, InState, disk, IInv, ActiveRunsCheckout, Units
<1>4. CleanBeforeClear'
  BY DeployConstants
     DEF UnitFails, InState, disk, IInv, CleanBeforeClear, Owner, BrokerRunning,
        NothingStoppedAt, Units
<1>5. OutageIsJournalled'
  BY DeployConstants DEF UnitFails, InState, disk, IInv, OutageIsJournalled, Units
<1>6. OneBroker' /\ WorkerPlace' /\ SessionJournalled'
  BY
     DEF UnitFails, disk, IInv, OneBroker, WorkerPlace, SessionJournalled, Owner,
        BrokerRunning, Alive, InPlan, JournalOf
<1> QED BY <1>1, <1>2, <1>3, <1>4, <1>5, <1>6 DEF IInv

\* systemd restarts what failed, from the checkout.
LEMMA UnitRestartsStep ==
  ASSUME IInv, NEW u \in Units, UnitRestarts(u)
  PROVE  IInv'
<1>1. TypeOK'
  BY DeployConstants
     DEF UnitRestarts, Started, disk, IInv, TypeOK, BrokerPC, BrokerRunning, UnitState,
        Worker, Outcome
<1>2. StoppedInPlan'
  BY DeployConstants DEF UnitRestarts, Started, disk, IInv, StoppedInPlan, Units
<1>3. ActiveRunsCheckout'
  BY DeployConstants DEF UnitRestarts, Started, disk, IInv, ActiveRunsCheckout, Units
<1>4. CleanBeforeClear'
  BY DeployConstants
     DEF UnitRestarts, Started, disk, IInv, CleanBeforeClear, Owner, BrokerRunning,
        NothingStoppedAt, Units
<1>5. OutageIsJournalled'
  BY DeployConstants DEF UnitRestarts, Started, disk, IInv, OutageIsJournalled, Units
<1>6. OneBroker' /\ WorkerPlace' /\ SessionJournalled'
  BY
     DEF UnitRestarts, disk, IInv, OneBroker, WorkerPlace, SessionJournalled, Owner,
        BrokerRunning, Alive, InPlan, JournalOf
<1> QED BY <1>1, <1>2, <1>3, <1>4, <1>5, <1>6 DEF IInv

\* A broker that takes the free lock has done nothing yet.
LEMMA AcquireStep ==
  ASSUME IInv, NEW r \in Runs, Acquire(r)
  PROVE  IInv'
<1>1. TypeOK'
  BY DeployConstants DEF Acquire, host, disk, IInv, TypeOK, BrokerPC, BrokerRunning
<1>2. OneBroker'
  BY DeployConstants DEF Acquire, host, disk, IInv, OneBroker, Owner, BrokerRunning
<1>3. WorkerPlace'
  BY DeployConstants DEF Acquire, host, disk, IInv, WorkerPlace, Alive, InPlan
<1>4. SessionJournalled'
  BY DeployConstants
     DEF Acquire, host, disk, IInv, SessionJournalled, Owner, BrokerRunning, JournalOf,
        Alive, InPlan
<1>5. CleanBeforeClear'
  BY DeployConstants
     DEF Acquire, host, disk, IInv, CleanBeforeClear, Owner, BrokerRunning,
        NothingStoppedAt, Units
<1>6. StoppedInPlan' /\ ActiveRunsCheckout' /\ OutageIsJournalled'
  BY
     DEF Acquire, host, disk, IInv, StoppedInPlan, ActiveRunsCheckout,
        OutageIsJournalled, Units
<1> QED BY <1>1, <1>2, <1>3, <1>4, <1>5, <1>6 DEF IInv

\* A broker that gives up waiting never did anything.
LEMMA BusyStep ==
  ASSUME IInv, NEW r \in Runs, Busy(r)
  PROVE  IInv'
<1>1. TypeOK'
  BY DeployConstants DEF Busy, host, disk, IInv, TypeOK, BrokerPC, BrokerRunning
<1>2. OneBroker'
  BY DeployConstants DEF Busy, host, disk, IInv, OneBroker, Owner, BrokerRunning
<1>3. WorkerPlace'
  BY DeployConstants DEF Busy, host, disk, IInv, WorkerPlace, Alive, InPlan
<1>4. SessionJournalled'
  BY DeployConstants
     DEF Busy, host, disk, IInv, SessionJournalled, Owner, BrokerRunning, JournalOf,
        Alive, InPlan
<1>5. CleanBeforeClear'
  BY DeployConstants
     DEF Busy, host, disk, IInv, CleanBeforeClear, Owner, BrokerRunning,
        NothingStoppedAt, Units
<1>6. StoppedInPlan' /\ ActiveRunsCheckout' /\ OutageIsJournalled'
  BY
     DEF Busy, host, disk, IInv, StoppedInPlan, ActiveRunsCheckout, OutageIsJournalled,
        Units
<1> QED BY <1>1, <1>2, <1>3, <1>4, <1>5, <1>6 DEF IInv

\* A refused request leaves no trace.
LEMMA RefuseStep ==
  ASSUME IInv, NEW r \in Runs, Refuse(r)
  PROVE  IInv'
<1>1. TypeOK'
  BY DeployConstants DEF Refuse, host, disk, IInv, TypeOK, BrokerPC, BrokerRunning
<1>2. OneBroker'
  BY DeployConstants
     DEF Refuse, host, disk, IInv, TypeOK, OneBroker, Owner, BrokerRunning, UnitState
<1>3. WorkerPlace'
  BY DeployConstants DEF Refuse, host, disk, IInv, WorkerPlace, Alive, InPlan
<1>4. SessionJournalled'
  BY DeployConstants
     DEF Refuse, host, disk, IInv, SessionJournalled, Owner, BrokerRunning, JournalOf,
        Alive, InPlan
<1>5. CleanBeforeClear'
  BY DeployConstants
     DEF Refuse, host, disk, IInv, CleanBeforeClear, Owner, BrokerRunning,
        NothingStoppedAt, Units
<1>6. StoppedInPlan' /\ ActiveRunsCheckout' /\ OutageIsJournalled'
  BY
     DEF Refuse, host, disk, IInv, StoppedInPlan, ActiveRunsCheckout,
        OutageIsJournalled, Units
<1> QED BY <1>1, <1>2, <1>3, <1>4, <1>5, <1>6 DEF IInv

\* A deployment starts with no journal and no session.
LEMMA AdmitStep ==
  ASSUME IInv, NEW r \in Runs, Admit(r)
  PROVE  IInv'
<1>1. TypeOK'
  BY DeployConstants
     DEF Admit, IInv, TypeOK, OneBroker, InPlan, host, disk, Units, SessionState,
        BrokerPC, BrokerRunning, Worker, Steps, Outcome, Observed, AbandonPC, InState,
        Go
<1>2. OneBroker'
  BY DeployConstants
     DEF Admit, Alive, Go, host, disk, IInv, OneBroker, Owner, BrokerRunning
<1>3. WorkerPlace'
  BY DeployConstants
     DEF Admit, Alive, Go, host, disk, IInv, TypeOK, WorkerPlace, InPlan, UnitState
<1>4. SessionJournalled'
  BY DeployConstants
     DEF Admit, Alive, Go, host, disk, IInv, WorkerPlace, SessionJournalled, BrokerPC,
        BrokerRunning, Owner, InPlan, JournalOf, Units
<1>5. StoppedInPlan'
  BY DeployConstants DEF Admit, Alive, Go, host, disk, IInv, StoppedInPlan, Units
<1>6. CleanBeforeClear'
  BY DeployConstants
     DEF Admit, IInv, CleanBeforeClear, OutageIsJournalled, NothingStoppedAt, Alive,
        InPlan, host
<1>7. ActiveRunsCheckout' /\ OutageIsJournalled'
  BY DEF Admit, host, disk, IInv, ActiveRunsCheckout, OutageIsJournalled, Units
<1> QED BY <1>1, <1>2, <1>3, <1>4, <1>5, <1>6, <1>7 DEF IInv

-----------------------------------------------------------------------------
(* The worker.                                                             *)

\* Any worker that fails keeps its previous commit and falls back or ends.
LEMMA FailureShape ==
  ASSUME IInv, NEW r \in Runs, Alive(r),
         worker' = [worker EXCEPT ![r] = AfterFailure(@)]
  PROVE  \E n \in Worker :
           /\ worker' = [worker EXCEPT ![r] = n]
           /\ n.prev = worker[r].prev
           /\ n.phase \in {"exited", "rollback", "giveup"}
           /\ n.phase = "giveup" => n.step <= 2
           /\ n.phase = "rollback" => n.step = 1
           /\ n.phase # "exited" => InPlan(r)
<1> DEFINE n == AfterFailure(worker[r])
<1>1. /\ worker[r] \in Worker
      /\ worker[r].phase \in {"preflight", "prepare", "apply", "rollback", "giveup"}
      /\ worker[r].phase = "giveup" => worker[r].step <= 2
  BY DEF IInv, TypeOK, WorkerPlace, Alive, Worker
<1>2. /\ n \in Worker
      /\ n.prev = worker[r].prev
      /\ n.phase \in {"exited", "rollback", "giveup"}
      /\ n.phase = "giveup" => n.step <= 2
      /\ n.phase = "rollback" => n.step = 1
      /\ n.phase # "exited" => InPlan(r)
  BY <1>1, AfterFailureShape DEF InPlan
<1>3. worker' = [worker EXCEPT ![r] = n]
  OBVIOUS
<1> HIDE DEF n
<1> QED BY <1>2, <1>3

\* A step that raises disturbs only its worker.
LEMMA StepFailsStep ==
  ASSUME IInv, NEW r \in Runs, StepFails(r)
  PROVE  IInv'
<1>1. PICK n \in Worker :
           /\ worker' = [worker EXCEPT ![r] = n]
           /\ n.prev = worker[r].prev
           /\ n.phase \in {"exited", "rollback", "giveup"}
           /\ n.phase = "giveup" => n.step <= 2
           /\ n.phase = "rollback" => n.step = 1
           /\ n.phase # "exited" => InPlan(r)
  BY FailureShape DEF StepFails
<1>2. TypeOK'
  BY <1>1, DeployConstants
     DEF StepFails, Alive, host, disk, IInv, TypeOK, BrokerPC, BrokerRunning
<1>3. WorkerPlace'
  BY <1>1, DeployConstants DEF StepFails, Alive, host, disk, IInv, WorkerPlace, InPlan
<1>4. SessionJournalled'
  BY <1>1, DeployConstants
     DEF StepFails, Alive, host, disk, IInv, SessionJournalled, Owner, BrokerRunning,
        JournalOf, InPlan
<1>5. StoppedInPlan'
  BY <1>1, DeployConstants DEF StepFails, Alive, host, disk, IInv, StoppedInPlan, Units
<1>6. OneBroker' /\ ActiveRunsCheckout' /\ CleanBeforeClear' /\ OutageIsJournalled'
  BY
     DEF StepFails, host, disk, IInv, OneBroker, ActiveRunsCheckout, CleanBeforeClear,
        OutageIsJournalled, Owner, BrokerRunning, Units, NothingStoppedAt
<1> QED BY <1>2, <1>3, <1>4, <1>5, <1>6 DEF IInv

\* The preflight reads the host and remembers HEAD.
LEMMA PreflightStep ==
  ASSUME IInv, NEW r \in Runs, Preflight(r)
  PROVE  IInv'
<1>1. TypeOK'
  BY DeployConstants
     DEF Preflight, IInv, TypeOK, OneBroker, InPlan, host, disk, Units, BrokerRunning,
        Worker, Steps, Outcome, Observed, AbandonPC, InState, Go, Exit, Unknown, Ended
<1>2. WorkerPlace'
  BY DeployConstants
     DEF Preflight, Supervised, Alive, Attached, Go, Exit, Ended, host, disk, IInv,
        WorkerPlace, InPlan
<1>3. SessionJournalled'
  BY DeployConstants
     DEF Preflight, Supervised, Alive, Attached, Go, Exit, Ended, host, disk, IInv,
        SessionJournalled, Owner, BrokerRunning, JournalOf, InPlan
<1>4. StoppedInPlan'
  BY DeployConstants
     DEF Preflight, Supervised, Alive, Attached, Go, Exit, Ended, host, disk, IInv,
        StoppedInPlan, Units
<1>5. OneBroker' /\ ActiveRunsCheckout' /\ CleanBeforeClear' /\ OutageIsJournalled'
  BY
     DEF Preflight, host, disk, IInv, OneBroker, ActiveRunsCheckout, CleanBeforeClear,
        OutageIsJournalled, Owner, BrokerRunning, Units, NothingStoppedAt
<1> QED BY <1>1, <1>2, <1>3, <1>4, <1>5 DEF IInv

\* The checkpoint: the journal names the commit that is served.
LEMMA PrepareStep ==
  ASSUME IInv, NEW r \in Runs, Prepare(r)
  PROVE  IInv'
<1>1. PICK n \in Worker :
           /\ worker' = [worker EXCEPT ![r] = n]
           /\ n.prev = worker[r].prev
           /\ \/ n.phase = "exited" /\ UNCHANGED session
              \/ /\ n.phase = "apply" /\ n.step = 1
                 /\ session' = [session EXCEPT ![r] =
                                  [previous |-> worker[r].prev, stopped |-> FALSE]]
  <2>1. /\ Alive(r) /\ ~InPlan(r)
        /\ worker[r] \in Worker
    BY DEF Prepare, Supervised, InPlan, IInv, TypeOK
  <2>2. CASE worker' = [worker EXCEPT ![r] = AfterFailure(@)] /\ UNCHANGED session
    BY <2>1, <2>2, FailureShape
  <2>3. CASE /\ worker' = [worker EXCEPT ![r] = Go(@, "apply", 1, @.prev)]
             /\ session' = [session EXCEPT ![r] =
                              [previous |-> worker[r].prev, stopped |-> FALSE]]
    <3> DEFINE n == Go(worker[r], "apply", 1, worker[r].prev)
    <3>1. /\ n \in Worker /\ n.prev = worker[r].prev
          /\ n.phase = "apply" /\ n.step = 1
      BY <2>1 DEF Go, Worker, Steps
    <3>2. worker' = [worker EXCEPT ![r] = n]
      BY <2>3
    <3> HIDE DEF n
    <3> QED BY <2>3, <3>1, <3>2
  <2> QED BY <2>2, <2>3 DEF Prepare
<1>2. /\ Alive(r) /\ ~InPlan(r) /\ Owner(r)
      /\ worker[r] \in Worker /\ worker[r].prev \in Shas
  BY DEF Prepare, Supervised, Attached, Owner, BrokerRunning, InPlan, IInv, TypeOK, Worker
<1>3. /\ lock = r
      /\ \A q \in Runs : Owner(q) => q = r
      /\ \A q \in Runs : Alive(q) /\ InPlan(q) => q = r
  BY <1>2, SoleOwner
<1>4. /\ journal' \in Journal
      /\ journal'.run = r /\ journal'.previous = worker[r].prev
      /\ journal'.target = Target[r] /\ ~journal'.stopped
  BY <1>2, DeployConstants DEF Prepare, Checkpoint, Journal
<1>6. journal' # None
  BY <1>4, NoJournalIsNone
<1>5. PICK s \in SessionState :
        /\ session' = [session EXCEPT ![r] = s]
        /\ ~s.stopped
        /\ \/ s.previous = None /\ n.phase = "exited"
           \/ s.previous = worker[r].prev /\ n.phase = "apply" /\ n.step = 1
  <2>1. session[r] \in SessionState /\ session[r].previous = None /\ ~session[r].stopped
    BY DEF Prepare, IInv, TypeOK, SessionJournalled
  <2>2. CASE n.phase = "exited" /\ UNCHANGED session
    BY <2>1, <2>2 DEF IInv, TypeOK
  <2>3. CASE /\ n.phase = "apply" /\ n.step = 1
             /\ session' = [session EXCEPT ![r] =
                              [previous |-> worker[r].prev, stopped |-> FALSE]]
    <3>1. [previous |-> worker[r].prev, stopped |-> FALSE] \in SessionState
      BY <1>2 DEF SessionState
    <3> QED BY <2>3, <3>1
  <2> QED BY <1>1, <2>2, <2>3
<1>7. TypeOK'
  BY <1>1, <1>2, <1>4, <1>5
     DEF Prepare, Supervised, Alive, Attached, IInv, TypeOK, BrokerPC, BrokerRunning,
        UnitState, Worker, Outcome
<1>8. OneBroker'
  BY <1>1, <1>2, <1>3, <1>4, DeployConstants, <1>6
     DEF Prepare, Supervised, Alive, Attached, IInv, OneBroker, Owner, BrokerRunning
<1>9. WorkerPlace'
  BY <1>1, <1>2, <1>3, <1>4, DeployConstants, <1>6
     DEF Prepare, Supervised, Alive, Attached, IInv, TypeOK, WorkerPlace, InPlan,
        UnitState
<1>10. SessionJournalled'
  BY ZenonT(40), <1>1, <1>2, <1>3, <1>4, <1>5, <1>6
     DEF Prepare, Supervised, Alive, Attached, IInv, TypeOK, SessionJournalled, Owner,
        BrokerRunning, JournalOf, InPlan, UnitState
<1>11. StoppedInPlan'
  BY <1>1, <1>2, <1>3, <1>4, DeployConstants, <1>6
     DEF Prepare, Supervised, Alive, Attached, IInv, TypeOK, StoppedInPlan, Units,
        UnitState
<1>12. ActiveRunsCheckout'
  BY <1>1, <1>2, <1>3, <1>4, DeployConstants, <1>6
     DEF Prepare, Supervised, Alive, Attached, IInv, ActiveRunsCheckout, Units
<1>13. CleanBeforeClear'
  BY <1>1, <1>2, <1>3, <1>4, DeployConstants, <1>6
     DEF Prepare, Supervised, IInv, TypeOK, SessionJournalled, StoppedInPlan,
        CleanBeforeClear, BrokerPC, Units, NothingStoppedAt
<1>14. OutageIsJournalled'
  BY <1>1, <1>2, <1>3, <1>4, DeployConstants, <1>6
     DEF Prepare, Supervised, Alive, Attached, IInv, OutageIsJournalled, Units
<1> QED BY <1>7, <1>8, <1>9, <1>10, <1>11, <1>12, <1>13, <1>14 DEF IInv

\* The intention to stop reaches the disk before the first stop.
LEMMA RecordStopStep ==
  ASSUME IInv, NEW r \in Runs, RecordStop(r)
  PROVE  IInv'
<1>1. Alive(r) /\ InPlan(r) /\ worker[r] \in Worker
  BY DEF RecordStop, Supervised, IInv, TypeOK
<1>2. PICK n \in Worker :
           /\ worker' = [worker EXCEPT ![r] = n]
           /\ n.prev = worker[r].prev
           /\ \/ /\ n = worker[r]
                 /\ session' = [session EXCEPT ![r] =
                                  [previous |-> session[r].previous, stopped |-> TRUE]]
              \/ /\ n.phase \in {"exited", "rollback", "giveup"}
                 /\ n.phase = "giveup" => n.step <= 2
                 /\ n.phase = "rollback" => n.step = 1
                 /\ UNCHANGED session
  <2>1. CASE worker' = [worker EXCEPT ![r] = AfterFailure(@)] /\ UNCHANGED session
    BY <1>1, <2>1, FailureShape
  <2>2. CASE /\ UNCHANGED worker
             /\ session' = [session EXCEPT ![r] = [previous |-> @.previous, stopped |-> TRUE]]
    <3>1. worker' = [worker EXCEPT ![r] = worker[r]]
      BY <2>2 DEF IInv, TypeOK
    <3> QED BY <1>1, <2>2, <3>1
  <2> QED BY <2>1, <2>2 DEF RecordStop
<1>3. worker[r].step \in {1, 2} /\ ~session[r].stopped
  BY <1>1, PlanShape DEF RecordStop, Op, Steps, Worker
<1>4. /\ JournalOf(r)
      /\ \A q \in Runs : Owner(q) => q = r
      /\ \A q \in Runs : Alive(q) /\ InPlan(q) => q = r
  BY <1>1, SoleWorker
<1>5. /\ journal' \in Journal
      /\ journal'.run = r /\ journal'.previous = session[r].previous
      /\ journal'.target = Target[r] /\ journal'.stopped
  BY <1>1, DeployConstants
     DEF RecordStop, Checkpoint, Journal, IInv, TypeOK, WorkerPlace, Worker
<1>7. journal' # None
  BY <1>5, NoJournalIsNone
<1>6. PICK s \in SessionState :
        /\ session' = [session EXCEPT ![r] = s]
        /\ s.previous = session[r].previous
        /\ s = session[r] \/ s.stopped
  <2>1. session[r] \in SessionState
    BY DEF IInv, TypeOK
  <2>2. CASE UNCHANGED session
    BY <2>1, <2>2 DEF IInv, TypeOK
  <2>3. CASE session' = [session EXCEPT ![r] =
                          [previous |-> session[r].previous, stopped |-> TRUE]]
    <3>1. [previous |-> session[r].previous, stopped |-> TRUE] \in SessionState
      BY <2>1 DEF SessionState
    <3> QED BY <2>3, <3>1
  <2> QED BY <1>2, <2>2, <2>3
<1>8. TypeOK'
  BY <1>2, <1>5, <1>6 DEF RecordStop, host, IInv, TypeOK, BrokerPC, BrokerRunning
<1>9. OneBroker'
  BY <1>1, <1>2, <1>3, <1>4, <1>5, <1>7
     DEF RecordStop, host, IInv, OneBroker, Owner, BrokerRunning
<1>10. WorkerPlace'
  BY <1>1, <1>2, <1>3, <1>4, <1>5, <1>7
     DEF RecordStop, host, IInv, TypeOK, WorkerPlace, Alive, InPlan, UnitState
<1>11. SessionJournalled'
  BY ZenonT(40), <1>1, <1>2, <1>3, <1>4, <1>5, <1>6, <1>7
     DEF RecordStop, host, IInv, TypeOK, SessionJournalled, Owner, BrokerRunning,
        JournalOf, Alive, InPlan, UnitState
<1>12. StoppedInPlan'
  BY <1>1, <1>2, <1>3, <1>4, <1>5, <1>7
     DEF RecordStop, host, IInv, TypeOK, StoppedInPlan, Units, UnitState
<1>13. CleanBeforeClear'
  BY <1>1, <1>2, <1>3, <1>4, <1>5, <1>7
     DEF RecordStop, host, IInv, CleanBeforeClear, Owner, BrokerRunning,
        NothingStoppedAt, Units
<1>14. OutageIsJournalled'
  BY <1>1, <1>2, <1>3, <1>4, <1>5, <1>7
     DEF RecordStop, host, IInv, OutageIsJournalled, Units
<1>15. ActiveRunsCheckout'
  BY DEF RecordStop, host, IInv, ActiveRunsCheckout, Units
<1> QED BY <1>8, <1>9, <1>10, <1>11, <1>12, <1>13, <1>14, <1>15 DEF IInv

\* systemctl is called at its place in the plan, by the only worker.
LEMMA DispatchStep ==
  ASSUME IInv, NEW r \in Runs, NEW verb \in {"stop", "start"}, NEW u \in Units, Dispatch(r, verb, u)
  PROVE  IInv'
<1>1. PICK n \in Worker :
           /\ worker' = [worker EXCEPT ![r] = n]
           /\ n.prev = worker[r].prev
           /\ n.phase \in {"exited", "apply", "rollback", "giveup"}
           /\ n.phase = "giveup" => n.step <= 2
           /\ n.phase \in {"apply", "rollback"} =>
                \/ n.step = 1
                \/ n.phase = worker[r].phase /\ n.step = worker[r].step + 1
  BY PlanStepShape DEF Dispatch, Supervised
<1>2. Alive(r) /\ InPlan(r) /\ worker[r] \in Worker
  BY DEF Dispatch, Supervised, IInv, TypeOK
<1>3. /\ verb = "stop" /\ u = "web" => worker[r].step = 1
      /\ verb = "stop" /\ u = "runtime" => worker[r].step = 2
      /\ verb = "start" /\ u = "runtime" => worker[r].step = 5
      /\ verb = "start" /\ u = "web" => worker[r].step = 6
  BY <1>2, OpPosition DEF Dispatch, Op, Worker
<1>4. /\ JournalOf(r)
      /\ \A q \in Runs : Owner(q) => q = r
      /\ \A q \in Runs : Alive(q) /\ InPlan(q) => q = r
  BY <1>2, SoleWorker
<1>5. TypeOK'
  BY <1>1, <1>2, <1>3, <1>4, DeployConstants
     DEF Dispatch, Supervised, Attached, Systemctl, Started, InState, disk, IInv,
        TypeOK, BrokerPC, BrokerRunning, UnitState, Worker, Outcome
<1>6. WorkerPlace'
  BY <1>1, <1>2, <1>3, <1>4, DeployConstants
     DEF Dispatch, Supervised, Attached, Systemctl, Started, InState, disk, IInv,
        WorkerPlace, Alive, InPlan
<1>7. SessionJournalled'
  BY <1>1, <1>2, <1>3, <1>4, DeployConstants
     DEF Dispatch, Supervised, Attached, Systemctl, Started, InState, disk, IInv,
        SessionJournalled, Owner, BrokerRunning, JournalOf, Alive, InPlan
<1>8. StoppedInPlan'
  BY <1>1, <1>2, <1>3, <1>4, DeployConstants
     DEF Dispatch, Supervised, Attached, Systemctl, Started, InState, disk, IInv,
        TypeOK, OneBroker, StoppedInPlan, CleanBeforeClear, BrokerPC, BrokerRunning,
        Owner, Alive, InPlan, JournalOf, Units, NothingStoppedAt
<1>9. ActiveRunsCheckout'
  BY <1>1, <1>2, <1>3, <1>4, DeployConstants
     DEF Dispatch, Supervised, Attached, Systemctl, Started, InState, disk, IInv,
        ActiveRunsCheckout, Units
<1>10. CleanBeforeClear'
  BY <1>1, <1>2, <1>3, <1>4, DeployConstants
     DEF Dispatch, Supervised, Attached, Systemctl, Started, InState, disk, IInv,
        CleanBeforeClear, Owner, BrokerRunning, NothingStoppedAt, Units
<1>11. OutageIsJournalled'
  BY <1>1, <1>2, <1>3, <1>4, DeployConstants
     DEF Dispatch, IInv, WorkerPlace, SessionJournalled, StoppedInPlan,
        ActiveRunsCheckout, CleanBeforeClear, OutageIsJournalled, Owner, JournalOf,
        InPlan, host, disk, Units
<1>12. OneBroker'
  BY DEF Dispatch, disk, IInv, OneBroker, Owner, BrokerRunning
<1> QED BY <1>5, <1>6, <1>7, <1>8, <1>9, <1>10, <1>11, <1>12 DEF IInv

\* The checkout moves at the third step, when both units are stopped.
LEMMA SwitchStep ==
  ASSUME IInv, NEW r \in Runs, Switch(r)
  PROVE  IInv'
<1>1. PICK n \in Worker :
           /\ worker' = [worker EXCEPT ![r] = n]
           /\ n.prev = worker[r].prev
           /\ n.phase \in {"exited", "apply", "rollback", "giveup"}
           /\ n.phase = "giveup" => n.step <= 2
           /\ n.phase \in {"apply", "rollback"} =>
                \/ n.step = 1
                \/ n.phase = worker[r].phase /\ n.step = worker[r].step + 1
  BY PlanStepShape DEF Switch
<1>2. Alive(r) /\ InPlan(r) /\ worker[r] \in Worker
  BY DEF Switch, IInv, TypeOK
<1>3. worker[r].step = 3 /\ worker[r].phase # "giveup"
  BY <1>2, OpPosition DEF Switch, Op, Worker, IInv, WorkerPlace
<1>4. /\ JournalOf(r)
      /\ \A q \in Runs : Owner(q) => q = r
      /\ \A q \in Runs : Alive(q) /\ InPlan(q) => q = r
  BY <1>2, SoleWorker
<1>5. TypeOK'
  BY <1>1, <1>2, <1>3, <1>4, DeployConstants
     DEF Switch, disk, IInv, TypeOK, BrokerPC, BrokerRunning, UnitState, Worker, Outcome
<1>6. WorkerPlace'
  BY <1>1, <1>2, <1>3, <1>4, DeployConstants
     DEF Switch, disk, IInv, WorkerPlace, Alive, InPlan
<1>7. SessionJournalled'
  BY <1>1, <1>2, <1>3, <1>4, DeployConstants
     DEF Switch, disk, IInv, SessionJournalled, Owner, BrokerRunning, JournalOf, Alive,
        InPlan
<1>8. StoppedInPlan'
  BY <1>1, <1>2, <1>3, <1>4, DeployConstants
     DEF Switch, disk, IInv, StoppedInPlan, Units
<1>9. ActiveRunsCheckout'
  BY <1>1, <1>2, <1>3, <1>4, DeployConstants
     DEF Switch, IInv, StoppedInPlan, ActiveRunsCheckout, InPlan, host, disk, Units
<1>10. OutageIsJournalled'
  BY <1>1, <1>2, <1>3, <1>4, DeployConstants
     DEF Switch, IInv, StoppedInPlan, ActiveRunsCheckout, CleanBeforeClear,
        OutageIsJournalled, InPlan, host, disk, Units
<1>11. OneBroker' /\ CleanBeforeClear'
  BY
     DEF Switch, disk, IInv, OneBroker, CleanBeforeClear, Owner, BrokerRunning,
        NothingStoppedAt, Units
<1> QED BY <1>5, <1>6, <1>7, <1>8, <1>9, <1>10, <1>11 DEF IInv

\* The import check changes nothing.
LEMMA ImportCheckStep ==
  ASSUME IInv, NEW r \in Runs, ImportCheck(r)
  PROVE  IInv'
<1>1. PICK n \in Worker :
           /\ worker' = [worker EXCEPT ![r] = n]
           /\ n.prev = worker[r].prev
           /\ n.phase \in {"exited", "apply", "rollback", "giveup"}
           /\ n.phase = "giveup" => n.step <= 2
           /\ n.phase \in {"apply", "rollback"} =>
                \/ n.step = 1
                \/ n.phase = worker[r].phase /\ n.step = worker[r].step + 1
  BY PlanStepShape DEF ImportCheck
<1>2. Alive(r) /\ InPlan(r) /\ worker[r] \in Worker
  BY DEF ImportCheck, IInv, TypeOK
<1>3. worker[r].step = 4
  BY <1>2, OpPosition DEF ImportCheck, Op, Worker
<1>4. /\ JournalOf(r)
      /\ \A q \in Runs : Owner(q) => q = r
      /\ \A q \in Runs : Alive(q) /\ InPlan(q) => q = r
  BY <1>2, SoleWorker
<1>5. TypeOK'
  BY <1>1, <1>2, <1>3, <1>4, DeployConstants
     DEF ImportCheck, host, disk, IInv, TypeOK, BrokerPC, BrokerRunning
<1>6. WorkerPlace'
  BY <1>1, <1>2, <1>3, <1>4, DeployConstants
     DEF ImportCheck, host, disk, IInv, WorkerPlace, Alive, InPlan
<1>7. SessionJournalled'
  BY <1>1, <1>2, <1>3, <1>4, DeployConstants
     DEF ImportCheck, host, disk, IInv, SessionJournalled, Owner, BrokerRunning,
        JournalOf, Alive, InPlan
<1>8. StoppedInPlan'
  BY <1>1, <1>2, <1>3, <1>4, DeployConstants
     DEF ImportCheck, host, disk, IInv, StoppedInPlan, Units
<1>9. OneBroker' /\ ActiveRunsCheckout' /\ CleanBeforeClear' /\ OutageIsJournalled'
  BY
     DEF ImportCheck, host, disk, IInv, OneBroker, ActiveRunsCheckout, CleanBeforeClear,
        OutageIsJournalled, Owner, BrokerRunning, Units, NothingStoppedAt
<1> QED BY <1>5, <1>6, <1>7, <1>8, <1>9 DEF IInv

\* The health check changes nothing.
LEMMA VerifyStep ==
  ASSUME IInv, NEW r \in Runs, Verify(r)
  PROVE  IInv'
<1>1. PICK n \in Worker :
           /\ worker' = [worker EXCEPT ![r] = n]
           /\ n.prev = worker[r].prev
           /\ n.phase \in {"exited", "apply", "rollback", "giveup"}
           /\ n.phase = "giveup" => n.step <= 2
           /\ n.phase \in {"apply", "rollback"} =>
                \/ n.step = 1
                \/ n.phase = worker[r].phase /\ n.step = worker[r].step + 1
  BY PlanStepShape DEF Verify, Supervised
<1>2. Alive(r) /\ InPlan(r) /\ worker[r] \in Worker
  BY DEF Verify, Supervised, IInv, TypeOK
<1>3. worker[r].step = 7
  BY <1>2, OpPosition DEF Verify, Op, Worker
<1>4. /\ JournalOf(r)
      /\ \A q \in Runs : Owner(q) => q = r
      /\ \A q \in Runs : Alive(q) /\ InPlan(q) => q = r
  BY <1>2, SoleWorker
<1>5. TypeOK'
  BY <1>1, <1>2, <1>3, <1>4, DeployConstants
     DEF Verify, Supervised, Attached, host, disk, IInv, TypeOK, BrokerPC, BrokerRunning
<1>6. WorkerPlace'
  BY <1>1, <1>2, <1>3, <1>4, DeployConstants
     DEF Verify, Supervised, Attached, host, disk, IInv, WorkerPlace, Alive, InPlan
<1>7. SessionJournalled'
  BY <1>1, <1>2, <1>3, <1>4, DeployConstants
     DEF Verify, Supervised, Attached, host, disk, IInv, SessionJournalled, Owner,
        BrokerRunning, JournalOf, Alive, InPlan
<1>8. StoppedInPlan'
  BY <1>1, <1>2, <1>3, <1>4, DeployConstants
     DEF Verify, Supervised, Attached, host, disk, IInv, StoppedInPlan, Units
<1>9. OneBroker' /\ ActiveRunsCheckout' /\ CleanBeforeClear' /\ OutageIsJournalled'
  BY
     DEF Verify, host, disk, IInv, OneBroker, ActiveRunsCheckout, CleanBeforeClear,
        OutageIsJournalled, Owner, BrokerRunning, Units, NothingStoppedAt
<1> QED BY <1>5, <1>6, <1>7, <1>8, <1>9 DEF IInv

\* A worker that dies leaves the host as it is.
LEMMA WorkerCrashStep ==
  ASSUME IInv, NEW r \in Runs, WorkerCrash(r)
  PROVE  IInv'
<1>1. TypeOK'
  BY DeployConstants
     DEF WorkerCrash, Alive, Attached, Go, host, disk, IInv, TypeOK, BrokerPC,
        BrokerRunning, UnitState, Worker, Outcome
<1>2. WorkerPlace'
  BY DeployConstants
     DEF WorkerCrash, Alive, Attached, Go, host, disk, IInv, WorkerPlace, InPlan
<1>3. SessionJournalled'
  BY DeployConstants
     DEF WorkerCrash, Alive, Attached, Go, host, disk, IInv, SessionJournalled, Owner,
        BrokerRunning, JournalOf, InPlan
<1>4. StoppedInPlan'
  BY DeployConstants
     DEF WorkerCrash, Alive, Attached, Go, host, disk, IInv, StoppedInPlan, Units
<1>5. OneBroker' /\ ActiveRunsCheckout' /\ CleanBeforeClear' /\ OutageIsJournalled'
  BY
     DEF WorkerCrash, host, disk, IInv, OneBroker, ActiveRunsCheckout, CleanBeforeClear,
        OutageIsJournalled, Owner, BrokerRunning, Units, NothingStoppedAt
<1> QED BY <1>1, <1>2, <1>3, <1>4, <1>5 DEF IInv

-----------------------------------------------------------------------------
(* The broker.                                                             *)

\* Settling a result writes that result, and a recovery starts from the top with
\* the commit the checkpoint recorded.
LEMMA SettleShape ==
  ASSUME IInv, NEW r \in Runs, NEW res \in Outcome, Settle(r, res)
  PROVE  /\ result' \in [Runs -> Outcome]
         /\ \E n \in Worker :
              /\ worker' = [worker EXCEPT ![r] = n]
              /\ \/ n = worker[r]
                 \/ n.phase = "rollback" /\ n.step = 1 /\ n.prev = session[r].previous
<1>1. worker[r] \in Worker /\ worker = [worker EXCEPT ![r] = worker[r]]
  BY DEF IInv, TypeOK
<1>2. result' \in [Runs -> Outcome]
  BY DEF Settle, IInv, TypeOK
<1>3. CASE session[r].stopped /\ worker' = [worker EXCEPT ![r] =
                                    Go(@, "rollback", 1, session[r].previous)]
  <2> DEFINE n == Go(worker[r], "rollback", 1, session[r].previous)
  <2>1. session[r].previous \in Shas
    BY <1>3 DEF IInv, TypeOK, SessionJournalled, SessionState
  <2>2. n \in Worker /\ n.phase = "rollback" /\ n.step = 1 /\ n.prev = session[r].previous
    BY <1>1, <2>1 DEF Go, Worker, Steps
  <2>3. worker' = [worker EXCEPT ![r] = n]
    BY <1>3
  <2> HIDE DEF n
  <2> QED BY <1>2, <2>2, <2>3
<1>4. CASE UNCHANGED worker
  BY <1>1, <1>2, <1>4
<1> QED BY <1>3, <1>4 DEF Settle

\* The broker takes over the result of the worker that is gone.
LEMMA CollectStep ==
  ASSUME IInv, NEW r \in Runs, Collect(r)
  PROVE  IInv'
<1>1. Owner(r)
  BY DEF Collect, Owner, BrokerRunning
<1>2. /\ lock = r
      /\ \A q \in Runs : Owner(q) => q = r
      /\ \A q \in Runs : Alive(q) /\ InPlan(q) => q = r
  BY <1>1, SoleOwner
<1>3. /\ result' \in [Runs -> Outcome]
      /\ \E n \in Worker :
           /\ worker' = [worker EXCEPT ![r] = n]
           /\ \/ n = worker[r]
              \/ n.phase = "rollback" /\ n.step = 1 /\ n.prev = session[r].previous
  <2>1. Unknown \in Outcome /\ worker[r].out \in Outcome
    BY EndedType DEF Unknown, IInv, TypeOK, Worker
  <2>2. CASE \E res \in Outcome : Settle(r, res)
    BY <2>2, SettleShape
  <2>3. CASE /\ \E res \in Outcome : result' = [result EXCEPT ![r] = res]
             /\ UNCHANGED worker
    BY <2>3 DEF IInv, TypeOK
  <2> QED BY <2>1, <2>2, <2>3 DEF Collect
<1>4. TypeOK'
  BY <1>3
     DEF Collect, Settle, Alive, Go, Unknown, Ended, host, disk, IInv, TypeOK, BrokerPC,
        BrokerRunning
<1>5. OneBroker'
  BY <1>1, <1>2, DeployConstants
     DEF Collect, Settle, Alive, Go, Unknown, Ended, host, disk, IInv, TypeOK,
        OneBroker, Owner, BrokerRunning, UnitState
<1>6. WorkerPlace'
  BY <1>1, <1>2, DeployConstants
     DEF Collect, Settle, Alive, Go, Unknown, Ended, host, disk, IInv, TypeOK,
        WorkerPlace, InPlan, UnitState
<1>7. SessionJournalled'
  BY <1>1, <1>2, DeployConstants
     DEF Collect, Settle, Alive, Go, Unknown, Ended, host, disk, IInv, TypeOK,
        SessionJournalled, Owner, BrokerRunning, JournalOf, InPlan, UnitState
<1>8. StoppedInPlan'
  BY <1>1, <1>2, <1>3, DeployConstants
     DEF Collect, Settle, Alive, Go, Unknown, Ended, host, disk, IInv, StoppedInPlan,
        Units
<1>9. CleanBeforeClear'
  BY <1>1, <1>2, DeployConstants
     DEF Collect, Settle, Alive, Go, Unknown, Ended, host, disk, IInv, TypeOK,
        CleanBeforeClear, Owner, BrokerRunning, NothingStoppedAt, Units, UnitState
<1>10. ActiveRunsCheckout' /\ OutageIsJournalled'
  BY DEF Collect, host, disk, IInv, ActiveRunsCheckout, OutageIsJournalled, Units
<1> QED BY <1>4, <1>5, <1>6, <1>7, <1>8, <1>9, <1>10 DEF IInv

\* What the broker sees of the host confirms the result or starts a recovery.
LEMMA ObserveStep ==
  ASSUME IInv, NEW r \in Runs, Observe(r)
  PROVE  IInv'
<1>1. Owner(r)
  BY DEF Observe, Owner, BrokerRunning
<1>2. /\ lock = r
      /\ \A q \in Runs : Owner(q) => q = r
      /\ \A q \in Runs : Alive(q) /\ InPlan(q) => q = r
  BY <1>1, SoleOwner
<1>3. /\ result' \in [Runs -> Outcome]
      /\ \E n \in Worker :
           /\ worker' = [worker EXCEPT ![r] = n]
           /\ \/ n = worker[r]
              \/ n.phase = "rollback" /\ n.step = 1 /\ n.prev = session[r].previous
  <2>1. Unknown \in Outcome /\ result[r] \in Outcome
    BY EndedType DEF Unknown, IInv, TypeOK
  <2> QED BY <2>1, SettleShape DEF Observe
<1>4. TypeOK'
  BY <1>3
     DEF Observe, Settle, Observed, Go, Unknown, Ended, Alive, host, disk, IInv, TypeOK,
        BrokerPC, BrokerRunning
<1>5. OneBroker'
  BY <1>1, <1>2, DeployConstants
     DEF Observe, Settle, Observed, Go, Unknown, Ended, Alive, host, disk, IInv, TypeOK,
        OneBroker, Owner, BrokerRunning, UnitState
<1>6. WorkerPlace'
  BY <1>1, <1>2, DeployConstants
     DEF Observe, Settle, Observed, Go, Unknown, Ended, Alive, host, disk, IInv, TypeOK,
        WorkerPlace, InPlan, UnitState
<1>7. SessionJournalled'
  BY <1>1, <1>2, DeployConstants
     DEF Observe, Settle, Observed, Go, Alive, host, disk, IInv, TypeOK,
        SessionJournalled, Owner, BrokerRunning, JournalOf, InPlan
<1>8. StoppedInPlan'
  BY <1>1, <1>2, <1>3, DeployConstants
     DEF Observe, Settle, Observed, Go, Unknown, Ended, Alive, host, disk, IInv,
        StoppedInPlan, Units
<1>9. CleanBeforeClear'
  BY <1>1, <1>2, DeployConstants
     DEF Observe, Settle, Observed, Go, Unknown, Ended, Alive, host, disk, IInv, TypeOK,
        CleanBeforeClear, Owner, BrokerRunning, NothingStoppedAt, Units
<1>10. ActiveRunsCheckout' /\ OutageIsJournalled'
  BY DEF Observe, host, disk, IInv, ActiveRunsCheckout, OutageIsJournalled, Units
<1> QED BY <1>4, <1>5, <1>6, <1>7, <1>8, <1>9, <1>10 DEF IInv

\* The recovery worker is gone: its rollback is checked, or given up.
LEMMA CollectRecoveryStep ==
  ASSUME IInv, NEW r \in Runs, CollectRecovery(r)
  PROVE  IInv'
<1>1. Owner(r)
  BY DEF CollectRecovery, Owner, BrokerRunning
<1>2. /\ lock = r
      /\ \A q \in Runs : Owner(q) => q = r
      /\ \A q \in Runs : Alive(q) /\ InPlan(q) => q = r
  BY <1>1, SoleOwner
<1>3. result' \in [Runs -> Outcome]
  <2>1. result[r] \in Outcome
    BY DEF IInv, TypeOK
  <2>2. /\ Ended("failed", TRUE, result[r].manual) \in Outcome
        /\ Ended(result[r].status, FALSE, TRUE) \in Outcome
    BY <2>1, EndedType DEF Outcome
  <2> QED BY <2>2 DEF CollectRecovery, IInv, TypeOK
<1>4. TypeOK'
  BY <1>3
     DEF CollectRecovery, Alive, Ended, host, disk, IInv, TypeOK, BrokerPC,
        BrokerRunning
<1>5. OneBroker'
  BY <1>1, <1>2, <1>3, DeployConstants
     DEF CollectRecovery, Alive, Ended, host, disk, IInv, TypeOK, OneBroker, Owner,
        BrokerRunning, UnitState
<1>6. WorkerPlace'
  BY <1>1, <1>2, <1>3, DeployConstants
     DEF CollectRecovery, Alive, Ended, host, disk, IInv, TypeOK, WorkerPlace, InPlan,
        UnitState
<1>7. SessionJournalled'
  BY <1>1, <1>2, <1>3, DeployConstants
     DEF CollectRecovery, Alive, Ended, host, disk, IInv, TypeOK, SessionJournalled,
        Owner, BrokerRunning, JournalOf, InPlan, UnitState
<1>8. CleanBeforeClear'
  BY <1>1, <1>2, <1>3, DeployConstants
     DEF CollectRecovery, Alive, Ended, host, disk, IInv, TypeOK, CleanBeforeClear,
        Owner, BrokerRunning, NothingStoppedAt, Units, UnitState
<1>9. StoppedInPlan' /\ ActiveRunsCheckout' /\ OutageIsJournalled'
  BY
     DEF CollectRecovery, host, disk, IInv, StoppedInPlan, ActiveRunsCheckout,
        OutageIsJournalled, Units
<1> QED BY <1>4, <1>5, <1>6, <1>7, <1>8, <1>9 DEF IInv

\* A rollback is believed only when it is seen.
LEMMA ObserveRecoveryStep ==
  ASSUME IInv, NEW r \in Runs, ObserveRecovery(r)
  PROVE  IInv'
<1>1. Owner(r)
  BY DEF ObserveRecovery, Owner, BrokerRunning
<1>2. /\ lock = r
      /\ \A q \in Runs : Owner(q) => q = r
      /\ \A q \in Runs : Alive(q) /\ InPlan(q) => q = r
  BY <1>1, SoleOwner
<1>3. result' \in [Runs -> Outcome]
  <2>1. Ended(result[r].status, FALSE, TRUE) \in Outcome
    BY DEF Ended, IInv, TypeOK, Outcome
  <2> QED BY <2>1 DEF ObserveRecovery, IInv, TypeOK
<1>4. TypeOK'
  BY <1>3
     DEF ObserveRecovery, Observed, Ended, host, disk, IInv, TypeOK, BrokerPC,
        BrokerRunning
<1>5. OneBroker'
  BY <1>1, <1>2, <1>3, DeployConstants
     DEF ObserveRecovery, Observed, Ended, host, disk, IInv, TypeOK, OneBroker, Owner,
        BrokerRunning, UnitState
<1>6. WorkerPlace'
  BY <1>1, <1>2, <1>3, DeployConstants
     DEF ObserveRecovery, Observed, Ended, host, disk, IInv, TypeOK, WorkerPlace, Alive,
        InPlan, UnitState
<1>7. SessionJournalled'
  BY <1>1, <1>2, <1>3, DeployConstants
     DEF ObserveRecovery, Observed, Ended, host, disk, IInv, TypeOK, SessionJournalled,
        Owner, BrokerRunning, JournalOf, Alive, InPlan, UnitState
<1>8. CleanBeforeClear'
  BY <1>1, <1>2, <1>3, DeployConstants
     DEF ObserveRecovery, Observed, Ended, host, disk, IInv, TypeOK, CleanBeforeClear,
        Owner, BrokerRunning, NothingStoppedAt, Units, UnitState
<1>9. StoppedInPlan' /\ ActiveRunsCheckout' /\ OutageIsJournalled'
  BY
     DEF ObserveRecovery, host, disk, IInv, StoppedInPlan, ActiveRunsCheckout,
        OutageIsJournalled, Units
<1> QED BY <1>4, <1>5, <1>6, <1>7, <1>8, <1>9 DEF IInv

\* The last resort stops units of a run that is marked for manual recovery.
LEMMA AbandonStep ==
  ASSUME IInv, NEW r \in Runs, NEW u \in Units, Abandon(r, u)
  PROVE  IInv'
<1>1. Owner(r)
  BY DEF Abandon, Owner, BrokerRunning, AbandonPC
<1>2. /\ lock = r
      /\ \A q \in Runs : Owner(q) => q = r
      /\ \A q \in Runs : Alive(q) /\ InPlan(q) => q = r
  BY <1>1, SoleOwner
<1>3. PICK x \in UnitState :
        /\ unit' = [unit EXCEPT ![u] = x]
        /\ x = unit[u] \/ x.state = "stopped"
  <2>1. unit[u] \in UnitState /\ InState(unit[u], "stopped") \in UnitState
    BY DEF IInv, TypeOK, InState, UnitState
  <2>2. CASE unit' = unit
    BY <2>1, <2>2 DEF IInv, TypeOK
  <2>3. CASE unit' = [unit EXCEPT ![u] = InState(@, "stopped")]
    BY <2>1, <2>3 DEF InState
  <2> QED BY <2>2, <2>3 DEF Abandon, Systemctl
<1>4. TypeOK'
  BY <1>1, <1>2, <1>3, DeployConstants
     DEF Abandon, AbandonPC, Systemctl, InState, disk, IInv, TypeOK, BrokerPC,
        BrokerRunning
<1>5. OneBroker'
  BY <1>1, <1>2, <1>3, DeployConstants
     DEF Abandon, AbandonPC, Systemctl, InState, disk, IInv, OneBroker, Owner,
        BrokerRunning
<1>6. WorkerPlace'
  BY <1>1, <1>2, <1>3, DeployConstants
     DEF Abandon, AbandonPC, Systemctl, InState, disk, IInv, WorkerPlace, Alive, InPlan
<1>7. SessionJournalled'
  BY <1>1, <1>2, <1>3, DeployConstants
     DEF Abandon, AbandonPC, Systemctl, InState, disk, IInv, SessionJournalled, Owner,
        BrokerRunning, JournalOf, Alive, InPlan
<1>8. StoppedInPlan'
  BY <1>1, <1>2, <1>3, DeployConstants
     DEF Abandon, AbandonPC, Systemctl, InState, disk, IInv, StoppedInPlan, Units
<1>9. ActiveRunsCheckout'
  BY <1>1, <1>2, <1>3, DeployConstants
     DEF Abandon, AbandonPC, Systemctl, InState, disk, IInv, ActiveRunsCheckout, Units
<1>10. CleanBeforeClear'
  BY <1>1, <1>2, <1>3, DeployConstants
     DEF Abandon, AbandonPC, Systemctl, InState, disk, IInv, CleanBeforeClear, Owner,
        BrokerRunning, NothingStoppedAt, Units
<1>11. OutageIsJournalled'
  BY <1>1, <1>2, <1>3, DeployConstants
     DEF Abandon, IInv, WorkerPlace, SessionJournalled, CleanBeforeClear,
        OutageIsJournalled, Owner, JournalOf, InPlan, host, disk, Units, Observed,
        AbandonPC, InState
<1> QED BY <1>4, <1>5, <1>6, <1>7, <1>8, <1>9, <1>10, <1>11 DEF IInv

\* The report is written from the result.
LEMMA ReportStep ==
  ASSUME IInv, NEW r \in Runs, Report(r)
  PROVE  IInv'
<1>1. Owner(r)
  BY DEF Report, Owner, BrokerRunning
<1>2. /\ lock = r
      /\ \A q \in Runs : Owner(q) => q = r
      /\ \A q \in Runs : Alive(q) /\ InPlan(q) => q = r
  BY <1>1, SoleOwner
<1>3. TypeOK'
  BY <1>1, <1>2, DeployConstants DEF Report, host, IInv, TypeOK, BrokerPC, BrokerRunning
<1>4. OneBroker'
  BY <1>1, <1>2, DeployConstants DEF Report, host, IInv, OneBroker, Owner, BrokerRunning
<1>5. WorkerPlace'
  BY <1>1, <1>2, DeployConstants DEF Report, host, IInv, WorkerPlace, Alive, InPlan
<1>6. SessionJournalled'
  BY <1>1, <1>2, DeployConstants
     DEF Report, host, IInv, SessionJournalled, Owner, BrokerRunning, JournalOf, Alive,
        InPlan
<1>7. CleanBeforeClear'
  BY <1>1, <1>2, DeployConstants
     DEF Report, host, IInv, CleanBeforeClear, Owner, BrokerRunning, NothingStoppedAt,
        Units
<1>8. StoppedInPlan' /\ ActiveRunsCheckout' /\ OutageIsJournalled'
  BY
     DEF Report, host, IInv, StoppedInPlan, ActiveRunsCheckout, OutageIsJournalled,
        Units
<1> QED BY <1>3, <1>4, <1>5, <1>6, <1>7, <1>8 DEF IInv

\* The journal goes when nothing is left to clean up.
LEMMA ClearStep ==
  ASSUME IInv, NEW r \in Runs, Clear(r)
  PROVE  IInv'
<1>1. Owner(r)
  BY DEF Clear, Owner, BrokerRunning
<1>2. /\ lock = r
      /\ \A q \in Runs : Owner(q) => q = r
      /\ \A q \in Runs : Alive(q) /\ InPlan(q) => q = r
  BY <1>1, SoleOwner
<1>3. TypeOK'
  BY <1>1, <1>2, DeployConstants DEF Clear, host, IInv, TypeOK, BrokerPC, BrokerRunning
<1>4. OneBroker'
  BY <1>1, <1>2, DeployConstants
     DEF Clear, host, IInv, TypeOK, OneBroker, Owner, BrokerRunning, UnitState
<1>5. WorkerPlace'
  BY <1>1, <1>2, DeployConstants DEF Clear, host, IInv, WorkerPlace, Alive, InPlan
<1>6. SessionJournalled'
  BY <1>1, <1>2, DeployConstants
     DEF Clear, host, IInv, TypeOK, OneBroker, WorkerPlace, SessionJournalled,
        StoppedInPlan, BrokerRunning, Owner, Alive, InPlan, JournalOf, Units
<1>7. CleanBeforeClear'
  BY <1>1, <1>2, DeployConstants
     DEF Clear, host, IInv, CleanBeforeClear, Owner, BrokerRunning, NothingStoppedAt,
        Units
<1>8. OutageIsJournalled'
  BY <1>1, <1>2, DeployConstants
     DEF Clear, IInv, CleanBeforeClear, OutageIsJournalled, NothingStoppedAt, Alive,
        InPlan, host
<1>9. StoppedInPlan' /\ ActiveRunsCheckout'
  BY DEF Clear, host, IInv, StoppedInPlan, ActiveRunsCheckout, Units
<1> QED BY <1>3, <1>4, <1>5, <1>6, <1>7, <1>8, <1>9 DEF IInv

\* A broker that dies leaves its journal.
LEMMA BrokerCrashStep ==
  ASSUME IInv, NEW r \in Runs, BrokerCrash(r)
  PROVE  IInv'
<1>1. TypeOK'
  BY DeployConstants DEF BrokerCrash, host, disk, IInv, TypeOK, BrokerPC, BrokerRunning
<1>2. OneBroker'
  BY DeployConstants
     DEF BrokerCrash, host, disk, IInv, TypeOK, OneBroker, Owner, BrokerRunning,
        UnitState
<1>3. WorkerPlace'
  BY DeployConstants DEF BrokerCrash, host, disk, IInv, WorkerPlace, Alive, InPlan
<1>4. SessionJournalled'
  BY DeployConstants
     DEF BrokerCrash, host, disk, IInv, SessionJournalled, Owner, BrokerRunning,
        JournalOf, Alive, InPlan
<1>5. CleanBeforeClear'
  BY DeployConstants
     DEF BrokerCrash, host, disk, IInv, CleanBeforeClear, Owner, BrokerRunning,
        NothingStoppedAt, Units
<1>6. StoppedInPlan' /\ ActiveRunsCheckout' /\ OutageIsJournalled'
  BY
     DEF BrokerCrash, host, disk, IInv, StoppedInPlan, ActiveRunsCheckout,
        OutageIsJournalled, Units
<1> QED BY <1>1, <1>2, <1>3, <1>4, <1>5, <1>6 DEF IInv

-----------------------------------------------------------------------------
(* The invariant and what follows from it.                                 *)

\* At the start both services run the checked-out commit and nobody is at work.
LEMMA InitInv == Init => IInv
<1> SUFFICES ASSUME Init PROVE IInv
  OBVIOUS
<1>1. TypeOK
  <2>1. Unknown \in Outcome
    BY EndedType DEF Unknown
  <2>2. [phase |-> "none", step |-> 1, prev |-> Initial, out |-> Unknown] \in Worker
    BY <2>1, DeployConstants DEF Worker, Steps
  <2>3. [previous |-> None, stopped |-> FALSE] \in SessionState
    BY DEF SessionState
  <2>4. [state |-> "active", code |-> Initial, fresh |-> FALSE] \in UnitState
    BY DeployConstants DEF UnitState
  <2> QED BY <2>1, <2>2, <2>3, <2>4, DeployConstants DEF Init, TypeOK, BrokerPC
<1>2. OneBroker /\ WorkerPlace /\ SessionJournalled /\ StoppedInPlan
  BY DEF Init, OneBroker, WorkerPlace, SessionJournalled, StoppedInPlan, Owner,
         BrokerRunning, Alive, InPlan, JournalOf
<1>3. ActiveRunsCheckout /\ CleanBeforeClear /\ OutageIsJournalled
  BY DEF Init, ActiveRunsCheckout, CleanBeforeClear, OutageIsJournalled, Owner,
         BrokerRunning, NothingStoppedAt
<1> QED BY <1>1, <1>2, <1>3 DEF IInv

\* Every step of the worker, the broker and the host preserves the invariant.
LEMMA NextInv == IInv /\ [Next]_vars => IInv'
<1> SUFFICES ASSUME IInv, [Next]_vars PROVE IInv'
  OBVIOUS
<1>1. CASE UNCHANGED vars
  BY <1>1 DEF IInv, vars, TypeOK, OneBroker, WorkerPlace, SessionJournalled, StoppedInPlan,
              ActiveRunsCheckout, CleanBeforeClear, OutageIsJournalled, Owner, JournalOf,
              NothingStoppedAt, Alive, InPlan
<1>2. ASSUME NEW r \in Runs, WorkerStep(r) PROVE IInv'
  BY <1>2, StepFailsStep, PreflightStep, PrepareStep, RecordStopStep, DispatchStep,
     SwitchStep, ImportCheckStep, VerifyStep DEF WorkerStep
<1>3. ASSUME NEW r \in Runs, BrokerStep(r) PROVE IInv'
  BY <1>3, AcquireStep, BusyStep, RefuseStep, AdmitStep, CollectStep, ObserveStep,
     CollectRecoveryStep, ObserveRecoveryStep, AbandonStep, ReportStep, ClearStep
     DEF BrokerStep
<1>4. CASE Environment
  BY <1>4, MainMovesStep, UnitFailsStep, UnitRestartsStep, WorkerCrashStep, BrokerCrashStep
     DEF Environment
<1> QED BY <1>1, <1>2, <1>3, <1>4 DEF Next

\* Type correctness of every variable, for any number of runs and commits.
THEOREM TypeCorrect == Spec => []TypeOK
<1>1. IInv => TypeOK
  BY DEF IInv
<1> QED BY <1>1, InitInv, NextInv, PTL DEF Spec

\* The inductive invariant itself.
THEOREM InvariantHolds == Spec => []IInv
  BY InitInv, NextInv, PTL DEF Spec

\* Whatever died or failed, an outage is always on record: while a unit is
\* stopped, or the checkout is not the recorded previous commit, active.json exists
\* and says that services were stopped.
THEOREM OutagesAreJournalled == Spec => []OutageIsJournalled
<1>1. IInv => OutageIsJournalled
  BY DEF IInv
<1> QED BY <1>1, InitInv, NextInv, PTL DEF Spec

\* Without active.json the host is whole: nothing was left stopped and no service
\* runs anything but the checked-out commit.
THEOREM JournalFreeHostServes == Spec => []NoJournalMeansServing
<1>1. IInv => NoJournalMeansServing
  <2> SUFFICES ASSUME IInv, journal = None PROVE Serving(head)
    BY DEF NoJournalMeansServing
  <2>1. \A u \in Units : unit[u].state # "stopped"
    BY DEF IInv, OutageIsJournalled
  <2>2. \A u \in Units : unit[u].state = "active" => unit[u].code = head
    BY DEF IInv, ActiveRunsCheckout
  <2> QED BY <2>1, <2>2 DEF Serving
<1> QED BY <1>1, InitInv, NextInv, PTL DEF Spec

\* Only the git step of a worker moves the checkout.
LEMMA OnlySwitchMovesHead ==
  ASSUME [Next]_vars, head' # head
  PROVE  \E r \in Runs : Switch(r)
<1>1. CASE UNCHANGED vars
  BY <1>1 DEF vars
<1>2. ASSUME NEW r \in Runs, WorkerStep(r) PROVE Switch(r)
  BY <1>2 DEF WorkerStep, StepFails, Preflight, Prepare, RecordStop, Dispatch, ImportCheck,
              Verify, host
<1>3. ASSUME NEW r \in Runs, BrokerStep(r) PROVE FALSE
  BY <1>3 DEF BrokerStep, Acquire, Busy, Refuse, Admit, Collect, Observe, CollectRecovery,
              ObserveRecovery, Abandon, Report, Clear, host
<1>4. CASE Environment
  BY <1>4 DEF Environment, MainMoves, UnitFails, UnitRestarts, WorkerCrash, BrokerCrash, host
<1> QED BY <1>1, <1>2, <1>3, <1>4 DEF Next

\* The checkout never moves under a running service, nor to a commit the journal
\* does not name: not even by a worker whose broker is gone.
THEOREM CheckoutMovesOnlyWhileStopped == Spec => CheckoutMovesWhileStopped
<1>1. IInv /\ [Next]_vars =>
        [head' # head => /\ \A u \in Units : unit[u].state = "stopped"
                         /\ journal # None
                         /\ head' \in {journal.previous, journal.target}]_vars
  <2> SUFFICES ASSUME IInv, [Next]_vars, head' # head
               PROVE  /\ \A u \in Units : unit[u].state = "stopped"
                      /\ journal # None
                      /\ head' \in {journal.previous, journal.target}
    OBVIOUS
  <2>1. PICK r \in Runs : Switch(r)
    BY OnlySwitchMovesHead
  <2>2. /\ Alive(r) /\ InPlan(r)
        /\ worker[r] \in Worker
    BY <2>1 DEF Switch, IInv, TypeOK
  <2>3. worker[r].step = 3 /\ worker[r].phase # "giveup"
    BY <2>1, <2>2, OpPosition DEF Switch, Op, Worker, IInv, WorkerPlace
  <2>4. \A u \in Units : unit[u].state = "stopped"
    BY <2>2, <2>3 DEF IInv, StoppedInPlan, InPlan, Units
  <2>5. JournalOf(r) /\ session[r].previous = worker[r].prev
    BY <2>2, SoleWorker DEF IInv, WorkerPlace
  <2> QED BY <2>1, <2>4, <2>5 DEF Switch, JournalOf
<1> QED BY <1>1, InitInv, NextInv, PTL DEF Spec, CheckoutMovesWhileStopped

-----------------------------------------------------------------------------
(* What the broker reports.                                                *)

\* No outcome claims both a success and a rollback; once a broker recovers or
\* gives up it no longer claims success, and giving up takes the rollback back.
ClaimsExclude ==
  \A r \in Runs :
    /\ worker[r].out.status = "success" => ~worker[r].out.rollback
    /\ result[r].status = "success" => ~result[r].rollback
    /\ bpc[r] \in {"recovering", "recover-observe", "abandon-web", "abandon-runtime"}
         => result[r].status # "success"
    /\ bpc[r] \in {"abandon-web", "abandon-runtime"} => ~result[r].rollback

TruthInv == ReportsAreTrue /\ ClaimsExclude

\* A worker keeps its outcome until it exits, with one claim at most.
LEMMA OutcomeClaims ==
  ASSUME NEW w, w.out.status = "success" => ~w.out.rollback
  PROVE  /\ AfterSuccess(w).out.status = "success" => ~AfterSuccess(w).out.rollback
         /\ AfterFailure(w).out.status = "success" => ~AfterFailure(w).out.rollback
<1>1. AfterSuccess(w).out.status = "success" => ~AfterSuccess(w).out.rollback
  BY DEF AfterSuccess, Exit, Go, Ended
<1>2. AfterFailure(w).out.status = "success" => ~AfterFailure(w).out.rollback
  BY <1>1 DEF AfterFailure, Exit, Go, Ended
<1> QED BY <1>1, <1>2

\* A step of a worker leaves results alone, and its own outcome claims one thing.
LEMMA WorkerClaims ==
  ASSUME IInv, ClaimsExclude, NEW r \in Runs, WorkerStep(r)
  PROVE  ClaimsExclude' /\ UNCHANGED <<bpc, result>>
<1>1. UNCHANGED <<bpc, result>>
  BY DEF WorkerStep, StepFails, Preflight, Prepare, RecordStop, Dispatch, Switch,
         ImportCheck, Verify
<1>2. \E n : /\ worker' = [worker EXCEPT ![r] = n]
             /\ n.out.status = "success" => ~n.out.rollback
  <2> DEFINE w == worker[r]
  <2>1. w.out.status = "success" => ~w.out.rollback
    BY DEF ClaimsExclude
  <2>2. CASE worker' = [worker EXCEPT ![r] = AfterSuccess(@)]
    BY <2>1, <2>2, OutcomeClaims
  <2>3. CASE worker' = [worker EXCEPT ![r] = AfterFailure(@)]
    BY <2>1, <2>3, OutcomeClaims
  <2>4. CASE \/ \E phase, prev : worker' = [worker EXCEPT ![r] = Go(@, phase, 1, prev)]
             \/ worker' = [worker EXCEPT ![r] =
                             Exit(@, Ended("blocked_duplicate", FALSE, FALSE))]
    BY <2>1, <2>4 DEF Go, Exit, Ended
  <2>5. CASE worker' = worker
    <3>1. worker' = [worker EXCEPT ![r] = w]
      BY <2>5 DEF IInv, TypeOK
    <3> QED BY <3>1, <2>1
  <2>6. CASE Preflight(r)
    BY <2>6, <2>4 DEF Preflight
  <2>7. CASE Prepare(r)
    BY <2>7, <2>3, <2>4 DEF Prepare
  <2> QED BY <2>2, <2>3, <2>5, <2>6, <2>7
          DEF WorkerStep, StepFails, RecordStop, Dispatch, Switch, ImportCheck, Verify
<1> QED BY <1>1, <1>2 DEF ClaimsExclude, IInv, TypeOK

\* While a broker reports, no worker moves the checkout or touches a unit.
LEMMA WorkerKeepsReports ==
  ASSUME IInv, TruthInv, NEW r \in Runs, WorkerStep(r)
  PROVE  TruthInv'
<1>1. ClaimsExclude' /\ UNCHANGED <<bpc, result>>
  BY WorkerClaims DEF TruthInv
<1>2. SUFFICES ASSUME NEW q \in Runs, bpc[q] \in {"report", "clear"}
               PROVE  UNCHANGED <<head, unit, session[q]>>
  BY <1>1 DEF TruthInv, ReportsAreTrue, Serving
<1>3. Owner(q) /\ ~Attached(q)
  BY <1>2 DEF Owner, BrokerRunning, Attached
<1>4. q # r /\ ~Supervised(r) /\ ~(Alive(r) /\ InPlan(r))
  <2>1. \A p \in Runs : Alive(p) /\ InPlan(p) => p = q
    BY <1>3, SoleOwner
  <2>2. ~Alive(q)
    BY <1>2 DEF IInv, WorkerPlace
  <2>3. Alive(r)
    BY DEF WorkerStep, StepFails, Preflight, Prepare, RecordStop, Dispatch, Switch,
           ImportCheck, Verify, Supervised
  <2>4. Attached(r) => Owner(r)
    BY DEF Attached, Owner, BrokerRunning
  <2>5. Owner(r) => r = q
    BY <1>3, SoleOwner
  <2> QED BY <2>1, <2>2, <2>3, <2>4, <2>5 DEF Supervised
<1> QED BY <1>4 DEF WorkerStep, StepFails, Preflight, Prepare, RecordStop, Dispatch, Switch,
                    ImportCheck, Verify, Supervised, host

\* What a broker concludes, whichever way it goes on from here.
LEMMA SettleKeeps ==
  ASSUME IInv, TruthInv, NEW r \in Runs, NEW res,
         res.status = "success" => ~res.rollback,
         res.status = "success" => Serving(Target[r]),
         res.rollback => Serving(session[r].previous),
         Settle(r, res), UNCHANGED <<host, session>>
  PROVE  TruthInv'
<1>1. /\ result' = [result EXCEPT ![r] = res]
      /\ \/ /\ bpc' = [bpc EXCEPT ![r] = "recovering"]
            /\ res.status # "success"
            /\ worker' = [worker EXCEPT ![r] = Go(@, "rollback", 1, session[r].previous)]
         \/ bpc' = [bpc EXCEPT ![r] = "report"] /\ UNCHANGED worker
  BY DEF Settle
<1>2. /\ bpc \in [Runs -> BrokerPC]
      /\ result \in [Runs -> Outcome]
      /\ worker \in [Runs -> Worker]
  BY DEF IInv, TypeOK
<1>3. ClaimsExclude'
  BY <1>1, <1>2 DEF TruthInv, ClaimsExclude, Go
<1>4. ReportsAreTrue'
  BY <1>1, <1>2 DEF TruthInv, ReportsAreTrue, Serving, host
<1> QED BY <1>3, <1>4 DEF TruthInv

\* The worker's outcome is not reported before it is observed.
LEMMA CollectTells ==
  ASSUME IInv, TruthInv, NEW r \in Runs, Collect(r)
  PROVE  TruthInv'
<1> DEFINE res == IF worker[r].phase = "dead" THEN Unknown ELSE worker[r].out
<1>1. res.status = "success" => ~res.rollback
  BY DEF TruthInv, ClaimsExclude, Unknown, Ended
<1>2. UNCHANGED <<host, session>>
  BY DEF Collect
<1>3. CASE Settle(r, Unknown)
  BY <1>2, <1>3, SettleKeeps DEF Unknown, Ended
<1>4. CASE Settle(r, res) /\ res.status # "success" /\ ~res.rollback
  <2> HIDE DEF res
  <2> QED BY <1>2, <1>4, SettleKeeps
<1>5. CASE /\ result' = [result EXCEPT ![r] = res]
           /\ bpc' = [bpc EXCEPT ![r] = "observe"]
           /\ UNCHANGED worker
  <2> HIDE DEF res
  <2>1. ClaimsExclude'
    BY <1>1, <1>5 DEF IInv, TypeOK, TruthInv, ClaimsExclude
  <2>2. ReportsAreTrue'
    BY <1>2, <1>5 DEF IInv, TypeOK, TruthInv, ReportsAreTrue, Serving, host
  <2> QED BY <2>1, <2>2 DEF TruthInv
<1> QED BY <1>3, <1>4, <1>5 DEF Collect

\* Seen by the broker: the commit is checked out and every unit is active, so each
\* runs it.
LEMMA ObservedServes ==
  ASSUME IInv, NEW r, NEW sha, NEW fresh, Observed(r, sha, fresh)
  PROVE  Serving(sha)
  BY DEF IInv, ActiveRunsCheckout, Observed, Serving

LEMMA ObserveTells ==
  ASSUME IInv, TruthInv, NEW r \in Runs, Observe(r)
  PROVE  TruthInv'
<1>1. UNCHANGED <<host, session>>
  BY DEF Observe
<1>2. CASE Settle(r, Unknown)
  BY <1>1, <1>2, SettleKeeps DEF Unknown, Ended
<1>3. CASE /\ IF result[r].status = "success"
              THEN Observed(r, Target[r], TRUE)
              ELSE Observed(r, session[r].previous, FALSE)
           /\ Settle(r, result[r])
  <2>1. result[r].status = "success" => ~result[r].rollback
    BY DEF TruthInv, ClaimsExclude
  <2>2. result[r].status = "success" => Serving(Target[r])
    BY <1>3, ObservedServes
  <2>3. result[r].rollback => Serving(session[r].previous)
    BY <1>3, <2>1, ObservedServes
  <2> QED BY <1>1, <1>3, <2>1, <2>2, <2>3, SettleKeeps
<1> QED BY <1>2, <1>3 DEF Observe

\* The recovery: its rollback is observed too, and giving up claims nothing.
LEMMA RecoveryTells ==
  ASSUME IInv, TruthInv, NEW r \in Runs, CollectRecovery(r) \/ ObserveRecovery(r)
  PROVE  TruthInv'
<1>1. /\ bpc \in [Runs -> BrokerPC]
      /\ result \in [Runs -> Outcome]
  BY DEF IInv, TypeOK
<1>2. bpc[r] \in {"recovering", "recover-observe"} /\ result[r].status # "success"
  BY DEF CollectRecovery, ObserveRecovery, TruthInv, ClaimsExclude
<1>3. UNCHANGED <<head, unit, session, worker>>
  BY DEF CollectRecovery, ObserveRecovery, host
<1>4. CASE CollectRecovery(r)
  <2>1. ClaimsExclude'
    BY <1>1, <1>2, <1>3, <1>4 DEF CollectRecovery, TruthInv, ClaimsExclude, Ended
  <2>2. ReportsAreTrue'
    BY ZenonT(40), <1>1, <1>3, <1>4 DEF CollectRecovery, TruthInv, ReportsAreTrue, Serving
  <2> QED BY <2>1, <2>2 DEF TruthInv
<1>5. CASE ObserveRecovery(r)
  <2>1. ClaimsExclude'
    <3>1. CASE bpc' = [bpc EXCEPT ![r] = "report"] /\ UNCHANGED result
      BY <1>1, <1>3, <3>1 DEF TruthInv, ClaimsExclude
    <3>2. CASE /\ bpc' = [bpc EXCEPT ![r] = "abandon-web"]
               /\ result' = [result EXCEPT ![r] = Ended(@.status, FALSE, TRUE)]
      BY <1>1, <1>2, <1>3, <3>2 DEF TruthInv, ClaimsExclude, Ended
    <3> QED BY <1>5, <3>1, <3>2 DEF ObserveRecovery
  <2>2. bpc'[r] = "report" => Serving(session[r].previous)
    BY <1>1, <1>5, ObservedServes DEF ObserveRecovery
  <2>3. bpc'[r] = "report" => result'[r].status # "success"
    BY <1>1, <1>2, <1>5 DEF ObserveRecovery
  <2>4. ReportsAreTrue'
    BY ZenonT(40), <1>1, <1>2, <1>3, <1>5, <2>2, <2>3
       DEF ObserveRecovery, TruthInv, ReportsAreTrue, Serving
  <2> QED BY <2>1, <2>4 DEF TruthInv
<1> QED BY <1>4, <1>5

\* Stopping the units is the last resort of a broker that is the only one at work.
LEMMA AbandonTells ==
  ASSUME IInv, TruthInv, NEW r \in Runs, NEW u \in Units, Abandon(r, u)
  PROVE  TruthInv'
<1>1. bpc[r] \in {"abandon-web", "abandon-runtime"}
  BY DEF Abandon, AbandonPC
<1>2. result[r].status # "success" /\ ~result[r].rollback
  BY <1>1 DEF TruthInv, ClaimsExclude
<1>3. \A q \in Runs : bpc[q] \in {"report", "clear"} => q = r
  BY <1>1, SoleOwner DEF Owner, BrokerRunning
<1>4. /\ UNCHANGED <<result, worker>>
      /\ bpc \in [Runs -> BrokerPC]
      /\ bpc' = [bpc EXCEPT ![r] = IF u = "web" THEN "abandon-runtime" ELSE "report"]
  BY DEF Abandon, IInv, TypeOK
<1>5. ClaimsExclude'
  BY <1>1, <1>2, <1>4 DEF TruthInv, ClaimsExclude
<1>6. ReportsAreTrue'
  BY <1>2, <1>3, <1>4 DEF TruthInv, ReportsAreTrue
<1> QED BY <1>5, <1>6 DEF TruthInv

\* The rest of the broker, from the lock to the report, changes neither the host nor
\* a result.
LEMMA BrokerTells ==
  ASSUME IInv, TruthInv, NEW r \in Runs, BrokerStep(r)
  PROVE  TruthInv'
<1>1. ASSUME Acquire(r) \/ Busy(r) \/ Refuse(r) \/ Admit(r) \/ Report(r) \/ Clear(r)
      PROVE  TruthInv'
  <2>1. UNCHANGED <<head, unit, session, result>>
    BY <1>1 DEF Acquire, Busy, Refuse, Admit, Report, Clear, host
  <2>2. /\ bpc \in [Runs -> BrokerPC]
        /\ worker \in [Runs -> Worker]
    BY DEF IInv, TypeOK
  <2>3. \E pc : /\ bpc' = [bpc EXCEPT ![r] = pc]
                /\ pc \in {"locked", "refused", "deploying", "clear", "done"}
                /\ pc = "clear" => bpc[r] = "report"
    BY <1>1 DEF Acquire, Busy, Refuse, Admit, Report, Clear
  <2>4. \A q \in Runs : worker'[q].out = worker[q].out
    BY <1>1, <2>2 DEF Acquire, Busy, Refuse, Admit, Report, Clear, Go
  <2>5. ClaimsExclude'
    BY <2>1, <2>2, <2>3, <2>4 DEF TruthInv, ClaimsExclude
  <2>6. ReportsAreTrue'
    BY <2>1, <2>2, <2>3 DEF TruthInv, ReportsAreTrue, Serving
  <2> QED BY <2>5, <2>6 DEF TruthInv
<1> QED BY <1>1, CollectTells, ObserveTells, RecoveryTells, AbandonTells DEF BrokerStep

\* Services may die and come back while a broker reports, but systemd starts them
\* from the checkout.
LEMMA EnvironmentTells ==
  ASSUME IInv, TruthInv, Environment
  PROVE  TruthInv'
<1>1. CASE MainMoves
  BY <1>1 DEF MainMoves, TruthInv, ReportsAreTrue, ClaimsExclude, Serving, host
<1>2. ASSUME NEW u \in Units, UnitFails(u) \/ UnitRestarts(u) PROVE TruthInv'
  <2>1. UNCHANGED <<head, bpc, session, result, worker>>
    BY <1>2 DEF UnitFails, UnitRestarts
  <2>2. \A sha : Serving(sha) => Serving(sha)'
    BY <1>2 DEF UnitFails, UnitRestarts, Started, InState, Serving, IInv, TypeOK
  <2> QED BY <2>1, <2>2 DEF TruthInv, ReportsAreTrue, ClaimsExclude
<1>3. ASSUME NEW r \in Runs, WorkerCrash(r) PROVE TruthInv'
  <2>1. UNCHANGED <<head, unit, bpc, session, result>>
    BY <1>3 DEF WorkerCrash, host
  <2>2. \A q \in Runs : worker'[q].out = worker[q].out
    BY <1>3 DEF WorkerCrash, Go, IInv, TypeOK
  <2> QED BY <2>1, <2>2 DEF TruthInv, ReportsAreTrue, ClaimsExclude, Serving
<1>4. ASSUME NEW r \in Runs, BrokerCrash(r) PROVE TruthInv'
  BY <1>4 DEF BrokerCrash, TruthInv, ReportsAreTrue, ClaimsExclude, Serving, host, IInv, TypeOK
<1> QED BY <1>1, <1>2, <1>3, <1>4 DEF Environment

LEMMA InitTells == Init => TruthInv
  BY DEF Init, TruthInv, ReportsAreTrue, ClaimsExclude, Unknown, Ended

LEMMA NextTells == IInv /\ TruthInv /\ [Next]_vars => TruthInv'
<1> SUFFICES ASSUME IInv, TruthInv, [Next]_vars PROVE TruthInv'
  OBVIOUS
<1>1. CASE UNCHANGED vars
  BY <1>1 DEF vars, TruthInv, ReportsAreTrue, ClaimsExclude, Serving
<1> QED BY <1>1, WorkerKeepsReports, BrokerTells, EnvironmentTells DEF Next

\* Whatever dies or fails meanwhile, a report of success means that the target is
\* checked out and served, one of a rollback that the previous commit is.
THEOREM ReportsDescribeTheHost == Spec => []ReportsAreTrue
<1>1. TruthInv => ReportsAreTrue
  BY DEF TruthInv
<1> QED BY <1>1, InitInv, NextInv, InitTells, NextTells, PTL DEF Spec

-----------------------------------------------------------------------------
(* The pipeline is a ReleaseSlot.                                          *)

\* The journal belongs to a run that was admitted, the checkout is one of its two
\* commits, and a worker before the checkpoint does not find one of its own.
JournalFits ==
  /\ journal # None => /\ bpc[journal.run] \notin {"new", "locked", "refused"}
                       /\ head \in {journal.previous, journal.target}
  /\ \A r \in Runs : Supervised(r) /\ worker[r].phase \in {"preflight", "prepare"}
                       => journal = None

LEMMA CheckpointIsThere ==
  ASSUME NEW r \in Runs, NEW p \in Shas, NEW stopped \in BOOLEAN
  PROVE  [run |-> r, previous |-> p, target |-> Target[r], stopped |-> stopped] # None
<1>1. [run |-> r, previous |-> p, target |-> Target[r], stopped |-> stopped] \in Journal
  BY DeployConstants DEF Journal
<1> QED BY <1>1, NoJournalIsNone

\* A step of a worker keeps the journal in order, and the slot sees nothing of it
\* but the checkpoint.
LEMMA PrepareOpens ==
  ASSUME IInv, JournalFits, NEW r \in Runs, Prepare(r)
  PROVE  JournalFits' /\ Slot!Open(Target[r])
<1>1. /\ journal = None /\ Attached(r) /\ Owner(r) /\ lock = r
  BY DEF Prepare, JournalFits, Supervised, Attached, Owner, BrokerRunning, IInv, OneBroker
<1>9. Alive(r)
  BY DEF Prepare, Supervised
<1>2. journal' = [run |-> r, previous |-> head, target |-> Target[r], stopped |-> FALSE]
  BY DEF Prepare, Checkpoint
<1>3. journal' # None
  BY <1>2, CheckpointIsThere DEF IInv, TypeOK
<1>4. UNCHANGED <<head, lock, bpc>> /\ head # Target[r]
  BY DEF Prepare
<1>5. Slot!Open(Target[r])
  BY <1>1, <1>2, <1>3, <1>4 DEF Slot!Open
<1>6. worker'[r].phase \notin {"preflight", "prepare"}
  <2>1. CASE worker' = [worker EXCEPT ![r] = Go(@, "apply", 1, @.prev)]
    BY <2>1 DEF Go, IInv, TypeOK
  <2>2. CASE worker' = [worker EXCEPT ![r] = AfterFailure(@)]
    BY <1>9, <2>2, FailureShape DEF IInv, TypeOK
  <2> QED BY <2>1, <2>2 DEF Prepare
<1>7. \A q \in Runs : q # r => ~Supervised(q)'
  <2>1. \A q \in Runs : Owner(q) => q = r
    BY <1>1, SoleOwner
  <2> QED BY <1>4, <2>1 DEF Supervised, Attached, Owner, BrokerRunning
<1>8. JournalFits'
  BY <1>1, <1>2, <1>4, <1>6, <1>7 DEF JournalFits, Attached
<1> QED BY <1>5, <1>8

\* Journalling the first stop leaves the run and its two commits alone.
LEMMA RecordStopHides ==
  ASSUME IInv, JournalFits, NEW r \in Runs, RecordStop(r)
  PROVE  JournalFits' /\ UNCHANGED Slot!slot
<1>1. Alive(r) /\ InPlan(r) /\ JournalOf(r) /\ worker[r].prev = session[r].previous
  BY DEF RecordStop, Supervised, IInv, SessionJournalled, WorkerPlace
<1>2. journal' = [run |-> r, previous |-> journal.previous, target |-> journal.target,
                  stopped |-> TRUE]
  BY <1>1 DEF RecordStop, Checkpoint, JournalOf
<1>3. journal # None /\ journal.run = r
  BY <1>1 DEF JournalOf
<1>4. journal' # None
  <2>1. Checkpoint(r, TRUE) # None
    <3>1. worker[r].prev \in Shas
      BY DEF IInv, TypeOK, Worker
    <3> QED BY <3>1, CheckpointIsThere DEF Checkpoint
  <2> QED BY <2>1 DEF RecordStop
<1>5. UNCHANGED <<head, lock, bpc>>
  BY DEF RecordStop, host
<1>6. UNCHANGED Slot!slot
  BY <1>2, <1>3, <1>4, <1>5 DEF Slot!slot
<1>7. \A q \in Runs : worker'[q].phase \in {"preflight", "prepare"} =>
                        worker[q].phase = worker'[q].phase
  <2>1. \/ worker' = worker
        \/ worker' = [worker EXCEPT ![r] = AfterFailure(@)]
    BY DEF RecordStop
  <2>2. AfterFailure(worker[r]).phase \notin {"preflight", "prepare"}
    BY <1>1, AfterFailureShape DEF InPlan, IInv, TypeOK, WorkerPlace
  <2> QED BY <2>1, <2>2 DEF IInv, TypeOK
<1>8. JournalFits'
  BY <1>2, <1>3, <1>5, <1>7 DEF JournalFits, Supervised, Alive, Attached
<1> QED BY <1>6, <1>8

\* No other step of a worker writes the journal, and none but the git step moves the
\* checkout.
LEMMA WorkerHides ==
  ASSUME IInv, JournalFits, NEW r \in Runs, WorkerStep(r)
  PROVE  /\ JournalFits'
         /\ Slot!Open(Target[r]) \/ UNCHANGED Slot!slot
<1>1. CASE Prepare(r)
  BY <1>1, PrepareOpens
<1>2. CASE RecordStop(r)
  BY <1>2, RecordStopHides
<1>3. CASE ~Prepare(r) /\ ~RecordStop(r)
  <2>1. /\ UNCHANGED <<journal, lock, bpc>>
        /\ UNCHANGED head \/ Switch(r)
        /\ Alive(r)
    BY <1>3 DEF WorkerStep, StepFails, Preflight, Dispatch, Switch, ImportCheck, Verify,
                host, disk, Supervised
  <2>2. Switch(r) => journal # None /\ head' \in {journal.previous, journal.target}
    BY DEF Switch, IInv, SessionJournalled, WorkerPlace, JournalOf
  <2>3. UNCHANGED Slot!slot
    BY <2>1, <2>2 DEF Slot!slot
  <2>4. \A q \in Runs : worker'[q].phase \in {"preflight", "prepare"} =>
          /\ worker[q].phase \in {"preflight", "prepare"}
    <3>1. CASE Preflight(r)
      BY <3>1 DEF Preflight, Go, Exit, IInv, TypeOK
    <3>2. CASE worker' = [worker EXCEPT ![r] = AfterFailure(@)]
      <4>1. AfterFailure(worker[r]).phase \notin {"preflight", "prepare"}
        BY <2>1, AfterFailureShape DEF Alive, IInv, TypeOK, WorkerPlace, Worker
      <4> QED BY <3>2, <4>1 DEF IInv, TypeOK
    <3>3. CASE InPlan(r) /\ worker' = [worker EXCEPT ![r] = AfterSuccess(@)]
      <4>1. AfterSuccess(worker[r]).phase \notin {"preflight", "prepare"}
        BY <3>3, AfterSuccessShape DEF InPlan, IInv, TypeOK, WorkerPlace
      <4> QED BY <3>3, <4>1 DEF IInv, TypeOK
    <3> QED BY <1>3, <3>1, <3>2, <3>3
            DEF WorkerStep, StepFails, Dispatch, Switch, ImportCheck, Verify
  <2>5. \A q \in Runs : worker'[q].phase \in {"preflight", "prepare"} /\ Supervised(q)'
                          => Supervised(q)
    BY <2>1, <2>4 DEF Supervised, Alive, Attached
  <2>6. JournalFits'
    BY <2>1, <2>2, <2>4, <2>5 DEF JournalFits
  <2> QED BY <2>3, <2>6
<1> QED BY <1>1, <1>2, <1>3

\* The end of a run: the slot serves the checkout, which is one of the two commits, or
\* is blocked by the journal that stays.
LEMMA ClearCloses ==
  ASSUME IInv, JournalFits, NEW r \in Runs, Clear(r)
  PROVE  /\ JournalFits'
         /\ Slot!Commit \/ Slot!Restore \/ Slot!Block \/ UNCHANGED Slot!slot
<1>1. /\ Owner(r) /\ lock = r
      /\ journal # None => journal.run = r
      /\ bpc \in [Runs -> BrokerPC]
  BY DEF Clear, Owner, BrokerRunning, IInv, OneBroker, TypeOK
<1>2. /\ UNCHANGED <<head, worker>>
      /\ bpc' = [bpc EXCEPT ![r] = "done"]
      /\ lock' = None
      /\ journal' = journal \/ journal' = None
  BY DEF Clear, host
<1>3. lock' # r
  BY <1>2, DeployConstants
<1>4. JournalFits'
  BY <1>1, <1>2 DEF JournalFits, Supervised, Alive, Attached
<1>5. CASE journal = None
  BY <1>2, <1>4, <1>5 DEF Slot!slot
<1>6. CASE journal # None /\ journal' = journal
  BY <1>1, <1>2, <1>3, <1>4, <1>6 DEF Slot!Block
<1>7. CASE journal # None /\ journal' = None
  BY <1>1, <1>2, <1>4, <1>7 DEF JournalFits, Slot!Commit, Slot!Restore, Slot!Close
<1> QED BY <1>2, <1>4, <1>5, <1>6, <1>7

\* A broker that takes or gives back the lock over somebody else's journal, or over
\* none, does nothing the slot sees.
LEMMA LockHides ==
  ASSUME IInv, JournalFits, NEW r \in Runs, Acquire(r) \/ Busy(r) \/ Refuse(r)
  PROVE  JournalFits' /\ UNCHANGED Slot!slot
<1>1. /\ UNCHANGED <<head, journal, worker>>
      /\ bpc \in [Runs -> BrokerPC]
      /\ bpc[r] \in {"new", "locked"}
      /\ \E pc \in {"locked", "refused"} : bpc' = [bpc EXCEPT ![r] = pc]
  BY DEF Acquire, Busy, Refuse, host, disk, IInv, TypeOK
<1>2. journal # None => journal.run # r
  BY <1>1 DEF JournalFits
<1>3. lock' = lock \/ {lock, lock'} \subseteq {None, r}
  BY DEF Acquire, Busy, Refuse, IInv, OneBroker, BrokerRunning
<1>4. journal # None => journal.run \in Runs /\ journal.run # None
  BY DeployConstants DEF IInv, TypeOK, Journal
<1>5. UNCHANGED Slot!slot
  BY <1>1, <1>2, <1>3, <1>4 DEF Slot!slot
<1>6. JournalFits'
  BY <1>1, <1>2, <1>4 DEF JournalFits, Supervised, Alive, Attached
<1> QED BY <1>5, <1>6

\* A broker that dies blocks the slot if the journal is its own.
LEMMA DeathBlocks ==
  ASSUME IInv, JournalFits, NEW r \in Runs, BrokerCrash(r)
  PROVE  JournalFits' /\ (Slot!Block \/ UNCHANGED Slot!slot)
<1>1. /\ UNCHANGED <<head, journal, worker>>
      /\ bpc \in [Runs -> BrokerPC]
      /\ bpc' = [bpc EXCEPT ![r] = "crashed"]
      /\ lock = r /\ lock' = None
  BY DEF BrokerCrash, host, disk, IInv, TypeOK, OneBroker
<1>2. journal # None => journal.run \in Runs /\ journal.run # None
  BY DeployConstants DEF IInv, TypeOK, Journal
<1>3. JournalFits'
  BY <1>1, <1>2 DEF JournalFits, Supervised, Alive, Attached
<1>4. CASE journal # None /\ journal.run = r
  BY <1>1, <1>2, <1>3, <1>4 DEF Slot!Block
<1>5. CASE ~(journal # None /\ journal.run = r)
  BY <1>1, <1>2, <1>3, <1>5 DEF Slot!slot
<1> QED BY <1>3, <1>4, <1>5

\* An admission needs that there is no journal.
LEMMA AdmitHides ==
  ASSUME IInv, JournalFits, NEW r \in Runs, Admit(r)
  PROVE  JournalFits' /\ UNCHANGED Slot!slot
  BY DEF Admit, host, disk, JournalFits, Slot!slot

\* A broker that goes on leaves the journal, and has no worker before the checkpoint.
LEMMA BrokerGoesOn ==
  ASSUME IInv, JournalFits, NEW r \in Runs, UNCHANGED <<head, journal, lock>>,
         NEW pc, pc \notin {"new", "locked", "refused", "deploying"},
         bpc' = [bpc EXCEPT ![r] = pc],
         \/ pc # "recovering" /\ UNCHANGED worker
         \/ worker' = [worker EXCEPT ![r] = Go(@, "rollback", 1, session[r].previous)]
  PROVE  JournalFits' /\ UNCHANGED Slot!slot
<1>1. UNCHANGED Slot!slot
  BY DEF Slot!slot
<1>2. /\ bpc \in [Runs -> BrokerPC]
      /\ worker \in [Runs -> Worker]
      /\ journal # None => journal.run \in Runs
  BY DEF IInv, TypeOK, Journal
<1>3. journal' # None => /\ bpc'[journal'.run] \notin {"new", "locked", "refused"}
                         /\ head' \in {journal'.previous, journal'.target}
  BY <1>2 DEF JournalFits
<1>4. ASSUME NEW q \in Runs, Supervised(q)', worker'[q].phase \in {"preflight", "prepare"}
      PROVE  journal' = None
  <2>1. worker'[q] = worker[q]
    BY <1>2, <1>4 DEF Go
  <2>2. q # r
    BY <1>2, <1>4 DEF Go, Supervised, Attached
  <2> QED BY <1>2, <1>4, <2>1, <2>2 DEF JournalFits, Supervised, Alive, Attached
<1> QED BY <1>1, <1>3, <1>4 DEF JournalFits

\* The middle of a run, from the worker's end to the report.
LEMMA MiddleHides ==
  ASSUME IInv, JournalFits, NEW r \in Runs,
         \/ Collect(r) \/ Observe(r) \/ CollectRecovery(r) \/ ObserveRecovery(r)
         \/ (\E u \in Units : Abandon(r, u)) \/ Report(r)
  PROVE  JournalFits' /\ UNCHANGED Slot!slot
<1>1. UNCHANGED <<head, journal, lock>>
  BY DEF Collect, Observe, CollectRecovery, ObserveRecovery, Abandon, Report, host, disk
<1>2. \E pc : /\ pc \notin {"new", "locked", "refused", "deploying"}
              /\ bpc' = [bpc EXCEPT ![r] = pc]
              /\ \/ pc # "recovering" /\ UNCHANGED worker
                 \/ worker' = [worker EXCEPT ![r] = Go(@, "rollback", 1, session[r].previous)]
  <2>1. CASE \E res : Settle(r, res)
    BY <2>1 DEF Settle
  <2>2. CASE Collect(r)
    BY <2>1, <2>2 DEF Collect
  <2>3. CASE Observe(r)
    BY <2>1, <2>3 DEF Observe
  <2>4. CASE CollectRecovery(r) \/ ObserveRecovery(r) \/ Report(r)
    BY <2>4 DEF CollectRecovery, ObserveRecovery, Report
  <2>5. CASE \E u \in Units : Abandon(r, u)
    BY <2>5 DEF Abandon
  <2> QED BY <2>2, <2>3, <2>4, <2>5
<1> QED BY <1>1, <1>2, BrokerGoesOn

\* The host's own steps, and a worker that dies.
LEMMA HostHides ==
  ASSUME IInv, JournalFits,
         \/ MainMoves
         \/ \E u \in Units : UnitFails(u) \/ UnitRestarts(u)
         \/ \E r \in Runs : WorkerCrash(r)
  PROVE  JournalFits' /\ UNCHANGED Slot!slot
<1>1. UNCHANGED <<head, journal, lock, bpc>>
  BY DEF WorkerCrash, MainMoves, UnitFails, UnitRestarts, host, disk
<1>2. UNCHANGED Slot!slot
  BY <1>1 DEF Slot!slot
<1>3. \A q \in Runs : worker'[q].phase \in {"preflight", "prepare"} => worker'[q] = worker[q]
  BY DEF WorkerCrash, MainMoves, UnitFails, UnitRestarts, Go, IInv, TypeOK
<1> QED BY <1>1, <1>2, <1>3 DEF JournalFits, Supervised, Alive, Attached

LEMMA InitFits == Init => JournalFits /\ Slot!Init
  BY DEF Init, JournalFits, Slot!Init, Supervised, Alive

\* Every step of the pipeline is one of the slot, or the slot does not see it.
LEMMA NextFits ==
  IInv /\ JournalFits /\ [Next]_vars => JournalFits' /\ [Slot!Next]_(Slot!slot)
<1> SUFFICES ASSUME IInv, JournalFits, [Next]_vars
             PROVE  JournalFits' /\ (Slot!Next \/ UNCHANGED Slot!slot)
  OBVIOUS
<1>1. CASE UNCHANGED vars
  BY <1>1 DEF vars, JournalFits, Supervised, Alive, Attached, Slot!slot
<1>2. ASSUME NEW r \in Runs, WorkerStep(r)
      PROVE  JournalFits' /\ (Slot!Next \/ UNCHANGED Slot!slot)
  <2>1. Target[r] \in Shas
    BY DeployConstants
  <2> QED BY <1>2, <2>1, WorkerHides DEF Slot!Next
<1>3. ASSUME NEW r \in Runs, BrokerStep(r)
      PROVE  JournalFits' /\ (Slot!Next \/ UNCHANGED Slot!slot)
  BY <1>3, LockHides, AdmitHides, MiddleHides, ClearCloses DEF BrokerStep, Slot!Next
<1>4. CASE Environment
  BY <1>4, HostHides, DeathBlocks DEF Environment, Slot!Next
<1> QED BY <1>1, <1>2, <1>3, <1>4 DEF Next

\* Seen through the journal and the lock, the pipeline ends every deployment with the
\* target or the previous commit, or refuses all that follow, whoever dies when.
THEOREM PipelineImplementsSlot == Spec => SlotSpec
  BY InitInv, NextInv, InitFits, NextFits, PTL DEF Spec, SlotSpec, Slot!Spec

=============================================================================
