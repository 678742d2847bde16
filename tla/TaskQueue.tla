------------------------------ MODULE TaskQueue ------------------------------
(***************************************************************************)
(* The durable task queue (src/src/gaon/runtime/worker.py) and its         *)
(* recovery at the start of the runtime service (service.py).              *)
(*                                                                         *)
(* Items are rows of a table.  A worker takes an item with lease_next(), a *)
(* select followed by an update, and reports with mark_running(),          *)
(* mark_succeeded() and mark_failed(), the last a read followed by a       *)
(* write.  A worker whose mark_running() or mark_succeeded() is refused    *)
(* lets the item go; one may also die, or fail to report, at any point.    *)
(* Every start of a service recovers, also beside the workers of another   *)
(* that still runs: nothing keeps a second process away.                   *)
(***************************************************************************)
EXTENDS Naturals, FiniteSets

CONSTANTS
    Items,         \* item ids
    Key,           \* the dedupe key of each item
    Priority,      \* the priority of each item
    Workers,
    NoItem,        \* a worker that holds nothing
    MaxAttempts,   \* failed attempts after which an item has failed
    MaxStarts      \* bound of the starts of a service beside this table

ASSUME QueueAssumption ==
    /\ NoItem \notin Items
    /\ MaxAttempts \in Nat \ {0} /\ MaxStarts \in Nat
    /\ IsFiniteSet(Workers)
    /\ Priority \in [Items -> Nat]

VARIABLES
    status,        \* of each item; "absent" before it is enqueued
    attempts,      \* failures recorded for each item
    due,           \* available_at has come
    worker,        \* what each worker is doing: at, with which item
    failures,      \* history: failed runs of each item whose report was written
    overtaken,     \* history: recoveries of each item while a worker executed it
    starts         \* starts of a service so far

vars == <<status, attempts, due, worker, failures, overtaken, starts>>

Final == {"succeeded", "failed", "cancelled"}
Status == {"absent", "pending", "leased", "running"} \cup Final

\* selected: lease_next() between its select and its update; held: it returned
\* the item; running: mark_running() returned; failing: mark_failed() between
\* its read and its write, with the attempts it read.
Places == {"free", "selected", "held", "running", "failing"}
Free == [at |-> "free", item |-> NoItem, read |-> 0]

TypeOK ==
    /\ status \in [Items -> Status]
    /\ attempts \in [Items -> Nat]
    /\ due \in [Items -> BOOLEAN]
    /\ worker \in [Workers -> [at: Places, item: Items \cup {NoItem}, read: Nat]]
    /\ failures \in [Items -> Nat]
    /\ overtaken \in [Items -> Nat]
    /\ starts \in 0..MaxStarts

Init ==
    /\ status = [i \in Items |-> "absent"]
    /\ attempts = [i \in Items |-> 0]
    /\ due = [i \in Items |-> FALSE]
    /\ worker = [w \in Workers |-> Free]
    /\ failures = [i \in Items |-> 0]
    /\ overtaken = [i \in Items |-> 0]
    /\ starts = 0

-----------------------------------------------------------------------------
(* The table.                                                              *)

\* Mutant: the dedupe key is unique among the unfinished items only.
EnqueueAgain(i) ==
    /\ status[i] = "absent"
    /\ \A j \in Items : status[j] \notin Final \cup {"absent"} => Key[j] # Key[i]
    /\ status' = [status EXCEPT ![i] = "pending"]
    /\ UNCHANGED <<attempts, due, worker, failures, overtaken, starts>>

(* The dedupe key is unique in the table, finished items included.         *)
Enqueue(i) ==
    /\ \A j \in Items : status[j] # "absent" => j # i /\ Key[j] # Key[i]
    /\ status' = [status EXCEPT ![i] = "pending"]
    /\ UNCHANGED <<attempts, due, worker, failures, overtaken, starts>>

(* available_at comes.                                                     *)
ComesDue(i) ==
    /\ status[i] = "pending" /\ ~due[i]
    /\ due' = [due EXCEPT ![i] = TRUE]
    /\ UNCHANGED <<status, attempts, worker, failures, overtaken, starts>>

Cancel(i) ==
    /\ status[i] \notin Final \cup {"absent"}
    /\ status' = [status EXCEPT ![i] = "cancelled"]
    /\ UNCHANGED <<attempts, due, worker, failures, overtaken, starts>>

Ready == {i \in Items : status[i] = "pending" /\ due[i]}

Moves(w, at, i) ==
    worker' = [worker EXCEPT ![w] = [at |-> at, item |-> i, read |-> 0]]

-----------------------------------------------------------------------------
(* lease_next().                                                           *)
Select(w) ==
    /\ worker[w].at = "free"
    /\ \E i \in Ready :
          /\ \A j \in Ready : Priority[j] <= Priority[i]
          /\ Moves(w, "selected", i)
    /\ UNCHANGED <<status, attempts, due, failures, overtaken, starts>>

(* The update is guarded by the status; whether it changed a row is not    *)
(* looked at, and the item is returned either way.                         *)
Lease(w) ==
    /\ worker[w].at = "selected"
    /\ LET i == worker[w].item IN
          /\ status' = IF status[i] = "pending" THEN [status EXCEPT ![i] = "leased"]
                                                ELSE status
          /\ Moves(w, "held", i)
    /\ UNCHANGED <<attempts, due, failures, overtaken, starts>>

(* _transition(): one guarded update; a row count other than one raises.   *)
Guarded(w, from, to, at) ==
    LET i == worker[w].item IN
    IF status[i] = from
    THEN /\ status' = [status EXCEPT ![i] = to]
         /\ IF at = "free" THEN worker' = [worker EXCEPT ![w] = Free] ELSE Moves(w, at, i)
    ELSE /\ worker' = [worker EXCEPT ![w] = Free]
         /\ UNCHANGED status

\* Mutant: the row count is not looked at.
UnguardedRunning(w) ==
    /\ worker[w].at = "held"
    /\ status' = [status EXCEPT ![worker[w].item] =
                     IF @ = "leased" THEN "running" ELSE @]
    /\ Moves(w, "running", worker[w].item)
    /\ UNCHANGED <<attempts, due, failures, overtaken, starts>>

MarkRunning(w) ==
    /\ worker[w].at = "held"
    /\ Guarded(w, "leased", "running", "running")
    /\ UNCHANGED <<attempts, due, failures, overtaken, starts>>

MarkSucceeded(w) ==
    /\ worker[w].at = "running"
    /\ Guarded(w, "running", "succeeded", "free")
    /\ UNCHANGED <<attempts, due, failures, overtaken, starts>>

-----------------------------------------------------------------------------
(* mark_failed(): the attempts are read, then the row is written by id.    *)
ReadAttempts(w) ==
    /\ worker[w].at = "running"
    /\ worker' = [worker EXCEPT ![w].at = "failing",
                              ![w].read = attempts[worker[w].item]]
    /\ UNCHANGED <<status, attempts, due, failures, overtaken, starts>>

\* Mutant: the retry limit is checked before the failure is counted.
RetriesOnceMore(n) == n > MaxAttempts

LimitReached(n) == n >= MaxAttempts

\* Mutant: the read attempts are written back.
CountNothing(n) == n

Count(n) == n + 1

MarkFailed(w) ==
    /\ worker[w].at = "failing"
    /\ LET i == worker[w].item
           n == Count(worker[w].read) IN
          /\ status' = [status EXCEPT ![i] = IF LimitReached(n) THEN "failed" ELSE "pending"]
          /\ attempts' = [attempts EXCEPT ![i] = n]
          /\ due' = [due EXCEPT ![i] = FALSE]
          /\ failures' = [failures EXCEPT ![i] = @ + 1]
    /\ worker' = [worker EXCEPT ![w] = Free]
    /\ UNCHANGED <<overtaken, starts>>

-----------------------------------------------------------------------------
(* The worker dies, or gives the item up, or its report raises (the        *)
(* database is locked): the row stays as it is.                            *)
LetGo(w) ==
    /\ worker[w].at # "free"
    /\ worker' = [worker EXCEPT ![w] = Free]
    /\ UNCHANGED <<status, attempts, due, failures, overtaken, starts>>

Executes(w, i) == worker[w].at \in {"running", "failing"} /\ worker[w].item = i
Runners(i) == {w \in Workers : Executes(w, i)}

\* Mutant: what was recovered is taken for a failure of its own.
RecoverAsFailed(s) == IF s = "running" THEN "failed" ELSE s

Recover(s) == IF s = "running" THEN "pending" ELSE s

(* start(): recover_stale() puts every RUNNING item back, also from under  *)
(* a worker, and the leases that ended before a fixed instant of the past  *)
(* (service.py:59): none that a worker took since.                         *)
Start ==
    /\ starts < MaxStarts
    /\ starts' = starts + 1
    /\ status' = [i \in Items |-> Recover(status[i])]
    /\ overtaken' = [i \in Items |->
          IF status[i] = "running" /\ Runners(i) # {} THEN overtaken[i] + 1
                                                      ELSE overtaken[i]]
    /\ UNCHANGED <<attempts, due, worker, failures>>

-----------------------------------------------------------------------------
Work(w) ==
    \/ Select(w)
    \/ Lease(w)
    \/ MarkRunning(w)
    \/ MarkSucceeded(w)
    \/ ReadAttempts(w)
    \/ MarkFailed(w)
    \/ LetGo(w)

Next ==
    \/ \E i \in Items : Enqueue(i) \/ ComesDue(i) \/ Cancel(i)
    \/ \E w \in Workers : Work(w)
    \/ Start

Spec == Init /\ [][Next]_vars

-----------------------------------------------------------------------------
(* The guard of mark_running() keeps the executors of an item apart,       *)
(* although lease_next() may hand it to two (worker.py:83): only a start   *)
(* beside the one that executes it adds another, and each start one only.  *)
RunnersBounded ==
    \A i \in Items : Cardinality(Runners(i)) <= 1 + overtaken[i]

(* No failed run is counted twice, and every one is, although              *)
(* mark_failed() writes back a count it read before (worker.py:103), until *)
(* a start has overtaken the item: then two executors may read one count.  *)
FailuresAreCounted ==
    \A i \in Items : /\ attempts[i] <= failures[i]
                     /\ overtaken[i] = 0 => attempts[i] = failures[i]

(* An item is FAILED exactly when its attempts are used up, whatever late  *)
(* reports write over each other; and it is not run past the limit more    *)
(* often than it was overtaken.                                            *)
AttemptsBounded ==
    \A i \in Items : /\ attempts[i] >= MaxAttempts <=> status[i] = "failed"
                     /\ attempts[i] <= MaxAttempts + overtaken[i]

(* An item that succeeded or used up its attempts is not touched again: no *)
(* late lease, report, cancellation or recovery brings it back, unless it  *)
(* was overtaken.                                                          *)
FinishedIsFinal ==
    [][\A i \in Items : status[i] \in {"succeeded", "failed"} /\ overtaken[i] = 0 =>
          status'[i] = status[i]]_vars

(* The inductive invariant behind these properties.  An item has one       *)
(* executor more than it was overtaken only while it is RUNNING, or was    *)
(* cancelled since, so the guard of mark_running() lets in no other.       *)
MayRun(i)  == IF status[i] \in {"running", "cancelled"} THEN 1 ELSE 0
Waiting(i) == IF status[i] \in {"absent", "pending", "leased"} THEN 1 ELSE 0

RunnerInv ==
    \A i \in Items : Cardinality(Runners(i)) <= overtaken[i] + MayRun(i)

(* Every executor that is left can take the attempts one further.          *)
LimitInv ==
    /\ AttemptsBounded
    /\ \A i \in Items : status[i] = "failed" =>
          attempts[i] + Cardinality(Runners(i)) <= MaxAttempts + overtaken[i]
    /\ \A w \in Workers, i \in Items : worker[w].at = "failing" /\ worker[w].item = i =>
          worker[w].read + Cardinality(Runners(i)) + Waiting(i) <= MaxAttempts + overtaken[i]

(* A count that was read is no more than the failures there were, and is   *)
(* the count of the row as long as the item has one executor.              *)
CountInv ==
    /\ FailuresAreCounted
    /\ \A w \in Workers, i \in Items : worker[w].at = "failing" /\ worker[w].item = i =>
          /\ worker[w].read <= failures[i]
          /\ overtaken[i] = 0 => worker[w].read = attempts[i]

(* A worker that is not free has an item; what is overtaken is in the table. *)
HoldsItem == \A w \in Workers : worker[w].at # "free" => worker[w].item \in Items
FreshInv == \A i \in Items : status[i] = "absent" => overtaken[i] = 0

QueueInv == TypeOK /\ HoldsItem /\ FreshInv /\ RunnerInv /\ LimitInv /\ CountInv

(* Until a start overtakes it, an item is served as by a queue whose items *)
(* are taken and decided in one step, whatever leases, reports that write  *)
(* by id, deaths and recoveries of abandoned rows come between.            *)
Shown(s) == IF s \in {"pending", "leased", "running"} THEN "open" ELSE s
State == [i \in Items |-> IF overtaken[i] > 0 THEN "disputed" ELSE Shown(status[i])]
InHand == {i \in Items : overtaken[i] = 0 /\ Runners(i) # {}}
Tries == [i \in Items |-> IF overtaken[i] > 0 THEN 0 ELSE attempts[i]]
Atomic == INSTANCE AtomicQueue WITH state <- State, inHand <- InHand, tries <- Tries
ImplementsQueue == Atomic!Spec
=============================================================================
