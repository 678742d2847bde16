--------------------------- MODULE TaskQueueProofs ---------------------------
(***************************************************************************)
(* Proofs about TaskQueue, for any items, keys, priorities, starts and     *)
(* number of workers: an item has no more runners than one and its         *)
(* recoveries, its failures are counted, its attempts are bounded, and the *)
(* queue implements AtomicQueue.                                           *)
(***************************************************************************)
EXTENDS TaskQueue, FiniteSetTheorems, TLAPS

WorkerType == [at: Places, item: Items \cup {NoItem}, read: Nat]

Size(i) == Cardinality(Runners(i))

(* What Moves and a release write.                                         *)
LEMMA MovesType ==
    ASSUME TypeOK, NEW w \in Workers, NEW at \in Places, NEW i \in Items, Moves(w, at, i)
    PROVE  /\ worker' \in [Workers -> WorkerType]
           /\ worker'[w].at = at /\ worker'[w].item = i
           /\ \A v \in Workers \ {w} : worker'[v] = worker[v]
<1> DEFINE r == [at |-> at, item |-> i, read |-> 0]
<1>1. r \in WorkerType /\ r.at = at /\ r.item = i
      BY QueueAssumption DEF WorkerType
<1>2. worker \in [Workers -> WorkerType] /\ worker' = [worker EXCEPT ![w] = r]
      BY DEF TypeOK, WorkerType, Moves
<1> HIDE DEF r
<1>3. QED BY <1>1, <1>2

LEMMA FreeType ==
    /\ Free \in WorkerType
    /\ Free.at = "free"
BY QueueAssumption DEF Free, WorkerType, Places

LEMMA ReleaseType ==
    ASSUME TypeOK, NEW w \in Workers, worker' = [worker EXCEPT ![w] = Free]
    PROVE  /\ worker' \in [Workers -> WorkerType]
           /\ worker'[w].at = "free"
           /\ \A v \in Workers \ {w} : worker'[v] = worker[v]
<1>1. worker \in [Workers -> WorkerType]
      BY DEF TypeOK, WorkerType
<1>2. QED BY <1>1, FreeType

LEMMA GuardedEffect ==
    ASSUME TypeOK, HoldsItem, NEW w \in Workers, worker[w].at # "free",
           NEW from, NEW to \in Status, NEW at \in Places, Guarded(w, from, to, at)
    PROVE  /\ worker' \in [Workers -> WorkerType]
           /\ status' \in [Items -> Status]
           /\ \A v \in Workers \ {w} : worker'[v] = worker[v]
           /\ \/ /\ status[worker[w].item] = from
                 /\ status' = [status EXCEPT ![worker[w].item] = to]
                 /\ worker'[w].at = at
                 /\ at # "free" => worker'[w].item = worker[w].item
              \/ /\ status[worker[w].item] # from
                 /\ status' = status /\ worker'[w].at = "free"
<1> DEFINE i == worker[w].item
<1>0. i \in Items /\ status \in [Items -> Status]
      BY DEF HoldsItem, TypeOK
<1>1. CASE status[i] = from
  <2>1. status' = [status EXCEPT ![i] = to]
        BY <1>1 DEF Guarded
  <2>2. CASE at = "free"
    <3>1. worker' = [worker EXCEPT ![w] = Free]
          BY <1>1, <2>2 DEF Guarded
    <3>2. QED BY <1>0, <1>1, <2>1, <2>2, <3>1, ReleaseType
  <2>3. CASE at # "free"
    <3>1. Moves(w, at, i)
          BY <1>1, <2>3 DEF Guarded
    <3>2. QED BY <1>0, <1>1, <2>1, <2>3, <3>1, MovesType
  <2>4. QED BY <2>2, <2>3
<1>2. CASE status[i] # from
  <2>1. status' = status /\ worker' = [worker EXCEPT ![w] = Free]
        BY <1>2 DEF Guarded
  <2>2. QED BY <1>0, <1>2, <2>1, ReleaseType
<1>3. QED BY <1>1, <1>2

-----------------------------------------------------------------------------
(* How the executors of an item change.                                    *)
LEMMA RunnersFinite ==
    ASSUME NEW i
    PROVE  /\ IsFiniteSet(Runners(i)) /\ Size(i) \in Nat
           /\ IsFiniteSet(Runners(i)') /\ Size(i)' \in Nat
<1>1. Runners(i) \in SUBSET Workers /\ Runners(i)' \in SUBSET Workers
      BY DEF Runners
<1>2. IsFiniteSet(Runners(i)) /\ IsFiniteSet(Runners(i)')
      BY <1>1, FS_Subset, QueueAssumption
<1>3. QED BY <1>2, FS_CardinalityType DEF Size

LEMMA RunnersStay ==
    ASSUME \A v \in Workers, i \in Items : Executes(v, i)' <=> Executes(v, i)
    PROVE  \A i \in Items : Runners(i)' = Runners(i) /\ Size(i)' = Size(i)
<1>1. \A i \in Items : Runners(i)' = Runners(i)
      BY DEF Runners
<1>2. QED BY <1>1 DEF Size

LEMMA RunnerFreed ==
    ASSUME NEW w \in Workers, worker'[w].at = "free",
           \A v \in Workers \ {w} : worker'[v] = worker[v], NEW i \in Items
    PROVE  /\ Runners(i)' = Runners(i) \ {w}
           /\ Size(i)' = IF Executes(w, i) THEN Size(i) - 1 ELSE Size(i)
           /\ Executes(w, i) => Size(i) >= 1
<1>1. /\ \A v \in Workers \ {w} : Executes(v, i)' <=> Executes(v, i)
      /\ ~Executes(w, i)'
      BY DEF Executes
<1>2. Runners(i)' = Runners(i) \ {w}
      BY <1>1 DEF Runners
<1>3. w \in Runners(i) <=> Executes(w, i)
      BY DEF Runners
<1>4. Size(i)' = Cardinality(Runners(i) \ {w})
      BY <1>2 DEF Size
<1>5. Size(i)' = IF Executes(w, i) THEN Size(i) - 1 ELSE Size(i)
      BY <1>3, <1>4, RunnersFinite, FS_RemoveElement DEF Size
<1>6. QED BY <1>2, <1>5, RunnersFinite

LEMMA RunnerJoins ==
    ASSUME NEW w \in Workers, NEW i \in Items, worker[w].at = "held",
           worker'[w].at = "running", worker'[w].item = i,
           \A v \in Workers \ {w} : worker'[v] = worker[v]
    PROVE  /\ Runners(i)' = Runners(i) \cup {w} /\ Size(i)' = Size(i) + 1
           /\ \A j \in Items \ {i} : Runners(j)' = Runners(j) /\ Size(j)' = Size(j)
<1>1. /\ \A v \in Workers \ {w}, j \in Items : Executes(v, j)' <=> Executes(v, j)
      /\ \A j \in Items : ~Executes(w, j) /\ (Executes(w, j)' <=> j = i)
      BY DEF Executes
<1>2. Runners(i)' = Runners(i) \cup {w} /\ w \notin Runners(i)
      BY <1>1 DEF Runners
<1>3. Size(i)' = Cardinality(Runners(i) \cup {w})
      BY <1>2 DEF Size
<1>4. Size(i)' = Size(i) + 1
      BY <1>2, <1>3, RunnersFinite, FS_AddElement DEF Size
<1>5. \A j \in Items \ {i} : Runners(j)' = Runners(j)
      BY <1>1 DEF Runners
<1>6. QED BY <1>2, <1>4, <1>5 DEF Size

LEMMA ExecutorCounted ==
    ASSUME NEW w \in Workers, NEW i \in Items, Executes(w, i)
    PROVE  Size(i) \in Nat /\ Size(i) >= 1
<1>1. w \in Runners(i)
      BY DEF Runners
<1>2. Size(i) # 0
      BY <1>1, RunnersFinite, FS_EmptySet DEF Size
<1>3. QED BY <1>2, RunnersFinite

(* What of the invariant a step has to keep that writes no attempts.       *)
LEMMA Settles ==
    ASSUME QueueInv, TypeOK', HoldsItem', UNCHANGED <<attempts, failures, overtaken>>,
           \A v \in Workers : worker'[v].at = "failing" => worker'[v] = worker[v],
           \A i \in Items : /\ Size(i)' <= overtaken[i] + MayRun(i)'
                            /\ Size(i)' + Waiting(i)' <= Size(i) + Waiting(i)
                            /\ status'[i] = "failed" <=> status[i] = "failed"
                            /\ status'[i] = "absent" => status[i] = "absent"
    PROVE  QueueInv'
<1>0. /\ TypeOK /\ RunnerInv /\ LimitInv /\ CountInv
      /\ attempts \in [Items -> Nat] /\ overtaken \in [Items -> Nat]
      /\ MaxAttempts \in Nat
      BY QueueAssumption DEF QueueInv, TypeOK
<1>1. \A i \in Items : /\ Size(i) \in Nat /\ Size(i)' \in Nat
                       /\ Waiting(i) \in {0, 1} /\ Waiting(i)' \in {0, 1}
      BY RunnersFinite DEF Waiting
<1>2. RunnerInv'
      BY DEF RunnerInv, Size
<1>3. AttemptsBounded'
      BY <1>0 DEF LimitInv, AttemptsBounded
<1>4. ASSUME NEW i \in Items, status'[i] = "failed"
      PROVE  attempts'[i] + Cardinality(Runners(i)') <= MaxAttempts + overtaken'[i]
  <2>1. status[i] = "failed" /\ Waiting(i) = 0 /\ Waiting(i)' = 0
        BY <1>4 DEF Waiting
  <2>2. Size(i)' <= Size(i)
        BY <1>1, <2>1
  <2>3. attempts[i] + Size(i) <= MaxAttempts + overtaken[i]
        BY <1>0, <2>1 DEF LimitInv, Size
  <2>4. attempts[i] + Size(i)' <= MaxAttempts + overtaken[i]
        BY <1>0, <1>1, <2>2, <2>3
  <2>5. QED BY <2>4 DEF Size
<1>5. ASSUME NEW v \in Workers, NEW i \in Items, worker'[v].at = "failing", worker'[v].item = i
      PROVE  /\ worker'[v].read + Cardinality(Runners(i)') + Waiting(i)' <= MaxAttempts + overtaken'[i]
             /\ worker'[v].read <= failures'[i]
             /\ overtaken'[i] = 0 => worker'[v].read = attempts'[i]
  <2>1. worker'[v] = worker[v] /\ worker[v].read \in Nat
        BY <1>0, <1>5 DEF TypeOK
  <2>2. worker[v].read + Size(i) + Waiting(i) <= MaxAttempts + overtaken[i]
        BY <1>0, <1>5, <2>1 DEF LimitInv, Size
  <2>3. worker[v].read + Size(i)' + Waiting(i)' <= MaxAttempts + overtaken[i]
        BY <1>0, <1>1, <2>1, <2>2
  <2>4. worker[v].read <= failures[i] /\ (overtaken[i] = 0 => worker[v].read = attempts[i])
        BY <1>0, <1>5, <2>1 DEF CountInv
  <2>5. QED BY <2>1, <2>3, <2>4 DEF Size
<1>6. FailuresAreCounted'
      BY <1>0 DEF CountInv, FailuresAreCounted
<1>7. LimitInv' /\ CountInv'
      BY <1>3, <1>4, <1>5, <1>6 DEF LimitInv, CountInv
<1>8. FreshInv'
      BY DEF QueueInv, FreshInv
<1>9. QED BY <1>2, <1>7, <1>8 DEF QueueInv

-----------------------------------------------------------------------------
LEMMA QueueInit == Init => QueueInv
<1> SUFFICES ASSUME Init PROVE QueueInv
    OBVIOUS
<1>0. /\ \A w \in Workers : worker[w].at = "free"
      /\ \A i \in Items : /\ status[i] = "absent" /\ attempts[i] = 0 /\ failures[i] = 0
                          /\ overtaken[i] = 0
      /\ MaxAttempts \in Nat /\ MaxAttempts > 0
      BY FreeType, QueueAssumption DEF Init
<1>1. TypeOK
  <2>1. worker \in [Workers -> WorkerType]
        BY FreeType DEF Init
  <2>2. /\ status \in [Items -> Status] /\ due \in [Items -> BOOLEAN]
        /\ attempts \in [Items -> Nat] /\ failures \in [Items -> Nat]
        /\ overtaken \in [Items -> Nat] /\ starts \in 0..MaxStarts
        BY QueueAssumption DEF Init, Status
  <2>3. QED BY <2>1, <2>2 DEF TypeOK, WorkerType
<1>2. \A i \in Items : Runners(i) = {} /\ Cardinality(Runners(i)) = 0
      BY <1>0, FS_EmptySet DEF Runners, Executes
<1>3. HoldsItem /\ FreshInv /\ RunnerInv
      BY <1>0, <1>2 DEF HoldsItem, FreshInv, RunnerInv, MayRun
<1>4. AttemptsBounded /\ FailuresAreCounted
      BY <1>0 DEF AttemptsBounded, FailuresAreCounted
<1>5. LimitInv /\ CountInv
      BY <1>0, <1>4 DEF LimitInv, CountInv
<1>6. QED BY <1>1, <1>3, <1>5 DEF QueueInv

LEMMA TableStep ==
    ASSUME QueueInv, NEW i \in Items,
           Enqueue(i) \/ ComesDue(i) \/ Cancel(i)
    PROVE  QueueInv'
<1>0. /\ TypeOK /\ HoldsItem /\ RunnerInv
      /\ UNCHANGED <<attempts, worker, failures, overtaken, starts>>
      BY DEF QueueInv, Enqueue, ComesDue, Cancel
<1>1. status' \in [Items -> Status] /\ due' \in [Items -> BOOLEAN]
      BY <1>0 DEF TypeOK, Enqueue, ComesDue, Cancel, Status, Final
<1>2. \A j \in Items : \/ status'[j] = status[j]
                       \/ status[j] = "absent" /\ status'[j] = "pending"
                       \/ status[j] \notin Final /\ status'[j] = "cancelled"
      BY <1>0 DEF TypeOK, Enqueue, ComesDue, Cancel, Status, Final
<1>3. TypeOK'
      BY <1>0, <1>1 DEF TypeOK
<1>4. HoldsItem'
      BY <1>0 DEF HoldsItem
<1>5. \A j \in Items : Size(j)' = Size(j)
      BY <1>0, RunnersStay DEF Executes
<1>6. ASSUME NEW j \in Items
      PROVE  /\ Size(j)' <= overtaken[j] + MayRun(j)'
             /\ Size(j)' + Waiting(j)' <= Size(j) + Waiting(j)
             /\ status'[j] = "failed" <=> status[j] = "failed"
             /\ status'[j] = "absent" => status[j] = "absent"
  <2>1. /\ MayRun(j) \in {0, 1} /\ MayRun(j)' \in {0, 1} /\ MayRun(j) <= MayRun(j)'
        /\ Waiting(j) \in {0, 1} /\ Waiting(j)' \in {0, 1} /\ Waiting(j)' <= Waiting(j)
        /\ status'[j] = "failed" <=> status[j] = "failed"
        /\ status'[j] = "absent" => status[j] = "absent"
        BY <1>2 DEF MayRun, Waiting, Final
  <2>2. Size(j) <= overtaken[j] + MayRun(j) /\ overtaken[j] \in Nat
        BY <1>0 DEF RunnerInv, Size, TypeOK
  <2>3. QED BY <1>5, <2>1, <2>2, RunnersFinite
<1>7. QED BY <1>0, <1>3, <1>4, <1>6, Settles

(* Steps of a worker that take no item into execution.                     *)
LEMMA TakeStep ==
    ASSUME QueueInv, NEW w \in Workers, Select(w) \/ Lease(w)
    PROVE  QueueInv'
<1>0. /\ TypeOK /\ HoldsItem /\ RunnerInv
      /\ UNCHANGED <<attempts, due, failures, overtaken, starts>>
      BY DEF QueueInv, Select, Lease
<1>1. PICK i \in Items, at \in {"selected", "held"} : Moves(w, at, i)
  <2>1. CASE Select(w)
        BY <2>1 DEF Select, Ready
  <2>2. CASE Lease(w)
    <3>1. worker[w].item \in Items
          BY <1>0, <2>2 DEF Lease, HoldsItem
    <3>2. QED BY <2>2, <3>1 DEF Lease
  <2>3. QED BY <2>1, <2>2
<1>2. /\ worker' \in [Workers -> WorkerType] /\ worker'[w].at = at /\ worker'[w].item = i
      /\ \A v \in Workers \ {w} : worker'[v] = worker[v]
      BY <1>0, <1>1, MovesType DEF Places
<1>3. worker[w].at \in {"free", "selected"}
      BY DEF Select, Lease
<1>4. /\ status' \in [Items -> Status]
      /\ \A j \in Items : \/ status'[j] = status[j]
                          \/ status[j] = "pending" /\ status'[j] = "leased"
  <2>1. CASE Select(w)
        BY <1>0, <2>1 DEF Select, TypeOK
  <2>2. CASE Lease(w)
        BY <1>0, <2>2 DEF Lease, TypeOK, Status
  <2>3. QED BY <2>1, <2>2
<1>5. TypeOK'
      BY <1>0, <1>2, <1>4 DEF TypeOK, WorkerType
<1>6. HoldsItem'
      BY <1>0, <1>2 DEF HoldsItem
<1>7. \A j \in Items : Size(j)' = Size(j)
      BY <1>2, <1>3, RunnersStay DEF Executes
<1>8. \A v \in Workers : worker'[v].at = "failing" => worker'[v] = worker[v]
      BY <1>2
<1>9. ASSUME NEW j \in Items
      PROVE  /\ Size(j)' <= overtaken[j] + MayRun(j)'
             /\ Size(j)' + Waiting(j)' <= Size(j) + Waiting(j)
             /\ status'[j] = "failed" <=> status[j] = "failed"
             /\ status'[j] = "absent" => status[j] = "absent"
  <2>1. /\ MayRun(j)' = MayRun(j) /\ Waiting(j)' = Waiting(j) /\ Waiting(j) \in {0, 1}
        /\ status'[j] = "failed" <=> status[j] = "failed"
        /\ status'[j] = "absent" => status[j] = "absent"
        BY <1>4 DEF MayRun, Waiting
  <2>2. Size(j) <= overtaken[j] + MayRun(j)
        BY <1>0 DEF RunnerInv, Size
  <2>3. QED BY <1>7, <2>1, <2>2, RunnersFinite
<1>10. QED BY <1>0, <1>5, <1>6, <1>8, <1>9, Settles

LEMMA RunningStep ==
    ASSUME QueueInv, NEW w \in Workers, MarkRunning(w)
    PROVE  QueueInv'
<1>0. /\ TypeOK /\ HoldsItem /\ RunnerInv
      /\ UNCHANGED <<attempts, due, failures, overtaken, starts>>
      /\ status \in [Items -> Status]
      BY DEF QueueInv, MarkRunning, TypeOK
<1> PICK i \in Items : i = worker[w].item
      BY <1>0 DEF MarkRunning, HoldsItem
<1>1. worker[w].at = "held"
      BY DEF MarkRunning
<1>2. /\ worker' \in [Workers -> WorkerType] /\ status' \in [Items -> Status]
      /\ \A v \in Workers \ {w} : worker'[v] = worker[v]
      /\ \/ /\ status[i] = "leased" /\ status' = [status EXCEPT ![i] = "running"]
            /\ worker'[w].at = "running" /\ worker'[w].item = i
         \/ status' = status /\ worker'[w].at = "free"
      BY <1>0, <1>1, GuardedEffect DEF MarkRunning, Places, Status
<1>3. TypeOK'
      BY <1>0, <1>2 DEF TypeOK, WorkerType
<1>4. HoldsItem'
      BY <1>0, <1>1, <1>2 DEF HoldsItem
<1>5. \A v \in Workers : worker'[v].at = "failing" => worker'[v] = worker[v]
      BY <1>2
<1>6. ASSUME NEW j \in Items
      PROVE  /\ Size(j)' <= overtaken[j] + MayRun(j)'
             /\ Size(j)' + Waiting(j)' <= Size(j) + Waiting(j)
             /\ status'[j] = "failed" <=> status[j] = "failed"
             /\ status'[j] = "absent" => status[j] = "absent"
  <2>0. /\ Size(j) \in Nat /\ Size(j) <= overtaken[j] + MayRun(j) /\ overtaken[j] \in Nat
        /\ MayRun(j) \in {0, 1} /\ Waiting(j) \in {0, 1}
        BY <1>0, RunnersFinite DEF RunnerInv, Size, TypeOK, MayRun, Waiting
  <2>1. CASE status' = status /\ worker'[w].at = "free"
    <3>1. Size(j)' = Size(j)
          BY <1>1, <1>2, <2>1, RunnerFreed DEF Executes
    <3>2. QED BY <2>0, <2>1, <3>1 DEF MayRun, Waiting
  <2>2. CASE /\ status[i] = "leased" /\ status' = [status EXCEPT ![i] = "running"]
             /\ worker'[w].at = "running" /\ worker'[w].item = i
    <3>1. Size(i)' = Size(i) + 1 /\ (j # i => Size(j)' = Size(j))
          BY <1>1, <1>2, <2>2, RunnerJoins
    <3>2. CASE j = i
      <4>0. status[j] = "leased" /\ status'[j] = "running"
            BY <1>0, <1>1, <2>2, <3>2
      <4>1. MayRun(j) = 0 /\ MayRun(j)' = 1 /\ Waiting(j) = 1 /\ Waiting(j)' = 0
            BY <4>0 DEF MayRun, Waiting
      <4>2. QED BY <2>0, <3>1, <3>2, <4>0, <4>1
    <3>3. CASE j # i
      <4>1. status'[j] = status[j]
            BY <1>0, <1>1, <2>2, <3>3
      <4>2. QED BY <2>0, <3>1, <3>3, <4>1 DEF MayRun, Waiting
    <3>4. QED BY <3>2, <3>3
  <2>3. QED BY <1>2, <2>1, <2>2
<1>7. QED BY <1>0, <1>3, <1>4, <1>5, <1>6, Settles

(* A report of success, or a worker that lets its item go.                 *)
LEMMA FreedStep ==
    ASSUME QueueInv, NEW w \in Workers, MarkSucceeded(w) \/ LetGo(w)
    PROVE  QueueInv'
<1>0. /\ TypeOK /\ HoldsItem /\ RunnerInv
      /\ UNCHANGED <<attempts, due, failures, overtaken, starts>>
      /\ status \in [Items -> Status]
      BY DEF QueueInv, MarkSucceeded, LetGo, TypeOK
<1>1. worker[w].at # "free"
      BY DEF MarkSucceeded, LetGo
<1> PICK i \in Items : i = worker[w].item
      BY <1>0, <1>1 DEF HoldsItem
<1>2. /\ worker' \in [Workers -> WorkerType] /\ status' \in [Items -> Status]
      /\ worker'[w].at = "free"
      /\ \A v \in Workers \ {w} : worker'[v] = worker[v]
      /\ \/ /\ status[i] = "running" /\ status' = [status EXCEPT ![i] = "succeeded"]
            /\ Executes(w, i)
         \/ status' = status
  <2>1. CASE MarkSucceeded(w)
        BY <1>0, <1>1, <2>1, GuardedEffect DEF MarkSucceeded, Places, Status, Final, Executes
  <2>2. CASE LetGo(w)
        BY <1>0, <2>2, ReleaseType DEF LetGo
  <2>3. QED BY <2>1, <2>2
<1>3. TypeOK'
      BY <1>0, <1>2 DEF TypeOK, WorkerType
<1>4. HoldsItem'
      BY <1>0, <1>1, <1>2 DEF HoldsItem
<1>5. \A v \in Workers : worker'[v].at = "failing" => worker'[v] = worker[v]
      BY <1>2
<1>6. ASSUME NEW j \in Items
      PROVE  /\ Size(j)' <= overtaken[j] + MayRun(j)'
             /\ Size(j)' + Waiting(j)' <= Size(j) + Waiting(j)
             /\ status'[j] = "failed" <=> status[j] = "failed"
             /\ status'[j] = "absent" => status[j] = "absent"
  <2>0. /\ Size(j) \in Nat /\ Size(j) <= overtaken[j] + MayRun(j) /\ overtaken[j] \in Nat
        /\ MayRun(j) \in {0, 1} /\ Waiting(j) \in {0, 1}
        BY <1>0, RunnersFinite DEF RunnerInv, Size, TypeOK, MayRun, Waiting
  <2>1. /\ Size(j)' = IF Executes(w, j) THEN Size(j) - 1 ELSE Size(j)
        /\ Size(j)' <= Size(j)
        BY <1>2, <2>0, RunnerFreed
  <2>2. CASE status'[j] = status[j]
        BY <2>0, <2>1, <2>2, RunnersFinite DEF MayRun, Waiting
  <2>3. CASE status'[j] # status[j]
    <3>1. /\ j = i /\ status[j] = "running" /\ status'[j] = "succeeded"
          /\ Executes(w, j)
          BY <1>0, <1>2, <2>3
    <3>2. Size(j)' = Size(j) - 1 /\ MayRun(j) = 1 /\ MayRun(j)' = 0 /\ Waiting(j)' = 0
          BY <2>1, <3>1 DEF MayRun, Waiting
    <3>3. QED BY <2>0, <3>1, <3>2
  <2>4. QED BY <2>2, <2>3
<1>7. QED BY <1>0, <1>3, <1>4, <1>5, <1>6, Settles

(* The attempts that are read leave room for every executor there is.      *)
LEMMA ReadStep ==
    ASSUME QueueInv, NEW w \in Workers, ReadAttempts(w)
    PROVE  QueueInv'
<1>0. /\ TypeOK /\ HoldsItem /\ RunnerInv /\ LimitInv /\ CountInv
      /\ UNCHANGED <<status, attempts, due, failures, overtaken, starts>>
      BY DEF QueueInv, ReadAttempts
<1>1. worker[w].at = "running" /\ worker \in [Workers -> WorkerType]
      BY <1>0 DEF ReadAttempts, TypeOK, WorkerType
<1> PICK i \in Items : i = worker[w].item
      BY <1>0, <1>1 DEF HoldsItem
<1>2. attempts[i] \in Nat /\ overtaken[i] \in Nat /\ MaxAttempts \in Nat
      BY <1>0, <1>1, QueueAssumption DEF TypeOK
<1>3. worker' = [worker EXCEPT ![w].at = "failing", ![w].read = attempts[i]]
      BY DEF ReadAttempts
<1>4. /\ worker' \in [Workers -> WorkerType]
      /\ worker'[w].at = "failing" /\ worker'[w].item = i /\ worker'[w].read = attempts[i]
      /\ \A v \in Workers \ {w} : worker'[v] = worker[v]
      BY <1>1, <1>2, <1>3 DEF WorkerType, Places
<1>5. TypeOK'
      BY <1>0, <1>4 DEF TypeOK, WorkerType
<1>6. HoldsItem'
      BY <1>0, <1>1, <1>4 DEF HoldsItem
<1>7. \A j \in Items : Runners(j)' = Runners(j)
      BY <1>1, <1>4, RunnersStay DEF Executes
<1>8. RunnerInv'
      BY <1>0, <1>7 DEF RunnerInv, MayRun
<1>9. attempts[i] + Cardinality(Runners(i)) + Waiting(i) <= MaxAttempts + overtaken[i]
  <2>1. Size(i) \in Nat /\ Size(i) <= overtaken[i] + MayRun(i)
        BY <1>0, <1>1, RunnersFinite DEF RunnerInv, Size
  <2>2. CASE status[i] = "failed"
        BY <1>0, <1>1, <1>2, <2>1, <2>2 DEF LimitInv, Waiting, Size
  <2>3. CASE status[i] # "failed"
    <3>1. attempts[i] < MaxAttempts
          BY <1>0, <1>1, <1>2, <2>3 DEF LimitInv, AttemptsBounded
    <3>2. MayRun(i) + Waiting(i) <= 1 /\ MayRun(i) \in {0, 1} /\ Waiting(i) \in {0, 1}
          BY DEF MayRun, Waiting
    <3>3. attempts[i] + Size(i) + Waiting(i) <= MaxAttempts + overtaken[i]
          BY <1>2, <2>1, <3>1, <3>2
    <3>4. QED BY <3>3 DEF Size
  <2>4. QED BY <2>2, <2>3
<1>10. attempts[i] <= failures[i]
      BY <1>0, <1>1 DEF CountInv, FailuresAreCounted
<1>11. LimitInv'
  <2>1. AttemptsBounded'
        BY <1>0 DEF LimitInv, AttemptsBounded
  <2>2. \A j \in Items : status'[j] = "failed" =>
          attempts'[j] + Cardinality(Runners(j)') <= MaxAttempts + overtaken'[j]
        BY <1>0, <1>7 DEF LimitInv
  <2>3. ASSUME NEW v \in Workers, NEW j \in Items, worker'[v].at = "failing", worker'[v].item = j
        PROVE  worker'[v].read + Cardinality(Runners(j)') + Waiting(j)' <= MaxAttempts + overtaken'[j]
    <3>1. Waiting(j)' = Waiting(j) /\ Runners(j)' = Runners(j) /\ overtaken'[j] = overtaken[j]
          BY <1>0, <1>7 DEF Waiting
    <3>2. CASE v = w
          BY <1>4, <1>9, <2>3, <3>1, <3>2
    <3>3. CASE v # w
      <4>1. worker'[v] = worker[v]
            BY <1>4, <3>3
      <4>2. worker[v].read + Cardinality(Runners(j)) + Waiting(j) <= MaxAttempts + overtaken[j]
            BY <1>0, <2>3, <4>1 DEF LimitInv
      <4>3. QED BY <3>1, <4>1, <4>2
    <3>4. QED BY <3>2, <3>3
  <2>4. QED BY <2>1, <2>2, <2>3 DEF LimitInv
<1>12. CountInv'
      BY <1>0, <1>1, <1>4, <1>10 DEF CountInv, FailuresAreCounted
<1>13. FreshInv'
      BY <1>0 DEF QueueInv, FreshInv
<1>14. QED BY <1>5, <1>6, <1>8, <1>11, <1>12, <1>13 DEF QueueInv

(* What a failure report writes.                                           *)
LEMMA FailedEffect ==
    ASSUME QueueInv, NEW w \in Workers, MarkFailed(w)
    PROVE  LET i == worker[w].item
               n == worker[w].read + 1 IN
           /\ i \in Items /\ Executes(w, i) /\ n \in Nat
           /\ worker' \in [Workers -> WorkerType] /\ worker'[w].at = "free"
           /\ \A v \in Workers \ {w} : worker'[v] = worker[v]
           /\ attempts'[i] = n /\ failures'[i] = failures[i] + 1
           /\ status'[i] = IF n >= MaxAttempts THEN "failed" ELSE "pending"
           /\ \A j \in Items : j # i => /\ status'[j] = status[j] /\ attempts'[j] = attempts[j]
                                      /\ failures'[j] = failures[j]
           /\ overtaken' = overtaken
           /\ TypeOK'
<1> DEFINE i == worker[w].item
           n == worker[w].read + 1
<1>0. TypeOK /\ HoldsItem
      BY DEF QueueInv
<1>1. worker[w].at = "failing" /\ i \in Items /\ n \in Nat
      BY <1>0 DEF MarkFailed, HoldsItem, TypeOK
<1>2. Executes(w, i)
      BY <1>1 DEF Executes
<1>3. /\ status' = [status EXCEPT ![i] = IF n >= MaxAttempts THEN "failed" ELSE "pending"]
      /\ attempts' = [attempts EXCEPT ![i] = n]
      /\ due' = [due EXCEPT ![i] = FALSE]
      /\ failures' = [failures EXCEPT ![i] = @ + 1]
      /\ worker' = [worker EXCEPT ![w] = Free]
      /\ UNCHANGED <<overtaken, starts>>
      BY DEF MarkFailed, Count, LimitReached
<1>4. /\ worker' \in [Workers -> WorkerType] /\ worker'[w].at = "free"
      /\ \A v \in Workers \ {w} : worker'[v] = worker[v]
      BY <1>0, <1>3, ReleaseType
<1> HIDE DEF n
<1>5. /\ status \in [Items -> Status] /\ attempts \in [Items -> Nat]
      /\ failures \in [Items -> Nat] /\ due \in [Items -> BOOLEAN]
      BY <1>0 DEF TypeOK
<1>6. attempts'[i] = n /\ failures'[i] = failures[i] + 1
      BY <1>1, <1>3, <1>5
<1>7. status'[i] = IF n >= MaxAttempts THEN "failed" ELSE "pending"
      BY <1>1, <1>3, <1>5
<1>8. \A j \in Items : j # i => /\ status'[j] = status[j] /\ attempts'[j] = attempts[j]
                                /\ failures'[j] = failures[j]
      BY <1>3, <1>5
<1>9. TypeOK'
  <2>1. status' \in [Items -> Status]
        BY <1>3, <1>5 DEF Status, Final
  <2>2. attempts' \in [Items -> Nat] /\ failures' \in [Items -> Nat] /\ due' \in [Items -> BOOLEAN]
        BY <1>1, <1>3, <1>5
  <2>3. QED BY <1>0, <1>3, <1>4, <2>1, <2>2 DEF TypeOK, WorkerType
<1>10. QED BY <1>1, <1>2, <1>3, <1>4, <1>6, <1>7, <1>8, <1>9 DEF n

LEMMA FailedStep ==
    ASSUME QueueInv, NEW w \in Workers, MarkFailed(w)
    PROVE  QueueInv'
<1> DEFINE n == worker[w].read + 1
<1>0. /\ TypeOK /\ HoldsItem /\ RunnerInv /\ LimitInv /\ CountInv
      /\ MaxAttempts \in Nat /\ attempts \in [Items -> Nat] /\ failures \in [Items -> Nat]
      /\ overtaken \in [Items -> Nat]
      BY QueueAssumption DEF QueueInv, TypeOK
<1> PICK i \in Items : i = worker[w].item
      BY FailedEffect
<1>1. /\ Executes(w, i) /\ n \in Nat
      /\ worker' \in [Workers -> WorkerType] /\ worker'[w].at = "free"
      /\ \A v \in Workers \ {w} : worker'[v] = worker[v]
      /\ overtaken' = overtaken /\ TypeOK'
      BY FailedEffect
<1>2. /\ attempts'[i] = n /\ failures'[i] = failures[i] + 1
      /\ status'[i] = IF n >= MaxAttempts THEN "failed" ELSE "pending"
      BY FailedEffect
<1>3. \A j \in Items : j # i => /\ status'[j] = status[j] /\ attempts'[j] = attempts[j]
                                /\ failures'[j] = failures[j]
      BY FailedEffect
<1>4. worker[w].at = "failing" /\ worker[w].read \in Nat
      BY <1>0 DEF MarkFailed, TypeOK
<1>5. HoldsItem'
      BY <1>0, <1>1 DEF HoldsItem
<1>6. /\ Size(i) \in Nat /\ Size(i) >= 1 /\ Size(i)' \in Nat /\ Size(i)' = Size(i) - 1
      /\ \A j \in Items : j # i => Size(j)' = Size(j)
  <2>1. \A j \in Items : j # i => ~Executes(w, j)
        BY <1>1 DEF Executes
  <2>2. QED BY <1>1, <2>1, RunnersFinite, RunnerFreed
<1>7. /\ worker[w].read + Size(i) + Waiting(i) <= MaxAttempts + overtaken[i]
      /\ worker[w].read <= failures[i]
      /\ overtaken[i] = 0 => worker[w].read = attempts[i]
      BY <1>0, <1>1, <1>4 DEF LimitInv, CountInv, Size
<1>8. /\ Waiting(i) \in {0, 1} /\ MayRun(i) \in {0, 1} /\ MayRun(i)' = 0
      /\ Waiting(i)' \in {0, 1} /\ (status'[i] = "failed" => Waiting(i)' = 0)
      /\ status'[i] = "failed" <=> n >= MaxAttempts
      BY <1>2 DEF Waiting, MayRun
<1>9. Size(i) <= overtaken[i] + MayRun(i)
      BY <1>0, <1>1 DEF RunnerInv, Size
<1>10. n + Size(i)' <= MaxAttempts + overtaken[i]
  <2>1. worker[w].read + 1 + Size(i)' <= MaxAttempts + overtaken[i]
        BY <1>0, <1>1, <1>4, <1>6, <1>7, <1>8
  <2>2. QED BY <2>1
<1> HIDE DEF n
<1>11. ASSUME NEW j \in Items
       PROVE  /\ Cardinality(Runners(j)') <= overtaken'[j] + MayRun(j)'
              /\ attempts'[j] >= MaxAttempts <=> status'[j] = "failed"
              /\ attempts'[j] <= MaxAttempts + overtaken'[j]
              /\ status'[j] = "failed" =>
                   attempts'[j] + Cardinality(Runners(j)') <= MaxAttempts + overtaken'[j]
  <2>1. CASE j = i
    <3>1. Size(i)' <= overtaken[i]
          BY <1>0, <1>1, <1>6, <1>8, <1>9
    <3>2. n <= MaxAttempts + overtaken[i]
          BY <1>0, <1>1, <1>6, <1>10
    <3>3. QED BY <1>0, <1>1, <1>2, <1>6, <1>8, <1>10, <2>1, <3>1, <3>2 DEF Size
  <2>2. CASE j # i
    <3>1. /\ Cardinality(Runners(j)') = Cardinality(Runners(j)) /\ MayRun(j)' = MayRun(j)
          /\ status'[j] = status[j] /\ attempts'[j] = attempts[j] /\ overtaken'[j] = overtaken[j]
          BY <1>1, <1>3, <1>6, <2>2 DEF Size, MayRun
    <3>2. QED BY <1>0, <3>1 DEF RunnerInv, LimitInv, AttemptsBounded
  <2>3. QED BY <2>1, <2>2
<1>12. ASSUME NEW j \in Items
       PROVE  /\ attempts'[j] <= failures'[j]
              /\ overtaken'[j] = 0 => attempts'[j] = failures'[j]
  <2>1. CASE j = i
    <3>1. attempts[i] \in Nat /\ failures[i] \in Nat
          BY <1>0, <1>1
    <3>2. overtaken[i] = 0 => attempts[i] = failures[i]
          BY <1>0, <1>1 DEF CountInv, FailuresAreCounted
    <3>3. n <= failures[i] + 1 /\ (overtaken[i] = 0 => n = failures[i] + 1)
          BY <1>4, <1>7, <3>1, <3>2 DEF n
    <3>4. QED BY <1>1, <1>2, <2>1, <3>3
  <2>2. CASE j # i
        BY <1>0, <1>1, <1>3, <2>2 DEF CountInv, FailuresAreCounted
  <2>3. QED BY <2>1, <2>2
<1>13. ASSUME NEW v \in Workers, NEW j \in Items, worker'[v].at = "failing", worker'[v].item = j
       PROVE  /\ worker'[v].read + Cardinality(Runners(j)') + Waiting(j)' <= MaxAttempts + overtaken'[j]
              /\ worker'[v].read <= failures'[j]
              /\ overtaken'[j] = 0 => worker'[v].read = attempts'[j]
  <2>1. v # w /\ worker'[v] = worker[v] /\ worker[v].read \in Nat
        BY <1>0, <1>1, <1>13 DEF TypeOK
  <2>2. /\ worker[v].read + Size(j) + Waiting(j) <= MaxAttempts + overtaken[j]
        /\ worker[v].read <= failures[j]
        /\ overtaken[j] = 0 => worker[v].read = attempts[j]
        BY <1>0, <1>13, <2>1 DEF LimitInv, CountInv, Size
  <2>3. CASE j # i
    <3>1. Waiting(j)' = Waiting(j)
          BY <1>3, <2>3 DEF Waiting
    <3>2. worker'[v].read + Size(j)' + Waiting(j)' <= MaxAttempts + overtaken'[j]
          BY <1>1, <1>6, <2>1, <2>2, <2>3, <3>1
    <3>3. QED BY <1>1, <1>3, <2>1, <2>2, <2>3, <3>2 DEF Size
  <2>4. CASE j = i
    <3>1. worker[v].read + Size(i)' + Waiting(i)' <= MaxAttempts + overtaken[i]
          BY <1>0, <1>1, <1>6, <1>8, <2>1, <2>2, <2>4
    <3>2. worker[v].read <= failures[i] + 1
          BY <1>0, <1>1, <2>1, <2>2, <2>4
    <3>3. overtaken[i] # 0
      <4>1. Executes(v, i)
            BY <1>13, <2>1, <2>4 DEF Executes
      <4>2. w \in Runners(i) /\ v \in Runners(i)
            BY <1>1, <4>1 DEF Runners
      <4>3. v \in Runners(i) \ {w}
            BY <2>1, <4>2
      <4>4. Cardinality(Runners(i) \ {w}) # 0
            BY <4>3, RunnersFinite, FS_RemoveElement, FS_EmptySet
      <4>5. Size(i) - 1 # 0
            BY <4>2, <4>4, RunnersFinite, FS_RemoveElement DEF Size
      <4>6. QED BY <1>0, <1>1, <1>6, <1>8, <1>9, <4>5
    <3>4. QED BY <1>1, <1>2, <2>1, <2>4, <3>1, <3>2, <3>3 DEF Size
  <2>5. QED BY <2>3, <2>4
<1>14. RunnerInv'
      BY <1>11 DEF RunnerInv
<1>15. LimitInv'
      BY <1>11, <1>13 DEF LimitInv, AttemptsBounded
<1>16. CountInv'
      BY <1>12, <1>13 DEF CountInv, FailuresAreCounted
<1>17. FreshInv'
  <2>1. status'[i] # "absent"
        BY <1>2
  <2>2. QED BY <1>1, <1>3, <2>1 DEF QueueInv, FreshInv
<1>18. QED BY <1>1, <1>5, <1>14, <1>15, <1>16, <1>17 DEF QueueInv

(* A recovery from under a worker opens the item, and is counted.          *)
LEMMA StartStep ==
    ASSUME QueueInv, Start
    PROVE  QueueInv'
<1>0. /\ TypeOK /\ HoldsItem /\ RunnerInv /\ LimitInv /\ CountInv
      /\ UNCHANGED <<attempts, due, worker, failures>>
      /\ MaxAttempts \in Nat /\ attempts \in [Items -> Nat] /\ overtaken \in [Items -> Nat]
      /\ failures \in [Items -> Nat]
      BY QueueAssumption DEF QueueInv, Start, TypeOK
<1>1. TypeOK'
  <2>1. status' \in [Items -> Status]
        BY <1>0 DEF Start, Recover, TypeOK, Status
  <2>2. overtaken' \in [Items -> Nat] /\ starts' \in 0..MaxStarts
        BY <1>0, QueueAssumption DEF Start, TypeOK
  <2>3. QED BY <1>0, <2>1, <2>2 DEF TypeOK
<1>2. HoldsItem'
      BY <1>0 DEF HoldsItem
<1>3. \A i \in Items : Runners(i)' = Runners(i) /\ Size(i)' = Size(i)
      BY <1>0, RunnersStay DEF Executes
<1>4. ASSUME NEW i \in Items
      PROVE  /\ status'[i] = "failed" <=> status[i] = "failed"
             /\ overtaken[i] <= overtaken'[i]
             /\ Size(i) <= overtaken'[i] + MayRun(i)'
             /\ Size(i) >= 1 => overtaken[i] + Waiting(i)' <= overtaken'[i] + Waiting(i)
  <2>1. /\ status'[i] = Recover(status[i])
        /\ overtaken'[i] = IF status[i] = "running" /\ Runners(i) # {} THEN overtaken[i] + 1
                                                                       ELSE overtaken[i]
        BY DEF Start
  <2>2. /\ Size(i) \in Nat /\ overtaken[i] \in Nat /\ Size(i) <= overtaken[i] + MayRun(i)
        /\ Size(i) = 0 <=> Runners(i) = {}
        BY <1>0, RunnersFinite, FS_EmptySet DEF RunnerInv, Size
  <2>3. CASE status[i] = "running"
    <3>1. /\ status'[i] = "pending" /\ MayRun(i) = 1 /\ MayRun(i)' = 0
          /\ Waiting(i) = 0 /\ Waiting(i)' = 1
          BY <2>1, <2>3 DEF Recover, MayRun, Waiting
    <3>2. QED BY <2>1, <2>2, <2>3, <3>1
  <2>4. CASE status[i] # "running"
    <3>1. status'[i] = status[i] /\ overtaken'[i] = overtaken[i]
          BY <2>1, <2>4 DEF Recover
    <3>2. MayRun(i)' = MayRun(i) /\ Waiting(i)' = Waiting(i) /\ Waiting(i) \in {0, 1}
          BY <3>1 DEF MayRun, Waiting
    <3>3. QED BY <2>2, <3>1, <3>2
  <2>5. QED BY <2>3, <2>4
<1>5. overtaken' \in [Items -> Nat]
      BY <1>1 DEF TypeOK
<1>6. RunnerInv'
      BY <1>3, <1>4 DEF RunnerInv, Size
<1>7. ASSUME NEW i \in Items
      PROVE  /\ attempts'[i] >= MaxAttempts <=> status'[i] = "failed"
             /\ attempts'[i] <= MaxAttempts + overtaken'[i]
             /\ status'[i] = "failed" =>
                  attempts'[i] + Cardinality(Runners(i)') <= MaxAttempts + overtaken'[i]
  <2>1. /\ attempts[i] >= MaxAttempts <=> status[i] = "failed"
        /\ attempts[i] <= MaxAttempts + overtaken[i]
        /\ status[i] = "failed" => attempts[i] + Size(i) <= MaxAttempts + overtaken[i]
        BY <1>0 DEF LimitInv, AttemptsBounded, Size
  <2>2. /\ status'[i] = "failed" <=> status[i] = "failed"
        /\ overtaken[i] <= overtaken'[i]
        BY <1>4
  <2>3. overtaken[i] \in Nat /\ overtaken'[i] \in Nat /\ attempts[i] \in Nat /\ Size(i) \in Nat
        BY <1>0, <1>5, RunnersFinite
  <2>4. QED BY <1>0, <1>3, <2>1, <2>2, <2>3 DEF Size
<1>8. ASSUME NEW v \in Workers, NEW i \in Items, worker'[v].at = "failing", worker'[v].item = i
      PROVE  worker'[v].read + Cardinality(Runners(i)') + Waiting(i)' <= MaxAttempts + overtaken'[i]
  <2>1. worker'[v] = worker[v] /\ worker[v].read \in Nat
        BY <1>0 DEF TypeOK
  <2>2. Executes(v, i)
        BY <1>8, <2>1 DEF Executes
  <2>3. worker[v].read + Size(i) + Waiting(i) <= MaxAttempts + overtaken[i]
        BY <1>0, <1>8, <2>1 DEF LimitInv, Size
  <2>4. overtaken[i] + Waiting(i)' <= overtaken'[i] + Waiting(i) /\ Size(i) \in Nat
        BY <1>4, <2>2, ExecutorCounted
  <2>5. Waiting(i) \in {0, 1} /\ Waiting(i)' \in {0, 1}
        BY DEF Waiting
  <2>6. worker[v].read + Size(i) + Waiting(i)' <= MaxAttempts + overtaken'[i]
        BY <1>0, <1>5, <2>1, <2>3, <2>4, <2>5
  <2>7. QED BY <1>3, <2>1, <2>6 DEF Size
<1>9. LimitInv'
      BY <1>7, <1>8 DEF LimitInv, AttemptsBounded
<1>10. CountInv'
  <2>1. \A i \in Items : overtaken'[i] = 0 => overtaken[i] = 0
        BY <1>0, <1>4, <1>5
  <2>2. QED BY <1>0, <2>1 DEF CountInv, FailuresAreCounted
<1>11. FreshInv'
      BY DEF QueueInv, FreshInv, Start, Recover
<1>12. QED BY <1>1, <1>2, <1>6, <1>9, <1>10, <1>11 DEF QueueInv

LEMMA QueueStep == QueueInv /\ [Next]_vars => QueueInv'
<1> SUFFICES ASSUME QueueInv, [Next]_vars PROVE QueueInv'
    OBVIOUS
<1>1. CASE \E i \in Items : Enqueue(i) \/ ComesDue(i) \/ Cancel(i)
      BY <1>1, TableStep
<1>2. CASE \E w \in Workers : Work(w)
      BY <1>2, TakeStep, RunningStep, FreedStep, ReadStep, FailedStep DEF Work
<1>3. CASE Start
      BY <1>3, StartStep
<1>4. CASE UNCHANGED vars
      BY <1>4 DEF vars, QueueInv, TypeOK, HoldsItem, FreshInv, RunnerInv, LimitInv, CountInv,
                  Runners, Executes, MayRun, Waiting, AttemptsBounded, FailuresAreCounted
<1>5. QED BY <1>1, <1>2, <1>3, <1>4 DEF Next

(* A lease handed out twice, a count written back, a recovery from under a *)
(* worker between any two statements: an item has at most one executor     *)
(* more than it was overtaken, and every executor that is left can take    *)
(* the attempts one further at most (worker.py:83, 103, 126).              *)
THEOREM QueueInvariant == Spec => []QueueInv
BY QueueInit, QueueStep, PTL DEF Spec

-----------------------------------------------------------------------------
(* One worker executes an item, although lease_next() may hand it to       *)
(* several (worker.py:83), and one more for each time a start took it away *)
(* from a worker (worker.py:126).                                          *)
THEOREM ExecutorsAreBounded == Spec => []RunnersBounded
<1>1. QueueInv => RunnersBounded
  <2> SUFFICES ASSUME QueueInv, NEW i \in Items
               PROVE  Cardinality(Runners(i)) <= 1 + overtaken[i]
      BY DEF RunnersBounded
  <2>1. Size(i) \in Nat /\ Size(i) <= overtaken[i] + MayRun(i) /\ overtaken[i] \in Nat
        BY RunnersFinite DEF QueueInv, RunnerInv, TypeOK, Size
  <2>2. MayRun(i) \in {0, 1}
        BY DEF MayRun
  <2>3. Size(i) <= 1 + overtaken[i]
        BY <2>1, <2>2
  <2>4. QED BY <2>3 DEF Size
<1>2. QED BY <1>1, QueueInvariant, PTL

(* No failure is counted twice, and none is lost while the item has one    *)
(* executor (worker.py:103).                                               *)
THEOREM EveryFailureCounts == Spec => []FailuresAreCounted
<1>1. QueueInv => FailuresAreCounted
      BY DEF QueueInv, CountInv
<1>2. QED BY <1>1, QueueInvariant, PTL

(* An item has failed exactly when its attempts are used up, and has not   *)
(* been run past the limit more often than it was overtaken (worker.py:103). *)
THEOREM AttemptsAreBounded == Spec => []AttemptsBounded
<1>1. QueueInv => AttemptsBounded
      BY DEF QueueInv, LimitInv
<1>2. QED BY <1>1, QueueInvariant, PTL

(* Of an item that was not overtaken there is one executor, which finds it *)
(* RUNNING or cancelled since, and with an attempt left.                   *)
LEMMA Undisputed ==
    ASSUME QueueInv, NEW w \in Workers, NEW i \in Items, Executes(w, i), overtaken[i] = 0
    PROVE  /\ status[i] \in {"running", "cancelled"}
           /\ Runners(i) = {w}
           /\ attempts[i] \in Nat /\ attempts[i] < MaxAttempts
           /\ worker[w].at = "failing" => worker[w].read = attempts[i]
<1>0. /\ TypeOK /\ RunnerInv /\ LimitInv /\ CountInv /\ attempts[i] \in Nat
      /\ MaxAttempts \in Nat
      BY QueueAssumption DEF QueueInv, TypeOK
<1>1. Size(i) \in Nat /\ Size(i) >= 1
      BY ExecutorCounted
<1>2. Size(i) <= MayRun(i)
      BY <1>0, <1>1 DEF RunnerInv, Size, MayRun
<1>3. status[i] \in {"running", "cancelled"} /\ MayRun(i) = 1
      BY <1>1, <1>2 DEF MayRun
<1>4. Size(i) = 1
      BY <1>1, <1>2, <1>3
<1>5. \E x : Runners(i) = {x}
      BY <1>4, RunnersFinite, FS_Singleton DEF Size
<1>6. w \in Runners(i)
      BY DEF Runners
<1>7. Runners(i) = {w}
      BY <1>5, <1>6
<1>8. attempts[i] < MaxAttempts
      BY <1>0, <1>3 DEF LimitInv, AttemptsBounded
<1>9. worker[w].at = "failing" => worker[w].read = attempts[i]
      BY <1>0 DEF CountInv, Executes
<1>10. QED BY <1>0, <1>3, <1>7, <1>8, <1>9

(* A SUCCEEDED or FAILED item stays as it is until it is overtaken,        *)
(* although mark_failed() writes by id alone (worker.py:103).              *)
THEOREM FinishedStays == Spec => FinishedIsFinal
<1>1. QueueInv /\ [Next]_vars =>
        [\A i \in Items : status[i] \in {"succeeded", "failed"} /\ overtaken[i] = 0 =>
            status'[i] = status[i]]_vars
  <2> SUFFICES ASSUME QueueInv, [Next]_vars, NEW i \in Items,
                      status[i] \in {"succeeded", "failed"}, overtaken[i] = 0
               PROVE  status'[i] = status[i]
      OBVIOUS
  <2>0. status \in [Items -> Status] /\ TypeOK /\ HoldsItem
        BY DEF QueueInv, TypeOK
  <2>1. CASE \E j \in Items : Enqueue(j) \/ ComesDue(j) \/ Cancel(j)
        BY <2>0, <2>1 DEF Enqueue, ComesDue, Cancel, Final
  <2>2. ASSUME NEW w \in Workers, Select(w) \/ Lease(w) \/ ReadAttempts(w) \/ LetGo(w)
        PROVE  status'[i] = status[i]
        BY <2>0, <2>2 DEF Select, Lease, ReadAttempts, LetGo
  <2>3. ASSUME NEW w \in Workers, MarkRunning(w) \/ MarkSucceeded(w)
        PROVE  status'[i] = status[i]
    <3>1. \/ status' = status
          \/ /\ status[worker[w].item] \in {"leased", "running"}
             /\ \E to \in Status : status' = [status EXCEPT ![worker[w].item] = to]
          BY <2>3 DEF MarkRunning, MarkSucceeded, Guarded, Status, Final
    <3>2. QED BY <2>0, <3>1
  <2>4. ASSUME NEW w \in Workers, MarkFailed(w)
        PROVE  status'[i] = status[i]
    <3>1. Executes(w, worker[w].item)
          BY <2>4, FailedEffect
    <3>2. i # worker[w].item
          BY <3>1, Undisputed
    <3>3. QED BY <2>4, <3>2, FailedEffect
  <2>5. CASE Start
        BY <2>5 DEF Start, Recover
  <2>6. CASE UNCHANGED vars
        BY <2>6 DEF vars
  <2>7. QED BY <2>1, <2>2, <2>3, <2>4, <2>5, <2>6 DEF Next, Work
<1>2. QED BY <1>1, QueueInvariant, PTL DEF Spec, FinishedIsFinal

-----------------------------------------------------------------------------
(* The refinement of AtomicQueue.                                          *)
LEMMA StateUpdate ==
    ASSUME TypeOK, NEW i \in Items, NEW s, status' = [status EXCEPT ![i] = s],
           overtaken' = overtaken
    PROVE  State' = IF overtaken[i] = 0 THEN [State EXCEPT ![i] = Shown(s)] ELSE State
<1>1. status \in [Items -> Status] /\ overtaken \in [Items -> Nat]
      BY DEF TypeOK
<1>2. CASE overtaken[i] = 0
  <2>1. State'[i] = Shown(s)
        BY <1>1, <1>2 DEF State
  <2>2. \A j \in Items : j # i => State'[j] = State[j]
        BY <1>1 DEF State
  <2>3. State' = [j \in Items |-> IF j = i THEN Shown(s) ELSE State[j]]
        BY <2>1, <2>2 DEF State
  <2>4. QED BY <1>2, <2>3 DEF State
<1>3. CASE overtaken[i] # 0
  <2>1. overtaken[i] > 0
        BY <1>1, <1>3
  <2>2. \A j \in Items : State'[j] = State[j]
        BY <1>1, <2>1 DEF State
  <2>3. QED BY <1>3, <2>2 DEF State
<1>4. QED BY <1>2, <1>3

LEMMA SameInHand ==
    ASSUME \A i \in Items : Runners(i)' = Runners(i), overtaken' = overtaken
    PROVE  InHand' = InHand
BY DEF InHand

LEMMA SameTries ==
    ASSUME UNCHANGED <<attempts, overtaken>>
    PROVE  Tries' = Tries
BY DEF Tries

(* A worker that lets go of an item that was not overtaken was the only    *)
(* one to have it.                                                         *)
LEMMA LetsGo ==
    ASSUME QueueInv, NEW w \in Workers, NEW i \in Items, overtaken' = overtaken,
           worker[w].at # "free" => worker[w].item = i,
           worker'[w].at = "free", \A v \in Workers \ {w} : worker'[v] = worker[v]
    PROVE  /\ Executes(w, i) /\ overtaken[i] = 0 => i \in InHand /\ InHand' = InHand \ {i}
           /\ ~Executes(w, i) \/ overtaken[i] # 0 => InHand' = InHand
<1>1. \A j \in Items : Runners(j)' = Runners(j) \ {w} /\ (w \in Runners(j) => j = i)
      BY RunnerFreed DEF Runners, Executes
<1>2. w \in Runners(i) <=> Executes(w, i)
      BY DEF Runners
<1>3. CASE Executes(w, i) /\ overtaken[i] = 0
  <2>1. Runners(i) = {w}
        BY <1>3, Undisputed
  <2>2. QED BY <1>1, <1>3, <2>1 DEF InHand
<1>4. CASE ~Executes(w, i) \/ overtaken[i] # 0
  <2>0. \A j \in Items : overtaken[j] = 0 => w \notin Runners(j)
        BY <1>1, <1>2, <1>4
  <2>1. \A j \in Items : overtaken[j] = 0 => Runners(j)' = Runners(j)
        BY <1>1, <2>0
  <2>2. QED BY <1>4, <2>1 DEF InHand
<1>5. QED BY <1>3, <1>4

LEMMA TableImplements ==
    ASSUME QueueInv, NEW i \in Items, Enqueue(i) \/ ComesDue(i) \/ Cancel(i)
    PROVE  Atomic!Next \/ UNCHANGED <<State, InHand, Tries>>
<1>0. TypeOK /\ status[i] \in Status /\ UNCHANGED <<attempts, worker, overtaken>>
      BY DEF QueueInv, TypeOK, Enqueue, ComesDue, Cancel
<1>1. InHand' = InHand /\ Tries' = Tries
      BY <1>0, SameInHand, SameTries DEF Runners, Executes
<1>2. CASE Enqueue(i)
  <2>0. status' = [status EXCEPT ![i] = "pending"] /\ Shown("pending") = "open"
        BY <1>2 DEF Enqueue, Shown
  <2>1. State' = State \/ State' = [State EXCEPT ![i] = "open"]
        BY <1>0, <2>0, StateUpdate
  <2>2. \A j \in Items : State[j] # "absent" => Key[j] # Key[i]
    <3>1. SUFFICES ASSUME NEW j \in Items, status[j] = "absent"
                   PROVE  State[j] = "absent"
          BY <1>2 DEF Enqueue
    <3>2. overtaken[j] = 0
          BY <3>1 DEF QueueInv, FreshInv
    <3>3. QED BY <3>1, <3>2 DEF State, Shown
  <2>3. Atomic!Add(i) \/ State' = State
        BY <1>0, <1>1, <2>1, <2>2 DEF Atomic!Add, Atomic!Decide
  <2>4. QED BY <1>1, <2>3 DEF Atomic!Next
<1>3. CASE ComesDue(i)
      BY <1>0, <1>1, <1>3 DEF ComesDue, State
<1>4. CASE Cancel(i)
  <2>0. status' = [status EXCEPT ![i] = "cancelled"] /\ Shown("cancelled") = "cancelled"
        BY <1>4 DEF Cancel, Shown
  <2>1. CASE overtaken[i] # 0
        BY <1>0, <1>1, <2>0, <2>1, StateUpdate
  <2>2. CASE overtaken[i] = 0
    <3>1. State' = [State EXCEPT ![i] = "cancelled"]
          BY <1>0, <2>0, <2>2, StateUpdate
    <3>2. State[i] = "open"
          BY <1>0, <1>4, <2>2 DEF Cancel, State, Shown, Status, Final
    <3>3. Atomic!Cancel(i)
          BY <1>0, <1>1, <3>1, <3>2 DEF Atomic!Cancel, Atomic!Decide
    <3>4. QED BY <3>3 DEF Atomic!Next
  <2>3. QED BY <2>1, <2>2
<1>5. QED BY <1>2, <1>3, <1>4

(* Until mark_running() an item stays open in the table, whoever holds it. *)
LEMMA LeaseStutters ==
    ASSUME QueueInv, NEW w \in Workers, Select(w) \/ Lease(w) \/ ReadAttempts(w)
    PROVE  UNCHANGED <<State, InHand, Tries>>
<1>0. /\ TypeOK /\ HoldsItem /\ worker \in [Workers -> WorkerType]
      /\ UNCHANGED <<attempts, overtaken>> /\ Tries' = Tries
      BY SameTries DEF QueueInv, TypeOK, WorkerType, Select, Lease, ReadAttempts
<1>1. CASE Select(w) \/ Lease(w)
  <2>1. PICK i \in Items, at \in {"selected", "held"} : Moves(w, at, i)
        BY <1>0, <1>1 DEF Select, Ready, Lease, HoldsItem
  <2>2. /\ worker'[w].at = at
        /\ \A v \in Workers \ {w} : worker'[v] = worker[v]
        BY <1>0, <2>1, MovesType DEF Places
  <2>3. worker[w].at \in {"free", "selected"}
        BY <1>1 DEF Select, Lease
  <2>4. InHand' = InHand
        BY <1>0, <2>2, <2>3, RunnersStay, SameInHand DEF Executes
  <2>5. State' = State
    <3>1. CASE Select(w)
          BY <1>0, <3>1 DEF Select, State
    <3>2. CASE Lease(w)
      <4>1. \A j \in Items : Shown(status'[j]) = Shown(status[j])
            BY <1>0, <3>2 DEF Lease, Shown, TypeOK
      <4>2. QED BY <1>0, <4>1 DEF State
    <3>3. QED BY <1>1, <3>1, <3>2
  <2>6. QED BY <1>0, <2>4, <2>5
<1>2. CASE ReadAttempts(w)
  <2>1. \A v \in Workers, i \in Items : Executes(v, i)' <=> Executes(v, i)
        BY <1>0, <1>2 DEF ReadAttempts, Executes, WorkerType
  <2>2. InHand' = InHand
        BY <1>0, <2>1, RunnersStay, SameInHand
  <2>3. State' = State
        BY <1>0, <1>2 DEF ReadAttempts, State
  <2>4. QED BY <1>0, <2>2, <2>3
<1>3. QED BY <1>1, <1>2

LEMMA RunningImplements ==
    ASSUME QueueInv, NEW w \in Workers, MarkRunning(w)
    PROVE  Atomic!Next \/ UNCHANGED <<State, InHand, Tries>>
<1>0. /\ TypeOK /\ HoldsItem /\ RunnerInv
      /\ UNCHANGED <<attempts, overtaken>> /\ Tries' = Tries
      BY SameTries DEF QueueInv, MarkRunning
<1>1. worker[w].at = "held"
      BY DEF MarkRunning
<1> PICK i \in Items : i = worker[w].item
      BY <1>0, <1>1 DEF HoldsItem
<1>2. /\ \A v \in Workers \ {w} : worker'[v] = worker[v]
      /\ \/ /\ status[i] = "leased" /\ status' = [status EXCEPT ![i] = "running"]
            /\ worker'[w].at = "running" /\ worker'[w].item = i
         \/ status' = status /\ worker'[w].at = "free"
      BY <1>0, <1>1, GuardedEffect DEF MarkRunning, Places, Status
<1>3. ~Executes(w, i)
      BY <1>1 DEF Executes
<1>4. CASE status' = status /\ worker'[w].at = "free"
  <2>1. InHand' = InHand
        BY <1>0, <1>2, <1>3, <1>4, LetsGo
  <2>2. State' = State
        BY <1>0, <1>4 DEF State
  <2>3. QED BY <1>0, <2>1, <2>2
<1>5. CASE /\ status[i] = "leased" /\ status' = [status EXCEPT ![i] = "running"]
           /\ worker'[w].at = "running" /\ worker'[w].item = i
  <2>1. /\ Runners(i)' = Runners(i) \cup {w}
        /\ \A j \in Items \ {i} : Runners(j)' = Runners(j)
        BY <1>1, <1>2, <1>5, RunnerJoins
  <2>2. State' = State
    <3>1. \A j \in Items : Shown(status'[j]) = Shown(status[j])
          BY <1>0, <1>5 DEF Shown, TypeOK
    <3>2. QED BY <1>0, <3>1 DEF State
  <2>3. CASE overtaken[i] # 0
    <3>1. InHand' = InHand
          BY <1>0, <2>1, <2>3 DEF InHand
    <3>2. QED BY <1>0, <2>2, <3>1
  <2>4. CASE overtaken[i] = 0
    <3>1. \A v \in Workers : ~Executes(v, i)
          BY <1>5, <2>4, Undisputed
    <3>2. Runners(i) = {}
          BY <3>1 DEF Runners
    <3>3. i \notin InHand /\ InHand' = InHand \cup {i}
          BY <1>0, <2>1, <2>4, <3>2 DEF InHand
    <3>4. State[i] = "open"
          BY <1>5, <2>4 DEF State, Shown
    <3>5. Atomic!Take(i)
          BY <1>0, <2>2, <3>3, <3>4 DEF Atomic!Take
    <3>6. QED BY <3>5 DEF Atomic!Next
  <2>5. QED BY <2>3, <2>4
<1>6. QED BY <1>2, <1>4, <1>5

LEMMA FreedImplements ==
    ASSUME QueueInv, NEW w \in Workers, MarkSucceeded(w) \/ LetGo(w)
    PROVE  Atomic!Next \/ UNCHANGED <<State, InHand, Tries>>
<1>0. /\ TypeOK /\ HoldsItem
      /\ UNCHANGED <<attempts, overtaken>> /\ Tries' = Tries
      BY SameTries DEF QueueInv, MarkSucceeded, LetGo
<1>1. worker[w].at # "free"
      BY DEF MarkSucceeded, LetGo
<1> PICK i \in Items : i = worker[w].item
      BY <1>0, <1>1 DEF HoldsItem
<1>2. /\ worker'[w].at = "free"
      /\ \A v \in Workers \ {w} : worker'[v] = worker[v]
      /\ \/ /\ status[i] = "running" /\ status' = [status EXCEPT ![i] = "succeeded"]
            /\ Executes(w, i)
         \/ status' = status
  <2>1. CASE MarkSucceeded(w)
        BY <1>0, <1>1, <2>1, GuardedEffect DEF MarkSucceeded, Places, Status, Final, Executes
  <2>2. CASE LetGo(w)
        BY <1>0, <2>2, ReleaseType DEF LetGo
  <2>3. QED BY <2>1, <2>2
<1>3. /\ Executes(w, i) /\ overtaken[i] = 0 => i \in InHand /\ InHand' = InHand \ {i}
      /\ ~Executes(w, i) \/ overtaken[i] # 0 => InHand' = InHand
      BY <1>0, <1>2, LetsGo
<1>4. CASE status' = status
  <2>1. State' = State
        BY <1>0, <1>4 DEF State
  <2>2. CASE Executes(w, i) /\ overtaken[i] = 0
        BY <1>0, <1>3, <2>1, <2>2 DEF Atomic!Drop, Atomic!Next
  <2>3. CASE ~Executes(w, i) \/ overtaken[i] # 0
        BY <1>0, <1>3, <2>1, <2>3
  <2>4. QED BY <2>2, <2>3
<1>5. CASE /\ status[i] = "running" /\ status' = [status EXCEPT ![i] = "succeeded"]
           /\ Executes(w, i)
  <2>0. Shown("succeeded") = "succeeded"
        BY DEF Shown
  <2>1. CASE overtaken[i] = 0
    <3>1. State' = [State EXCEPT ![i] = "succeeded"]
          BY <1>0, <1>5, <2>0, <2>1, StateUpdate
    <3>2. State[i] = "open"
          BY <1>5, <2>1 DEF State, Shown
    <3>3. Atomic!Succeed(i)
          BY <1>0, <1>3, <1>5, <2>1, <3>1, <3>2 DEF Atomic!Succeed, Atomic!Decide
    <3>4. QED BY <3>3 DEF Atomic!Next
  <2>2. CASE overtaken[i] # 0
        BY <1>0, <1>3, <1>5, <2>0, <2>2, StateUpdate
  <2>3. QED BY <2>1, <2>2
<1>6. QED BY <1>2, <1>4, <1>5

LEMMA FailedImplements ==
    ASSUME QueueInv, NEW w \in Workers, MarkFailed(w)
    PROVE  Atomic!Next \/ UNCHANGED <<State, InHand, Tries>>
<1>0. /\ TypeOK /\ attempts \in [Items -> Nat] /\ MaxAttempts \in Nat
      /\ overtaken \in [Items -> Nat]
      BY QueueAssumption DEF QueueInv, TypeOK
<1> PICK i \in Items : i = worker[w].item
      BY FailedEffect
<1> DEFINE n == worker[w].read + 1
           decided == IF n >= MaxAttempts THEN "failed" ELSE "pending"
<1>1. /\ Executes(w, i) /\ overtaken' = overtaken
      /\ worker'[w].at = "free" /\ \A v \in Workers \ {w} : worker'[v] = worker[v]
      BY FailedEffect
<1>2. /\ Executes(w, i) /\ overtaken[i] = 0 => i \in InHand /\ InHand' = InHand \ {i}
      /\ ~Executes(w, i) \/ overtaken[i] # 0 => InHand' = InHand
      BY <1>1, LetsGo
<1>3. /\ attempts' = [attempts EXCEPT ![i] = n]
      /\ status' = [status EXCEPT ![i] = decided]
      BY DEF MarkFailed, Count, LimitReached
<1>4. State' = IF overtaken[i] = 0 THEN [State EXCEPT ![i] = Shown(decided)] ELSE State
      BY <1>0, <1>1, <1>3, StateUpdate
<1>5. CASE overtaken[i] # 0
  <2>1. \A j \in Items : Tries'[j] = Tries[j]
        BY <1>0, <1>1, <1>3, <1>5 DEF Tries
  <2>2. Tries' = Tries
        BY <2>1 DEF Tries
  <2>3. QED BY <1>2, <1>4, <1>5, <2>2
<1>6. CASE overtaken[i] = 0
  <2>1. /\ status[i] \in {"running", "cancelled"}
        /\ attempts[i] \in Nat /\ attempts[i] < MaxAttempts
        /\ n = attempts[i] + 1
        BY <1>1, <1>6, Undisputed DEF MarkFailed
  <2>2. Tries[i] = attempts[i]
        BY <1>6 DEF Tries
  <2>3. Tries' = [Tries EXCEPT ![i] = @ + 1]
    <3>1. \A j \in Items : Tries'[j] = IF j = i THEN Tries[i] + 1 ELSE Tries[j]
          BY <1>0, <1>1, <1>3, <1>6, <2>1, <2>2 DEF Tries
    <3>2. Tries' = [j \in Items |-> IF j = i THEN Tries[i] + 1 ELSE Tries[j]]
          BY <3>1 DEF Tries
    <3>3. QED BY <3>2 DEF Tries
  <2>4. n >= MaxAttempts <=> Tries[i] + 1 = MaxAttempts
        BY <1>0, <2>1, <2>2
  <2>5. Shown(decided) = IF Tries[i] + 1 = MaxAttempts THEN "failed" ELSE "open"
        BY <2>4 DEF Shown
  <2>6. State[i] \in {"open", "cancelled"}
        BY <1>6, <2>1 DEF State, Shown
  <2>7. State' = [State EXCEPT ![i] = IF Tries[i] + 1 = MaxAttempts THEN "failed" ELSE "open"]
        BY <1>4, <1>6, <2>5
  <2>8. Tries[i] < MaxAttempts
        BY <2>1, <2>2
  <2>9. i \in InHand /\ InHand' = InHand \ {i}
        BY <1>1, <1>2, <1>6
  <2>10. Atomic!Fail(i)
        BY <2>3, <2>6, <2>7, <2>8, <2>9 DEF Atomic!Fail, Atomic!Decide
  <2>11. QED BY <2>10 DEF Atomic!Next
<1>7. QED BY <1>5, <1>6

LEMMA StartImplements ==
    ASSUME QueueInv, Start
    PROVE  Atomic!Next
<1> DEFINE taken == {i \in Items : overtaken[i] = 0 /\ status[i] = "running" /\ Runners(i) # {}}
<1>0. /\ overtaken \in [Items -> Nat] /\ UNCHANGED <<worker, attempts>>
      /\ \A i \in Items : Runners(i)' = Runners(i)
      BY RunnersStay DEF QueueInv, TypeOK, Start, Executes
<1>1. \A i \in Items : /\ status'[i] = Recover(status[i])
                       /\ overtaken'[i] = 0 <=> overtaken[i] = 0 /\ i \notin taken
                       /\ overtaken'[i] > 0 <=> overtaken[i] > 0 \/ i \in taken
      BY <1>0 DEF Start
<1>2. \A i \in taken : State[i] = "open" /\ i \in InHand
      BY DEF State, Shown, InHand
<1>3. State' = [i \in Items |-> IF i \in taken THEN "disputed" ELSE State[i]]
  <2>1. \A i \in Items : Shown(Recover(status[i])) = Shown(status[i])
        BY DEF Shown, Recover
  <2>2. \A i \in Items : State'[i] = IF i \in taken THEN "disputed" ELSE State[i]
        BY <1>1, <2>1 DEF State
  <2>3. QED BY <2>2 DEF State
<1>4. Tries' = [i \in Items |-> IF i \in taken THEN 0 ELSE Tries[i]]
  <2>1. \A i \in Items : Tries'[i] = IF i \in taken THEN 0 ELSE Tries[i]
        BY <1>0, <1>1 DEF Tries
  <2>2. QED BY <2>1 DEF Tries
<1>5. InHand' = InHand \ taken
      BY <1>0, <1>1 DEF InHand
<1>6. Atomic!Dispute(taken) /\ taken \in SUBSET Items
      BY <1>2, <1>3, <1>4, <1>5 DEF Atomic!Dispute
<1>7. QED BY <1>6 DEF Atomic!Next

LEMMA StepImplements ==
    ASSUME QueueInv, [Next]_vars
    PROVE  [Atomic!Next]_<<State, InHand, Tries>>
<1>1. CASE \E i \in Items : Enqueue(i) \/ ComesDue(i) \/ Cancel(i)
      BY <1>1, TableImplements
<1>2. ASSUME NEW w \in Workers, Work(w)
      PROVE  Atomic!Next \/ UNCHANGED <<State, InHand, Tries>>
      BY <1>2, LeaseStutters, RunningImplements, FreedImplements, FailedImplements DEF Work
<1>3. CASE Start
      BY <1>3, StartImplements
<1>4. CASE UNCHANGED vars
      BY <1>4 DEF vars, State, InHand, Tries, Runners, Executes
<1>5. QED BY <1>1, <1>2, <1>3, <1>4 DEF Next

LEMMA InitImplements == Init => Atomic!Init
<1> SUFFICES ASSUME Init PROVE Atomic!Init
    OBVIOUS
<1>1. State = [i \in Items |-> "absent"]
      BY DEF Init, State, Shown
<1>2. InHand = {}
      BY FreeType DEF Init, InHand, Runners, Executes
<1>3. Tries = [i \in Items |-> 0]
      BY DEF Init, Tries
<1>4. QED BY <1>1, <1>2, <1>3 DEF Atomic!Init

(* Whatever the leases handed out twice, the reports written by id, the    *)
(* deaths and the recoveries do between them, an item is taken and decided *)
(* in one step until a start overtakes it (worker.py:69-126).              *)
THEOREM QueueImplementsAtomic == Spec => ImplementsQueue
BY QueueInvariant, InitImplements, StepImplements, PTL
   DEF Spec, ImplementsQueue, Atomic!Spec, Atomic!queue
=============================================================================
