------------------------------ MODULE AtomicQueue ------------------------------
(***************************************************************************)
(* What the task queue promises: an item is in one hand at a time, is      *)
(* tried MaxAttempts times at most, and is decided once, until a second    *)
(* service takes it out of a hand; of such an item it promises nothing.    *)
(***************************************************************************)
EXTENDS Naturals

CONSTANTS Items, Key, MaxAttempts

VARIABLES
    state,   \* of each item: "absent", "open", "succeeded", "failed", "cancelled", "disputed"
    inHand,  \* the items being executed
    tries    \* failed tries of each item

queue == <<state, inHand, tries>>

Init ==
    /\ state = [i \in Items |-> "absent"]
    /\ inHand = {}
    /\ tries = [i \in Items |-> 0]

Decide(i, result) == state' = [state EXCEPT ![i] = result]

(* One item per key.                                                       *)
Add(i) ==
    /\ \A j \in Items : state[j] # "absent" => Key[j] # Key[i]
    /\ Decide(i, "open")
    /\ UNCHANGED <<inHand, tries>>

Cancel(i) ==
    /\ state[i] = "open"
    /\ Decide(i, "cancelled")
    /\ UNCHANGED <<inHand, tries>>

Take(i) ==
    /\ state[i] = "open" /\ i \notin inHand
    /\ inHand' = inHand \cup {i}
    /\ UNCHANGED <<state, tries>>

Succeed(i) ==
    /\ state[i] = "open" /\ i \in inHand
    /\ Decide(i, "succeeded")
    /\ inHand' = inHand \ {i}
    /\ UNCHANGED tries

(* A failed try counts, and decides only when it was the last: an item     *)
(* cancelled in hand is open again before.                                 *)
Fail(i) ==
    /\ state[i] \in {"open", "cancelled"} /\ i \in inHand
    /\ tries[i] < MaxAttempts
    /\ tries' = [tries EXCEPT ![i] = @ + 1]
    /\ Decide(i, IF tries[i] + 1 = MaxAttempts THEN "failed" ELSE "open")
    /\ inHand' = inHand \ {i}

(* The executor is gone, or its report was refused.                        *)
Drop(i) ==
    /\ i \in inHand
    /\ inHand' = inHand \ {i}
    /\ UNCHANGED <<state, tries>>

(* A second service takes items out of the hands they are in.              *)
Dispute(taken) ==
    /\ \A i \in taken : state[i] = "open" /\ i \in inHand
    /\ state' = [i \in Items |-> IF i \in taken THEN "disputed" ELSE state[i]]
    /\ tries' = [i \in Items |-> IF i \in taken THEN 0 ELSE tries[i]]
    /\ inHand' = inHand \ taken

Next ==
    \/ \E i \in Items : \/ Add(i) \/ Cancel(i) \/ Take(i)
                        \/ Succeed(i) \/ Fail(i) \/ Drop(i)
    \/ \E taken \in SUBSET Items : Dispute(taken)

Spec == Init /\ [][Next]_queue
=============================================================================
