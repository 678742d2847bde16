---------------------------- MODULE BriefingChain ----------------------------
(***************************************************************************)
(* What the scheduler promises of a daily briefing: a day is planned when  *)
(* the day before is done, is tried no more than Tries times, and every    *)
(* message of it belongs to a try, which sends PerTry of them at most.     *)
(***************************************************************************)
EXTENDS Naturals, FiniteSets

CONSTANTS Days, Times, Tries, PerTry

VARIABLES
  stage,  \* of each day: "unplanned", "planned" or "done"
  tries,  \* the attempts of each day, by the time they started
  sent    \* messages of each day and attempt

chain == <<stage, tries, sent>>
DayIds == 1..Days

Init ==
  /\ stage = [d \in DayIds |-> IF d = 1 THEN "planned" ELSE "unplanned"]
  /\ tries = [d \in DayIds |-> {}]
  /\ sent = [d \in DayIds |-> [t \in Times |-> 0]]

Plan(d) ==
  /\ d > 1 /\ stage[d - 1] = "done" /\ stage[d] = "unplanned"
  /\ stage' = [stage EXCEPT ![d] = "planned"]
  /\ UNCHANGED <<tries, sent>>

Try(d, t) ==
  /\ stage[d] # "unplanned" /\ t \notin tries[d] /\ Cardinality(tries[d]) < Tries
  /\ tries' = [tries EXCEPT ![d] = @ \cup {t}]
  /\ UNCHANGED <<stage, sent>>

Send(d, t) ==
  /\ t \in tries[d] /\ sent[d][t] < PerTry
  /\ sent' = [sent EXCEPT ![d][t] = @ + 1]
  /\ UNCHANGED <<stage, tries>>

Close(d) ==
  /\ stage[d] = "planned" /\ tries[d] # {}
  /\ stage' = [stage EXCEPT ![d] = "done"]
  /\ UNCHANGED <<tries, sent>>

Next == \E d \in DayIds :
  \/ Plan(d) \/ Close(d)
  \/ \E t \in Times : Try(d, t) \/ Send(d, t)

Spec == Init /\ [][Next]_chain
=============================================================================
