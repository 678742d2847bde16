-------------------------------- MODULE Inbox --------------------------------
(***************************************************************************)
(* What polling promises for every message: it is taken up once at most,   *)
(* answered only while it is being taken care of, and the answer is sent   *)
(* no more often than the sender's retries allow.                          *)
(***************************************************************************)
EXTENDS Naturals

CONSTANTS Messages, Attempts

VARIABLES
  state,   \* of each message: "waiting", "taken" or "settled"
  replies  \* how often the answer to each message has reached the chat

inbox == <<state, replies>>

Init ==
  /\ state = [m \in Messages |-> "waiting"]
  /\ replies = [m \in Messages |-> 0]

Take(m) ==
  /\ state[m] = "waiting"
  /\ state' = [state EXCEPT ![m] = "taken"]
  /\ UNCHANGED replies

Answer(m) ==
  /\ state[m] = "taken"
  /\ replies[m] < Attempts
  /\ replies' = [replies EXCEPT ![m] = @ + 1]
  /\ \/ UNCHANGED state
     \/ state' = [state EXCEPT ![m] = "settled"]

Settle(m) ==
  /\ state[m] = "taken"
  /\ state' = [state EXCEPT ![m] = "settled"]
  /\ UNCHANGED replies

Next == \E m \in Messages : Take(m) \/ Answer(m) \/ Settle(m)

Spec == Init /\ [][Next]_inbox
=============================================================================
