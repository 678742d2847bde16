----------------------------- MODULE TelegramPoll -----------------------------
(***************************************************************************)
(* Telegram long polling (poll_once in runtime/cli.py), as the runtime     *)
(* service's tick and any telegram-poll-once commands run it over one      *)
(* database: the offset and the processed messages are committed one       *)
(* statement at a time, the network may fail before or after an effect,    *)
(* and a poller may die anywhere and be started again.                     *)
(***************************************************************************)
EXTENDS Naturals

CONSTANTS
  N,             \* bound: updates that ever arrive; their ids are 1..N
  Kind,          \* [1..N -> Kinds]
  Pollers,       \* processes that poll
  Service,       \* the one that systemd restarts
  Limit,         \* of updates in one batch
  Attempts,      \* to send an answer
  ManualOffsets  \* given by operators as --offset

Updates == 1..N
Kinds == {"text", "unauthorized", "ignored", "malformed"}

ASSUME PollConstants ==
  /\ N \in Nat
  /\ Kind \in [Updates -> Kinds]
  /\ Service \in Pollers
  /\ Limit \in Nat \ {0}
  /\ Attempts \in Nat \ {0}
  /\ ManualOffsets \subseteq 1..N + 1

VARIABLES
  arrived,    \* Telegram: updates 1..arrived exist
  confirmed,  \* Telegram: updates below are forgotten
  delivered,  \* how often each answer has reached the chat
  offset,     \* telegram_offsets: the saved offset, 0 without a row
  processed,  \* processed_messages
  poller      \* progress of each poller

telegram == <<arrived, confirmed, delivered>>
database == <<offset, processed>>
vars == <<telegram, database, poller>>

\* want: the offset to fetch from; cur, last: the rest of the batch; try: the
\* attempt to send.
Poller == [at : {"idle", "fetch", "update", "reply", "save", "write"},
           want : 0..N + 1, cur : 0..N, last : 0..N, try : 0..Attempts]

Idle == [at |-> "idle", want |-> 0, cur |-> 0, last |-> 0, try |-> 0]
Fetching(want) == [at |-> "fetch", want |-> want, cur |-> 0, last |-> 0, try |-> 0]
Handling(at, cur, last, try) ==
  [at |-> at, want |-> 0, cur |-> cur, last |-> last, try |-> try]

HasMessage(u) == Kind[u] \in {"text", "unauthorized"}
AfterUpdate(w) == IF w.cur = w.last THEN Idle ELSE Handling("update", w.cur + 1, w.last, 0)
At(w, at) == Handling(at, w.cur, w.last, 0)
Become(p, w) == poller' = [poller EXCEPT ![p] = w]

Init ==
  /\ arrived = 0
  /\ confirmed = 1
  /\ delivered = [u \in Updates |-> 0]
  /\ offset = 0
  /\ processed = {}
  /\ poller = [p \in Pollers |-> Idle]

-----------------------------------------------------------------------------
Arrive ==
  /\ arrived < N
  /\ arrived' = arrived + 1
  /\ UNCHANGED <<confirmed, delivered, database, poller>>

Begin(p) ==
  /\ poller[p].at = "idle"
  /\ Become(p, Fetching(offset))
  /\ UNCHANGED <<telegram, database>>

\* telegram-poll-once --offset; the service never gives one.
BeginAt(p, manual) ==
  /\ p # Service
  /\ poller[p].at = "idle"
  /\ Become(p, Fetching(manual))
  /\ UNCHANGED <<telegram, database>>

Later(a, b) == IF a > b THEN a ELSE b

\* getUpdates: confirms what is below the offset, returns what is left.
Fetch(p) ==
  /\ poller[p].at = "fetch"
  /\ LET first == Later(confirmed, poller[p].want)
         last  == IF arrived < first + Limit - 1 THEN arrived ELSE first + Limit - 1
     IN /\ confirmed' = first
        /\ Become(p, IF first > arrived THEN Idle ELSE Handling("update", first, last, 0))
  /\ UNCHANGED <<arrived, delivered, database>>

\* Mutant: updates without a message do not advance the offset.
SkipUnsaved(p) ==
  /\ poller[p].at = "update"
  /\ \/ /\ Kind[poller[p].cur] = "ignored"
        /\ Become(p, AfterUpdate(poller[p]))
     \/ /\ HasMessage(poller[p].cur) /\ poller[p].cur \in processed
        /\ Become(p, At(poller[p], "save"))
  /\ UNCHANGED <<telegram, database>>

\* An update without a message, or whose message somebody has taken already.
Skip(p) ==
  /\ poller[p].at = "update"
  /\ \/ Kind[poller[p].cur] = "ignored"
     \/ HasMessage(poller[p].cur) /\ poller[p].cur \in processed
  /\ Become(p, At(poller[p], "save"))
  /\ UNCHANGED <<telegram, database>>

\* Mutant: takes a message without looking whether it has been taken.
TakeAlways(p) ==
  /\ poller[p].at = "update"
  /\ HasMessage(poller[p].cur)
  /\ processed' = processed \cup {poller[p].cur}
  /\ Become(p, At(poller[p], "reply"))
  /\ UNCHANGED <<telegram, offset>>

\* mark_processed, before anything is done about the message.
Take(p) ==
  /\ poller[p].at = "update"
  /\ HasMessage(poller[p].cur)
  /\ poller[p].cur \notin processed
  /\ processed' = processed \cup {poller[p].cur}
  /\ Become(p, At(poller[p], "reply"))
  /\ UNCHANGED <<telegram, offset>>

\* Mutant: one attempt too many.
RetriedTooOften(w) ==
  IF w.try < Attempts THEN Handling("reply", w.cur, w.last, w.try + 1) ELSE At(w, "save")

\* The attempt failed: _send_with_retry goes on, or process_update gives up.
Retried(w) ==
  IF w.try + 1 < Attempts THEN Handling("reply", w.cur, w.last, w.try + 1) ELSE At(w, "save")

\* process_update: the conversation answers and the answer is sent; a request
\* that timed out may have reached the chat.
Send(p) ==
  /\ poller[p].at = "reply"
  /\ Kind[poller[p].cur] = "text"
  /\ delivered' = [delivered EXCEPT ![poller[p].cur] = @ + 1]
  /\ \/ Become(p, At(poller[p], "save"))
     \/ Become(p, Retried(poller[p]))
  /\ UNCHANGED <<arrived, confirmed, database>>

SendFails(p) ==
  /\ poller[p].at = "reply"
  /\ \/ Kind[poller[p].cur] = "text" /\ Become(p, Retried(poller[p]))
     \/ Become(p, At(poller[p], "save"))  \* unauthorized, or not worth a retry
  /\ UNCHANGED <<telegram, database>>

\* _save_poll_offset: reads the offset, then writes a larger one.
Compare(p) ==
  /\ poller[p].at = "save"
  /\ Become(p, IF poller[p].cur + 1 > offset THEN At(poller[p], "write")
                                             ELSE AfterUpdate(poller[p]))
  /\ UNCHANGED <<telegram, database>>

Write(p) ==
  /\ poller[p].at = "write"
  /\ offset' = poller[p].cur + 1
  /\ Become(p, AfterUpdate(poller[p]))
  /\ UNCHANGED <<telegram, processed>>

\* Mutant: an exception skips the update instead of ending the batch.
AbandonUpdate(p) ==
  /\ poller[p].at # "idle"
  /\ Become(p, IF poller[p].at = "update" THEN At(poller[p], "save") ELSE Idle)
  /\ UNCHANGED <<telegram, database>>

\* A malformed payload, any other exception, or the death of the process: the
\* rest of the batch is given up.
Abandon(p) ==
  /\ poller[p].at # "idle"
  /\ Become(p, Idle)
  /\ UNCHANGED <<telegram, database>>

-----------------------------------------------------------------------------
Step(p) ==
  \/ Fetch(p) \/ Skip(p) \/ Take(p) \/ Send(p) \/ SendFails(p) \/ Compare(p) \/ Write(p)

Next ==
  \/ Arrive
  \/ \E p \in Pollers :
       Begin(p) \/ (\E o \in ManualOffsets : BeginAt(p, o)) \/ Step(p) \/ Abandon(p)

Spec == Init /\ [][Next]_vars

\* systemd always starts the service again, and the service does not die at the
\* same statement every time.
Fairness ==
  /\ WF_vars(Begin(Service)) /\ WF_vars(Send(Service) \/ SendFails(Service))
  /\ SF_vars(Fetch(Service)) /\ SF_vars(Skip(Service) \/ Take(Service))
  /\ SF_vars(Compare(Service)) /\ SF_vars(Write(Service))
FairSpec == Spec /\ Fairness

-----------------------------------------------------------------------------
(* Properties.                                                             *)

TypeOK ==
  /\ arrived \in 0..N
  /\ confirmed \in 1..N + 1
  /\ delivered \in [Updates -> 0..Attempts]
  /\ offset \in 0..N + 1
  /\ processed \subseteq Updates
  /\ poller \in [Pollers -> Poller]

\* docs/operations/TelegramSetup.md:386, "the highest safe next_offset": a message
\* that the saved offset is past, or that Telegram has forgotten, has been taken by
\* some poller, unless an operator's --offset passed it over.
SafeAt(o) ==
  \A u \in Updates : u < o /\ HasMessage(u) =>
    u \in processed \/ \E manual \in ManualOffsets : u < manual
OffsetIsSafe == SafeAt(offset) /\ SafeAt(confirmed)

\* Over all pollers, restarts and lost answers: a message is taken up once at
\* most, and answered only by the poller that took it (TelegramSetup.md:431).
Taken(u) == \E p \in Pollers : poller[p].at = "reply" /\ poller[p].cur = u
State == [u \in Updates |-> IF u \notin processed THEN "waiting"
                            ELSE IF Taken(u) THEN "taken" ELSE "settled"]
Messages == INSTANCE Inbox WITH Messages <- Updates, state <- State, replies <- delivered
ImplementsInbox == Messages!Spec

\* Every message is taken at some time, however often pollers die, unless a
\* malformed update comes before it.
TextsAreTaken ==
  \A u \in Updates :
    (arrived >= u /\ HasMessage(u) /\ \A v \in 1..u : Kind[v] # "malformed")
      ~> u \in processed

\* The inductive invariant behind these properties: what a poller is at, or has
\* behind it, has been taken; a message being answered belongs to one poller.
PollerSound(p) ==
  /\ poller[p].at = "fetch"  => SafeAt(poller[p].want)
  /\ poller[p].at = "update" => SafeAt(poller[p].cur)
  /\ poller[p].at \in {"reply", "save", "write"} => SafeAt(poller[p].cur + 1)
  /\ poller[p].at \in {"update", "reply", "save", "write"} =>
       poller[p].cur \in Updates /\ poller[p].cur <= poller[p].last
  /\ poller[p].at = "reply" =>
       /\ poller[p].cur \in processed
       /\ poller[p].try < Attempts
       /\ delivered[poller[p].cur] <= poller[p].try

OneReplying ==
  \A p, q \in Pollers :
    poller[p].at = "reply" /\ poller[q].at = "reply" /\ poller[p].cur = poller[q].cur => p = q

PollInv ==
  /\ TypeOK
  /\ OffsetIsSafe
  /\ \A p \in Pollers : PollerSound(p)
  /\ OneReplying
  /\ \A u \in Updates \ processed : delivered[u] = 0
=============================================================================
