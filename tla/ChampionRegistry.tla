--------------------------- MODULE ChampionRegistry ---------------------------
(***************************************************************************)
(* The champion slot of adapters/champion_registry.py: the commands        *)
(* champion-bootstrap, -promotion-request, -promotion-approve,             *)
(* -promotion-reject and -rollback, run by any number of processes over    *)
(* one database.  Every SQL statement is a transaction of its own, so      *)
(* commands interleave between statements, and one that dies leaves behind *)
(* what it has committed.                                                  *)
(***************************************************************************)
EXTENDS Naturals

CONSTANTS
  Clients,       \* processes running a command
  Promotions,    \* promotion ids, each with its evaluation
  Fingerprints,  \* strategies
  Challenger,    \* [Promotions -> Fingerprints], from the evaluation report
  MaxRevision,   \* bound: revisions of the slot
  None

ASSUME ChampionConstants ==
  /\ Challenger \in [Promotions -> Fingerprints]
  /\ MaxRevision \in Nat \ {0}
  /\ None \notin Promotions \cup Fingerprints

VARIABLES
  active,     \* champion_registry: the active version of the slot
  history,    \* champion_history: the set of versions
  requests,   \* promotion_requests: the status of each request
  decisions,  \* promotion_decisions: pairs <<promotion, decision>>
  client      \* the command each process runs

vars == <<active, history, requests, decisions, client>>

-----------------------------------------------------------------------------
(* Data.                                                                   *)

\* source: source_evaluation_id, by its promotion; None for the bootstrap.
\* kind: activation_type.
Version == [rev : 1..MaxRevision, fp : Fingerprints, source : Promotions \cup {None},
            kind : {"bootstrap", "promotion", "rollback"}]

\* Before the first activation the slot is empty: revision 0.
Empty == [rev |-> 0, fp |-> None, source |-> None, kind |-> "bootstrap"]

Status == {"absent", "pending", "rejected", "activated"}

\* at: the next statement; seen: the active version it has read; version: the
\* one it activates.
Command == [op : {"none", "bootstrap", "request", "approve", "reject", "rollback"},
            at : {"idle", "current", "add", "decide", "history", "activate", "settle"},
            promo : Promotions \cup {None},
            version : Version \cup {Empty}]

Idle == [op |-> "none", at |-> "idle", promo |-> None, version |-> Empty]
Running(op, at, promo, version) == [op |-> op, at |-> at, promo |-> promo, version |-> version]

Move(c, cmd) == client' = [client EXCEPT ![c] = cmd]
Goto(c, at) == Move(c, Running(client[c].op, at, client[c].promo, client[c].version))

Init ==
  /\ active = Empty
  /\ history = {}
  /\ requests = [p \in Promotions |-> "absent"]
  /\ decisions = {}
  /\ client = [c \in Clients |-> Idle]

-----------------------------------------------------------------------------
(* Reads: what a command looks at before it writes.                        *)

\* Mutant: the revision is that of the active version.
SuccessorSameRevision(fp, source, kind) ==
  [rev |-> active.rev, fp |-> fp, source |-> source, kind |-> kind]

Successor(fp, source, kind) ==
  [rev |-> active.rev + 1, fp |-> fp, source |-> source, kind |-> kind]

\* bootstrap: the slot has no champion yet.
Bootstrap(c, fp) ==
  /\ client[c].at = "idle"
  /\ active = Empty
  /\ Move(c, Running("bootstrap", "history", None, Successor(fp, None, "bootstrap")))
  /\ UNCHANGED <<active, history, requests, decisions>>

\* request_promotion: no request of this evaluation exists.
Request(c, p) ==
  /\ client[c].at = "idle"
  /\ requests[p] = "absent"
  /\ Move(c, Running("request", "current", p, Empty))
  /\ UNCHANGED <<active, history, requests, decisions>>

\* approve and reject: the request is pending.
Approve(c, p) ==
  /\ client[c].at = "idle"
  /\ requests[p] = "pending"
  /\ Move(c, Running("approve", "current", p, Empty))
  /\ UNCHANGED <<active, history, requests, decisions>>

Reject(c, p) ==
  /\ client[c].at = "idle"
  /\ requests[p] = "pending"
  /\ Move(c, Running("reject", "decide", p, Empty))
  /\ UNCHANGED <<active, history, requests, decisions>>

\* _validate_promotion_candidate against the active champion.
ReadCurrent(c) ==
  /\ client[c].at = "current"
  /\ client[c].op = "approve" => active.rev < MaxRevision
  /\ LET p == client[c].promo
         op == client[c].op
     IN Move(c, IF active.fp = Challenger[p] THEN Idle
                ELSE IF op = "request" THEN Running(op, "add", p, Empty)
                ELSE Running(op, "decide", p, Successor(Challenger[p], p, "promotion")))
  /\ UNCHANGED <<active, history, requests, decisions>>

\* Mutant: back to the first champion instead of the one before the active.
RollbackToFirst(c) ==
  /\ client[c].at = "idle"
  /\ active.rev \in 2..MaxRevision - 1
  /\ \E previous \in history :
       /\ previous.rev = 1
       /\ Move(c, Running("rollback", "history", None,
                          Successor(previous.fp, previous.source, "rollback")))
  /\ UNCHANGED <<active, history, requests, decisions>>

\* rollback: previous_version_id is the revision before the active one.
Rollback(c) ==
  /\ client[c].at = "idle"
  /\ active.rev \in 2..MaxRevision - 1
  /\ \E previous \in history :
       /\ previous.rev = active.rev - 1
       /\ Move(c, Running("rollback", "history", None,
                          Successor(previous.fp, previous.source, "rollback")))
  /\ UNCHANGED <<active, history, requests, decisions>>

-----------------------------------------------------------------------------
(* Writes.                                                                 *)

AddRequest(c) ==
  /\ client[c].at = "add"
  /\ requests' = IF requests[client[c].promo] = "absent"  \* else the key exists
                 THEN [requests EXCEPT ![client[c].promo] = "pending"]
                 ELSE requests
  /\ Move(c, Idle)
  /\ UNCHANGED <<active, history, decisions>>

AddDecision(c) ==
  /\ client[c].at = "decide"
  /\ decisions' = decisions \cup {<<client[c].promo, client[c].op>>}
  /\ Goto(c, IF client[c].op = "approve" THEN "history" ELSE "settle")
  /\ UNCHANGED <<active, history, requests>>

\* Mutants: no unique key; INSERT OR IGNORE.
AddHistoryAlways(c) ==
  /\ client[c].at = "history"
  /\ history' = history \cup {client[c].version}
  /\ Goto(c, "activate")
  /\ UNCHANGED <<active, requests, decisions>>

AddHistoryOrIgnore(c) ==
  /\ client[c].at = "history"
  /\ history' = IF \E v \in history : v.rev = client[c].version.rev
                THEN history ELSE history \cup {client[c].version}
  /\ Goto(c, "activate")
  /\ UNCHANGED <<active, requests, decisions>>

\* UNIQUE(slot, revision): the insert fails when the revision is taken.
AddHistory(c) ==
  /\ client[c].at = "history"
  /\ IF \E v \in history : v.rev = client[c].version.rev
     THEN Move(c, Idle) /\ UNCHANGED history
     ELSE Goto(c, "activate") /\ history' = history \cup {client[c].version}
  /\ UNCHANGED <<active, requests, decisions>>

PutActive(c) ==
  /\ client[c].at = "activate"
  /\ active' = client[c].version
  /\ IF client[c].op = "approve" THEN Goto(c, "settle") ELSE Move(c, Idle)
  /\ UNCHANGED <<history, requests, decisions>>

\* update_request, without a look at the status it replaces.
UpdateRequest(c) ==
  /\ client[c].at = "settle"
  /\ requests' = [requests EXCEPT ![client[c].promo] =
        IF client[c].op = "approve" THEN "activated" ELSE "rejected"]
  /\ Move(c, Idle)
  /\ UNCHANGED <<active, history, decisions>>

\* Killed, or a statement raises (the database is locked): the rest is lost.
Abort(c) ==
  /\ client[c].at # "idle"
  /\ Move(c, Idle)
  /\ UNCHANGED <<active, history, requests, decisions>>

-----------------------------------------------------------------------------
Continue(c) ==
  \/ ReadCurrent(c) \/ AddRequest(c) \/ AddDecision(c)
  \/ AddHistory(c) \/ PutActive(c) \/ UpdateRequest(c)

Next ==
  \E c \in Clients :
    \/ \E fp \in Fingerprints : Bootstrap(c, fp)
    \/ \E p \in Promotions : Request(c, p) \/ Approve(c, p) \/ Reject(c, p)
    \/ Rollback(c) \/ Continue(c) \/ Abort(c)

Spec == Init /\ [][Next]_vars

-----------------------------------------------------------------------------
(* Properties.                                                             *)

TypeOK ==
  /\ active \in Version \cup {Empty}
  /\ history \subseteq Version
  /\ requests \in [Promotions -> Status]
  /\ decisions \subseteq Promotions \X {"approve", "reject"}
  /\ client \in [Clients -> Command]

\* The unique revision is the only lock there is: whatever interleaves or dies, no
\* revision is used twice or left out, the active version is in the history, and at
\* most one version is ahead of it.
RevisionChain ==
  /\ \A v, w \in history : v.rev = w.rev => v = w
  /\ \A i \in 1..active.rev : \E v \in history : v.rev = i
  /\ \A v \in history : v.rev <= active.rev + 1
  /\ active # Empty => active \in history

\* docs/architecture/champion-registry.md:20: no strategy that came from an
\* evaluation is in the history without an explicit approval, and a request says
\* activated only when its strategy has been the champion.
ApprovedOnly ==
  /\ \A v \in history : v.source # None => <<v.source, "approve">> \in decisions
  /\ \A p \in Promotions : requests[p] = "activated" =>
       \E v \in history : v.source = p /\ v.rev <= active.rev

\* Every activation is the step of an atomic slot, by the activation type that the
\* history keeps of it (champion_registry.py:290-308, 324-346): a promotion brings in
\* the challenger of an approved request over a champion other than itself, and a
\* rollback the champion before the one of that moment, although each decided on what
\* it read several statements earlier.
Champion(v) == [fp |-> v.fp, kind |-> v.kind]
At(versions, i) == CHOOSE v \in versions : v.rev = i
Champions == [i \in 1..active.rev |-> Champion(At(history, i))]
Approved == {p \in Promotions : <<p, "approve">> \in decisions}
Slot == INSTANCE AtomicChampion WITH champions <- Champions, approved <- Approved
ImplementsSlot == Slot!Spec

\* The inductive invariant behind these properties: one process at most is between
\* adding a version and putting it active; a version that can still be added or put
\* active follows the active one as its command has to; and it is approved.
OneActivating ==
  /\ \A c \in Clients : client[c].at = "activate" =>
       client[c].version \in history /\ client[c].version.rev = active.rev + 1
  /\ \A c, d \in Clients :
       client[c].at = "activate" /\ client[d].at = "activate" => c = d

Follows(op, version) ==
  \/ op = "bootstrap" /\ version.kind = "bootstrap" /\ active = Empty
  \/ op = "approve" /\ version.kind = "promotion" /\ version.fp # active.fp
  \/ /\ op = "rollback" /\ version.kind = "rollback"
     /\ \E v \in history : v.rev + 1 = active.rev /\ v.fp = version.fp

Proposing(cmd) == cmd.at \in {"history", "activate"} \/ (cmd.at = "decide" /\ cmd.op = "approve")

ProposalSound(cmd) ==
  Proposing(cmd) =>
    /\ cmd.version.rev \in 1..active.rev + 1
    /\ cmd.version.rev = active.rev + 1 => Follows(cmd.op, cmd.version)

ApprovalSound(cmd) ==
  /\ cmd.at = "history" /\ cmd.version.source # None =>
       <<cmd.version.source, "approve">> \in decisions
  /\ cmd.op = "approve" /\ cmd.at \in {"decide", "history", "activate", "settle"} =>
       cmd.promo # None /\ cmd.version.source = cmd.promo /\ cmd.version.fp = Challenger[cmd.promo]
  /\ cmd.op = "approve" /\ cmd.at = "settle" =>
       cmd.version \in history /\ cmd.version.rev <= active.rev
  /\ cmd.at \in {"current", "add", "decide", "settle"} => cmd.promo # None
  /\ cmd.at = "current" => cmd.op \in {"request", "approve"}
  /\ cmd.at \in {"decide", "settle"} => cmd.op \in {"approve", "reject"}

CommandsSound == \A c \in Clients : ProposalSound(client[c]) /\ ApprovalSound(client[c])

ChampionInv ==
  TypeOK /\ RevisionChain /\ ApprovedOnly /\ OneActivating /\ CommandsSound
=============================================================================
