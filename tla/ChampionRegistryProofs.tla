------------------------- MODULE ChampionRegistryProofs -------------------------
(***************************************************************************)
(* Proofs about ChampionRegistry, for any number of processes, promotions  *)
(* and revisions.                                                          *)
(***************************************************************************)
EXTENDS ChampionRegistry, Sequences, SequenceTheorems, TLAPS

USE ChampionConstants

-----------------------------------------------------------------------------
(* The records.                                                            *)

\* The fields of versions, and the empty slot's.
LEMMA VersionShape ==
  /\ Empty.rev = 0 /\ Empty.fp = None /\ Empty.source = None
  /\ Empty \notin Version
  /\ \A v \in Version : /\ v.rev \in 1..MaxRevision /\ v.fp \in Fingerprints
                        /\ v.source \in Promotions \cup {None}
                        /\ v.kind \in {"bootstrap", "promotion", "rollback"}
BY DEF Version, Empty

\* A successor of the active version is a version.
LEMMA SuccessorShape ==
  ASSUME NEW fp \in Fingerprints, NEW source \in Promotions \cup {None},
         NEW kind \in {"bootstrap", "promotion", "rollback"},
         active \in Version \cup {Empty}, active.rev < MaxRevision
  PROVE  LET version == Successor(fp, source, kind)
         IN /\ version \in Version
            /\ version.rev = active.rev + 1 /\ version.fp = fp
            /\ version.source = source /\ version.kind = kind
BY VersionShape DEF Successor, Version

\* The commands, their fields and those of Running and Idle.
LEMMA CommandShape ==
  /\ Idle \in Command /\ Idle.at = "idle" /\ Idle.op = "none"
  /\ \A cmd \in Command : /\ cmd.version \in Version \cup {Empty}
                          /\ cmd.promo \in Promotions \cup {None}
                          /\ cmd.op \in {"none", "bootstrap", "request", "approve", "reject", "rollback"}
BY DEF Command, Idle

LEMMA RunningShape ==
  ASSUME NEW op \in {"bootstrap", "request", "approve", "reject", "rollback"},
         NEW at \in {"idle", "current", "add", "decide", "history", "activate", "settle"},
         NEW promo \in Promotions \cup {None}, NEW version \in Version \cup {Empty}
  PROVE  LET cmd == Running(op, at, promo, version)
         IN cmd \in Command /\ cmd.op = op /\ cmd.at = at /\ cmd.promo = promo
            /\ cmd.version = version
BY DEF Running, Command

\* Move changes the command of one process.
LEMMA MoveShape ==
  ASSUME client \in [Clients -> Command], NEW c \in Clients, NEW cmd \in Command, Move(c, cmd)
  PROVE  /\ client' \in [Clients -> Command]
         /\ client'[c] = cmd
         /\ \A d \in Clients \ {c} : client'[d] = client[d]
BY DEF Move

-----------------------------------------------------------------------------
(* Steps that leave the versions alone.                                    *)

\* A process may give its command any sound place other than "activate"; the
\* decisions grow and a request becomes activated only for a past champion.
LEMMA ClientMoves ==
  ASSUME ChampionInv, NEW c \in Clients, NEW cmd \in Command, Move(c, cmd),
         UNCHANGED <<active, history>>,
         requests' \in [Promotions -> Status],
         \A p \in Promotions : requests'[p] = "activated" =>
            \E v \in history : v.source = p /\ v.rev <= active.rev,
         decisions' \subseteq Promotions \X {"approve", "reject"}, decisions \subseteq decisions',
         cmd.at # "activate", ProposalSound(cmd), ApprovalSound(cmd)'
  PROVE  ChampionInv'
<1>1. /\ client' \in [Clients -> Command]
      /\ client'[c] = cmd
      /\ \A d \in Clients \ {c} : client'[d] = client[d]
  BY MoveShape DEF ChampionInv, TypeOK
<1>2. TypeOK'
  BY <1>1 DEF ChampionInv, TypeOK
<1>3. RevisionChain' /\ ApprovedOnly'
  BY DEF ChampionInv, RevisionChain, ApprovedOnly
<1>4. OneActivating'
  <2>1. \A d \in Clients : client'[d].at = "activate" => client'[d] = client[d]
    BY <1>1
  <2> QED
    BY <2>1 DEF ChampionInv, OneActivating
<1>5. CommandsSound'
  <2> SUFFICES ASSUME NEW d \in Clients
               PROVE  ProposalSound(client[d])' /\ ApprovalSound(client[d])'
    BY DEF CommandsSound
  <2>1. CASE d = c
    BY <1>1, <2>1 DEF ProposalSound, Proposing, Follows, ApprovalSound
  <2>2. CASE d # c
    BY <1>1, <2>2 DEF ChampionInv, CommandsSound, ProposalSound, Proposing, Follows, ApprovalSound
  <2> QED
    BY <2>1, <2>2
<1> QED
  BY <1>2, <1>3, <1>4, <1>5 DEF ChampionInv

\* The case of a step that only reads.
LEMMA ClientReads ==
  ASSUME ChampionInv, NEW c \in Clients, NEW cmd \in Command, Move(c, cmd),
         UNCHANGED <<active, history, requests, decisions>>,
         cmd.at # "activate", ProposalSound(cmd), ApprovalSound(cmd)
  PROVE  ChampionInv'
<1>1. ApprovalSound(cmd)'
  BY DEF ApprovalSound
<1>2. \A p \in Promotions : requests'[p] = "activated" =>
        \E v \in history : v.source = p /\ v.rev <= active.rev
  BY DEF ChampionInv, ApprovedOnly
<1> QED
  BY <1>1, <1>2, ClientMoves DEF ChampionInv, TypeOK

LEMMA BootstrapStep ==
  ASSUME ChampionInv, NEW c \in Clients, NEW fp \in Fingerprints, Bootstrap(c, fp)
  PROVE  ChampionInv'
<1> DEFINE next == Successor(fp, None, "bootstrap")
           cmd == Running("bootstrap", "history", None, next)
<1>1. /\ next \in Version /\ next.rev = active.rev + 1
      /\ next.source = None /\ next.kind = "bootstrap"
  BY SuccessorShape, VersionShape DEF Bootstrap, ChampionInv, TypeOK
<1>2. /\ cmd \in Command /\ cmd.op = "bootstrap" /\ cmd.at = "history"
      /\ cmd.version = next
  BY <1>1, RunningShape
<1>3. active = Empty /\ active.rev = 0 /\ Move(c, cmd)
      /\ UNCHANGED <<active, history, requests, decisions>>
  BY VersionShape DEF Bootstrap
<1> HIDE DEF next, cmd
<1>4. ProposalSound(cmd)
  BY <1>1, <1>2, <1>3 DEF ProposalSound, Follows
<1>5. ApprovalSound(cmd)
  BY <1>1, <1>2 DEF ApprovalSound
<1> QED
  BY <1>2, <1>3, <1>4, <1>5, ClientReads

LEMMA RequestStep ==
  ASSUME ChampionInv, NEW c \in Clients, NEW p \in Promotions,
         Request(c, p) \/ Approve(c, p) \/ Reject(c, p)
  PROVE  ChampionInv'
<1>1. PICK op \in {"request", "approve", "reject"}, at \in {"current", "decide"} :
        /\ Move(c, Running(op, at, p, Empty))
        /\ UNCHANGED <<active, history, requests, decisions>>
        /\ at = "current" => op \in {"request", "approve"}
        /\ at = "decide" => op = "reject"
  BY DEF Request, Approve, Reject
<1> DEFINE cmd == Running(op, at, p, Empty)
<1>2. cmd \in Command /\ cmd.op = op /\ cmd.at = at /\ cmd.promo = p
  BY RunningShape
<1>3. Move(c, cmd)
  BY <1>1
<1> HIDE DEF cmd
<1>4. ProposalSound(cmd)
  BY <1>1, <1>2 DEF ProposalSound, Proposing
<1>5. ApprovalSound(cmd)
  BY <1>1, <1>2 DEF ApprovalSound
<1> QED
  BY <1>1, <1>2, <1>3, <1>4, <1>5, ClientReads

LEMMA IdleIsSound == ProposalSound(Idle) /\ ApprovalSound(Idle)
BY CommandShape DEF ProposalSound, Proposing, ApprovalSound

LEMMA ReadCurrentStep ==
  ASSUME ChampionInv, NEW c \in Clients, ReadCurrent(c)
  PROVE  ChampionInv'
<1> DEFINE p == client[c].promo
           op == client[c].op
           next == Successor(Challenger[p], p, "promotion")
           adding == Running(op, "add", p, Empty)
           deciding == Running(op, "decide", p, next)
<1>1. p \in Promotions /\ op \in {"request", "approve"}
  BY CommandShape DEF ReadCurrent, ChampionInv, TypeOK, CommandsSound, ApprovalSound
<1>2. UNCHANGED <<active, history, requests, decisions>>
  BY DEF ReadCurrent
<1>3. CASE Move(c, Idle)
  BY <1>2, <1>3, CommandShape, IdleIsSound, ClientReads
<1>4. CASE Move(c, adding) /\ op = "request"
  <2>1. adding \in Command /\ adding.op = op /\ adding.at = "add" /\ adding.promo = p
    BY <1>1, RunningShape
  <2> HIDE DEF adding
  <2>2. ProposalSound(adding) /\ ApprovalSound(adding)
    BY <1>1, <2>1 DEF ProposalSound, Proposing, ApprovalSound
  <2> QED
    BY <1>2, <1>4, <2>1, <2>2, ClientReads
<1>5. CASE Move(c, deciding) /\ op = "approve" /\ active.fp # Challenger[p]
  <2>1. /\ next \in Version /\ next.rev = active.rev + 1
        /\ next.fp = Challenger[p] /\ next.source = p /\ next.kind = "promotion"
    BY <1>1, <1>5, SuccessorShape DEF ReadCurrent, ChampionInv, TypeOK
  <2> HIDE DEF next
  <2>2. /\ deciding \in Command /\ deciding.op = op /\ deciding.at = "decide"
        /\ deciding.promo = p /\ deciding.version = next
    BY <1>1, <2>1, RunningShape
  <2> HIDE DEF deciding
  <2>3. active.rev \in Nat
    BY VersionShape DEF ChampionInv, TypeOK
  <2>4. ProposalSound(deciding) /\ ApprovalSound(deciding)
    BY <1>1, <1>5, <2>1, <2>2, <2>3 DEF ProposalSound, Follows, ApprovalSound
  <2> QED
    BY <1>2, <1>5, <2>2, <2>4, ClientReads
<1> QED
  BY <1>1, <1>3, <1>4, <1>5 DEF ReadCurrent

LEMMA RollbackStep ==
  ASSUME ChampionInv, NEW c \in Clients, Rollback(c)
  PROVE  ChampionInv'
<1>1. PICK previous \in history :
        /\ previous.rev = active.rev - 1
        /\ Move(c, Running("rollback", "history", None, Successor(previous.fp, previous.source, "rollback")))
  BY DEF Rollback
<1> DEFINE next == Successor(previous.fp, previous.source, "rollback")
           cmd == Running("rollback", "history", None, next)
<1>2. previous \in Version /\ active.rev \in 1..MaxRevision /\ active.rev < MaxRevision
  BY VersionShape DEF Rollback, ChampionInv, TypeOK
<1>3. /\ next \in Version /\ next.rev = active.rev + 1
      /\ next.fp = previous.fp /\ next.source = previous.source /\ next.kind = "rollback"
  BY <1>2, SuccessorShape, VersionShape DEF ChampionInv, TypeOK
<1> HIDE DEF next
<1>4. /\ cmd \in Command /\ cmd.op = "rollback" /\ cmd.at = "history" /\ cmd.version = next
      /\ Move(c, cmd)
  BY <1>1, <1>3, RunningShape DEF next
<1> HIDE DEF cmd
<1>5. ProposalSound(cmd)
  <2>1. previous.rev + 1 = active.rev
    BY <1>1, <1>2, VersionShape
  <2> QED
    BY <1>2, <1>3, <1>4, <2>1 DEF ProposalSound, Follows
<1>6. ApprovalSound(cmd)
  BY <1>3, <1>4 DEF ApprovalSound, ChampionInv, ApprovedOnly
<1> QED
  BY <1>4, <1>5, <1>6, ClientReads DEF Rollback

LEMMA AbortStep ==
  ASSUME ChampionInv, NEW c \in Clients, Abort(c)
  PROVE  ChampionInv'
BY CommandShape, IdleIsSound, ClientReads DEF Abort

LEMMA AddRequestStep ==
  ASSUME ChampionInv, NEW c \in Clients, AddRequest(c)
  PROVE  ChampionInv'
<1>1. /\ client[c].promo \in Promotions
      /\ requests' \in [Promotions -> Status]
      /\ \A p \in Promotions : requests'[p] = "activated" => requests[p] = "activated"
  BY CommandShape DEF AddRequest, ChampionInv, TypeOK, CommandsSound, ApprovalSound, Status
<1>2. \A p \in Promotions : requests'[p] = "activated" =>
        \E v \in history : v.source = p /\ v.rev <= active.rev
  BY <1>1 DEF ChampionInv, ApprovedOnly
<1>3. ApprovalSound(Idle)'
  BY CommandShape DEF ApprovalSound
<1> QED
  BY <1>1, <1>2, <1>3, CommandShape, IdleIsSound, ClientMoves DEF AddRequest, ChampionInv, TypeOK

LEMMA AddDecisionStep ==
  ASSUME ChampionInv, NEW c \in Clients, AddDecision(c)
  PROVE  ChampionInv'
<1> DEFINE old == client[c]
           at == IF old.op = "approve" THEN "history" ELSE "settle"
<1>1. /\ old.promo \in Promotions /\ old.op \in {"approve", "reject"}
      /\ old.version \in Version \cup {Empty}
      /\ old.op = "approve" =>
           old.version.source = old.promo /\ old.version.fp = Challenger[old.promo]
      /\ ProposalSound(old)
  BY CommandShape DEF AddDecision, ChampionInv, TypeOK, CommandsSound, ApprovalSound
<1>2. PICK cmd \in Command :
        /\ cmd.op = old.op /\ cmd.promo = old.promo /\ cmd.version = old.version
        /\ (old.op = "approve" /\ cmd.at = "history") \/ (old.op = "reject" /\ cmd.at = "settle")
        /\ Move(c, cmd)
  <2>1. Running(old.op, at, old.promo, old.version) \in Command
    BY <1>1, RunningShape
  <2> QED
    BY SMTT(30), <1>1, <2>1, RunningShape DEF AddDecision, Goto
<1>3. /\ old.at = "decide"
      /\ UNCHANGED <<active, history, requests>>
      /\ decisions' = decisions \cup {<<old.promo, old.op>>}
  BY DEF AddDecision
<1>4. ProposalSound(cmd)
  BY <1>1, <1>2, <1>3 DEF ProposalSound, Proposing
<1>5. ApprovalSound(cmd)'
  BY <1>1, <1>2, <1>3 DEF ApprovalSound
<1>6. \A p \in Promotions : requests'[p] = "activated" =>
        \E v \in history : v.source = p /\ v.rev <= active.rev
  BY <1>3 DEF ChampionInv, ApprovedOnly
<1> QED
  BY <1>1, <1>2, <1>3, <1>4, <1>5, <1>6, ClientMoves DEF ChampionInv, TypeOK

LEMMA UpdateRequestStep ==
  ASSUME ChampionInv, NEW c \in Clients, UpdateRequest(c)
  PROVE  ChampionInv'
<1> DEFINE old == client[c]
<1>1. /\ old.promo \in Promotions
      /\ old.op = "approve" => /\ old.version \in history
                               /\ old.version.rev <= active.rev
                               /\ old.version.source = old.promo
  BY CommandShape DEF UpdateRequest, ChampionInv, TypeOK, CommandsSound, ApprovalSound
<1>2. requests' \in [Promotions -> Status]
  BY DEF UpdateRequest, ChampionInv, TypeOK, Status
<1>3. \A p \in Promotions : requests'[p] = "activated" =>
        \E v \in history : v.source = p /\ v.rev <= active.rev
  BY <1>1 DEF UpdateRequest, ChampionInv, TypeOK, ApprovedOnly
<1>4. ApprovalSound(Idle)'
  BY CommandShape DEF ApprovalSound
<1> QED
  BY <1>2, <1>3, <1>4, CommandShape, IdleIsSound, ClientMoves DEF UpdateRequest, ChampionInv, TypeOK

-----------------------------------------------------------------------------
(* The two steps of an activation.                                         *)

LEMMA AddHistoryStep ==
  ASSUME ChampionInv, NEW c \in Clients, AddHistory(c)
  PROVE  ChampionInv'
<1> DEFINE old == client[c]
           new == old.version
           cmd == Running(old.op, "activate", old.promo, new)
<1>1. CASE \E v \in history : v.rev = new.rev
  <2>1. Move(c, Idle) /\ UNCHANGED <<active, history, requests, decisions>>
    BY <1>1 DEF AddHistory
  <2> QED
    BY <2>1, CommandShape, IdleIsSound, ClientReads
<1>2. CASE \A v \in history : v.rev # new.rev
  <2>1. /\ Move(c, cmd) /\ old.at = "history"
        /\ history' = history \cup {new}
        /\ UNCHANGED <<active, requests, decisions>>
    BY <1>2 DEF AddHistory, Goto
  <2>2. active \in Version \cup {Empty} /\ active.rev \in Nat
    BY VersionShape DEF ChampionInv, TypeOK
  <2>3. /\ old \in Command /\ new \in Version \cup {Empty}
        /\ ProposalSound(old) /\ ApprovalSound(old)
    BY CommandShape DEF ChampionInv, TypeOK, CommandsSound
  <2>4. new.rev = active.rev + 1 /\ new \in Version
    <3>1. new.rev \in 1..active.rev + 1
      BY <2>1, <2>3 DEF ProposalSound, Proposing
    <3>2. new.rev \notin 1..active.rev
      BY <1>2 DEF ChampionInv, RevisionChain
    <3> QED
      BY <2>2, <2>3, <3>1, <3>2, VersionShape
  <2>5. /\ cmd \in Command /\ cmd.op = old.op /\ cmd.at = "activate"
        /\ cmd.promo = old.promo /\ cmd.version = new
    <3>1. old.op \in {"bootstrap", "approve", "rollback"}
      BY <2>1, <2>3, <2>4 DEF ProposalSound, Proposing, Follows
    <3>2. old.promo \in Promotions \cup {None}
      BY <2>3, CommandShape
    <3> QED
      BY <2>3, <3>1, <3>2, RunningShape
  <2> HIDE DEF cmd
  <2>6. /\ client' \in [Clients -> Command]
        /\ client'[c] = cmd
        /\ \A d \in Clients \ {c} : client'[d] = client[d]
    BY <2>1, <2>5, MoveShape DEF ChampionInv, TypeOK
  <2>7. TypeOK'
    BY <2>1, <2>4, <2>6 DEF ChampionInv, TypeOK
  <2>8. RevisionChain'
    BY <1>2, <2>1, <2>2, <2>4 DEF ChampionInv, RevisionChain
  <2>9. ApprovedOnly'
    BY <2>1, <2>3 DEF ChampionInv, ApprovedOnly, ApprovalSound
  <2>10. OneActivating'
    <3>1. \A d \in Clients : client[d].at # "activate"
      BY <1>2, <2>4 DEF ChampionInv, OneActivating
    <3> QED
      BY <2>1, <2>4, <2>5, <2>6, <3>1 DEF OneActivating
  <2>11. CommandsSound'
    <3> SUFFICES ASSUME NEW d \in Clients
                 PROVE  ProposalSound(client[d])' /\ ApprovalSound(client[d])'
      BY DEF CommandsSound
    <3>1. CASE d = c
      <4>1. Follows(old.op, new)
        BY <2>1, <2>3, <2>4 DEF ProposalSound, Proposing
      <4>2. \A op, version : Follows(op, version) => Follows(op, version)'
        BY <2>1 DEF Follows
      <4>3. ProposalSound(client[d])'
        BY <2>1, <2>2, <2>4, <2>5, <2>6, <3>1, <4>1, <4>2 DEF ProposalSound
      <4>4. ApprovalSound(client[d])'
        BY <2>1, <2>3, <2>5, <2>6, <3>1 DEF ApprovalSound
      <4> QED
        BY <4>3, <4>4
    <3>2. CASE d # c
      <4>1. client'[d] = client[d] /\ ProposalSound(client[d]) /\ ApprovalSound(client[d])
        BY <2>6, <3>2 DEF ChampionInv, CommandsSound
      <4> QED
        BY <2>1, <4>1 DEF ProposalSound, Proposing, Follows, ApprovalSound
    <3> QED
      BY <3>1, <3>2
  <2> QED
    BY <2>7, <2>8, <2>9, <2>10, <2>11 DEF ChampionInv
<1> QED
  BY <1>1, <1>2

LEMMA PutActiveStep ==
  ASSUME ChampionInv, NEW c \in Clients, PutActive(c)
  PROVE  ChampionInv'
<1> DEFINE old == client[c]
           new == old.version
           cmd == IF old.op = "approve" THEN Running(old.op, "settle", old.promo, new) ELSE Idle
<1>1. /\ old.at = "activate" /\ Move(c, cmd)
      /\ active' = new
      /\ UNCHANGED <<history, requests, decisions>>
  BY DEF PutActive, Goto
<1>2. /\ new \in history /\ new \in Version /\ new.rev = active.rev + 1
      /\ active.rev \in Nat
  BY <1>1, VersionShape DEF ChampionInv, TypeOK, OneActivating
<1>3. /\ cmd \in Command /\ cmd.at # "activate"
      /\ old.op = "approve" => /\ cmd.at = "settle" /\ cmd.op = "approve"
                               /\ cmd.promo = old.promo /\ cmd.version = new
      /\ old.op # "approve" => cmd = Idle
  <2>1. old \in Command /\ old.promo \in Promotions \cup {None}
    BY CommandShape DEF ChampionInv, TypeOK
  <2>2. CASE old.op = "approve"
    BY <1>2, <2>1, <2>2, RunningShape
  <2>3. CASE old.op # "approve"
    BY <2>3, CommandShape
  <2> QED
    BY <2>2, <2>3
<1> HIDE DEF cmd
<1>4. /\ client' \in [Clients -> Command]
      /\ client'[c] = cmd
      /\ \A d \in Clients \ {c} : client'[d] = client[d] /\ client[d].at # "activate"
  BY <1>1, <1>3, MoveShape DEF ChampionInv, TypeOK, OneActivating
<1>5. TypeOK'
  BY <1>1, <1>2, <1>4 DEF ChampionInv, TypeOK
<1>6. RevisionChain'
  BY <1>1, <1>2, VersionShape DEF ChampionInv, TypeOK, RevisionChain
<1>7. ApprovedOnly'
  BY <1>1, <1>2, VersionShape DEF ChampionInv, TypeOK, ApprovedOnly
<1>8. OneActivating'
  BY <1>3, <1>4 DEF OneActivating
<1>9. CommandsSound'
  <2> SUFFICES ASSUME NEW d \in Clients
               PROVE  ProposalSound(client[d])' /\ ApprovalSound(client[d])'
    BY DEF CommandsSound
  <2>1. ProposalSound(old) /\ ApprovalSound(old) /\ old.promo \in Promotions \cup {None}
    BY CommandShape DEF ChampionInv, TypeOK, CommandsSound
  <2>2. CASE d = c /\ old.op = "approve"
    <3>1. new.source = old.promo /\ new.source # None /\ new.fp = Challenger[old.promo]
      BY <1>1, <2>1, <2>2 DEF ApprovalSound
    <3> QED
      BY <1>1, <1>2, <1>3, <1>4, <2>2, <3>1 DEF ProposalSound, Proposing, ApprovalSound
  <2>3. CASE d = c /\ old.op # "approve"
    BY <1>3, <1>4, <2>3, CommandShape DEF ProposalSound, Proposing, ApprovalSound
  <2>4. CASE d # c
    <3>1. client'[d] = client[d] /\ ProposalSound(client[d]) /\ ApprovalSound(client[d])
      BY <1>4, <2>4 DEF ChampionInv, CommandsSound
    <3>2. ProposalSound(client[d])'
      BY <1>1, <1>2, <3>1 DEF ProposalSound
    <3>3. ApprovalSound(client[d])'
      BY <1>1, <1>2, <3>1, VersionShape DEF ApprovalSound, ChampionInv, TypeOK
    <3> QED
      BY <3>2, <3>3
  <2> QED
    BY <2>2, <2>3, <2>4
<1> QED
  BY <1>5, <1>6, <1>7, <1>8, <1>9 DEF ChampionInv

-----------------------------------------------------------------------------
(* The invariant.                                                          *)

LEMMA InitInv == Init => ChampionInv
<1> SUFFICES ASSUME Init PROVE ChampionInv
  OBVIOUS
<1>1. TypeOK
  BY CommandShape DEF Init, TypeOK, Status
<1>2. RevisionChain /\ ApprovedOnly
  BY VersionShape DEF Init, RevisionChain, ApprovedOnly
<1>3. \A c \in Clients : client[c] = Idle
  BY DEF Init
<1>4. OneActivating /\ CommandsSound
  BY <1>3, CommandShape, IdleIsSound DEF OneActivating, CommandsSound
<1> QED
  BY <1>1, <1>2, <1>4 DEF ChampionInv

LEMMA NextInv == ChampionInv /\ [Next]_vars => ChampionInv'
<1> SUFFICES ASSUME ChampionInv, [Next]_vars PROVE ChampionInv'
  OBVIOUS
<1>1. CASE UNCHANGED vars
  BY <1>1 DEF vars, ChampionInv, TypeOK, RevisionChain, ApprovedOnly, OneActivating,
              CommandsSound, ProposalSound, Proposing, Follows, ApprovalSound
<1>2. CASE Next
  <2>1. PICK c \in Clients :
          \/ \E fp \in Fingerprints : Bootstrap(c, fp)
          \/ \E p \in Promotions : Request(c, p) \/ Approve(c, p) \/ Reject(c, p)
          \/ Rollback(c) \/ Continue(c) \/ Abort(c)
    BY <1>2 DEF Next
  <2>2. CASE \E fp \in Fingerprints : Bootstrap(c, fp)
    BY <2>2, BootstrapStep
  <2>3. CASE \E p \in Promotions : Request(c, p) \/ Approve(c, p) \/ Reject(c, p)
    BY <2>3, RequestStep
  <2>4. CASE Rollback(c) \/ Abort(c)
    BY <2>4, RollbackStep, AbortStep
  <2>5. CASE Continue(c)
    BY <2>5, ReadCurrentStep, AddRequestStep, AddDecisionStep, AddHistoryStep,
       PutActiveStep, UpdateRequestStep DEF Continue
  <2> QED
    BY <2>1, <2>2, <2>3, <2>4, <2>5
<1> QED
  BY <1>1, <1>2

\* The inductive invariant holds in every reachable state.
THEOREM InvariantHolds == Spec => []ChampionInv
BY InitInv, NextInv, PTL DEF Spec

\* All variables keep their types.
THEOREM TypeCorrect == Spec => []TypeOK
<1>1. ChampionInv => TypeOK
  BY DEF ChampionInv
<1> QED
  BY <1>1, InvariantHolds, PTL

\* The unique revision alone orders the activations of any number of processes,
\* wherever they die (champion_registry.py:348-369).
THEOREM RevisionsChain == Spec => []RevisionChain
<1>1. ChampionInv => RevisionChain
  BY DEF ChampionInv
<1> QED
  BY <1>1, InvariantHolds, PTL

\* No champion without an approval, none reported activated that never was
\* (champion_registry.py:274-308).
THEOREM ChampionsAreApproved == Spec => []ApprovedOnly
<1>1. ChampionInv => ApprovedOnly
  BY DEF ChampionInv
<1> QED
  BY <1>1, InvariantHolds, PTL

-----------------------------------------------------------------------------
(* The refinement.                                                         *)

\* A revision names one version of the history.
LEMMA VersionAt ==
  ASSUME RevisionChain, NEW v \in history
  PROVE  At(history, v.rev) = v
BY DEF RevisionChain, At

\* What the slot keeps of a version.
Entries == [fp : Fingerprints, kind : {"bootstrap", "promotion", "rollback"}]

LEMMA EntryShape ==
  ASSUME NEW v \in Version
  PROVE  Champion(v) \in Entries /\ Champion(v).fp = v.fp /\ Champion(v).kind = v.kind
BY VersionShape DEF Champion, Entries

\* The champions so far, by any version of their revision.
LEMMA ChampionsShape ==
  ASSUME TypeOK, RevisionChain
  PROVE  /\ active.rev \in Nat
         /\ Champions \in Seq(Entries)
         /\ Len(Champions) = active.rev
         /\ \A v \in history : v.rev <= active.rev => Champions[v.rev] = Champion(v)
<1>1. active.rev \in Nat
  BY VersionShape DEF TypeOK
<1>2. \A i \in 1..active.rev : Champion(At(history, i)) \in Entries
  <2> SUFFICES ASSUME NEW i \in 1..active.rev
               PROVE  Champion(At(history, i)) \in Entries
    OBVIOUS
  <2>1. PICK v \in history : v.rev = i
    BY DEF RevisionChain
  <2> QED
    BY <2>1, VersionAt, EntryShape DEF TypeOK
<1>3. \A v \in history : v.rev \in Nat \ {0}
  BY VersionShape DEF TypeOK
<1>4. \A v \in history : v.rev <= active.rev => Champions[v.rev] = Champion(v)
  BY <1>1, <1>3, VersionAt DEF Champions
<1>5. Champions \in [1..active.rev -> Entries]
  BY <1>2 DEF Champions
<1> QED
  BY <1>1, <1>4, <1>5

\* Two versions of the table that agree up to the active revision have the same
\* champions.
LEMMA ChampionsKept ==
  ASSUME ChampionInv, ChampionInv', active' = active, history \subseteq history'
  PROVE  Champions' = Champions
<1>1. \A i \in 1..active.rev : At(history', i) = At(history, i)
  <2> SUFFICES ASSUME NEW i \in 1..active.rev
               PROVE  At(history', i) = At(history, i)
    OBVIOUS
  <2>1. PICK v \in history : v.rev = i
    BY DEF ChampionInv, RevisionChain
  <2>2. \A w \in history' : w.rev = v.rev <=> w = v
    BY DEF ChampionInv, RevisionChain
  <2>3. \A w \in history : w.rev = v.rev <=> w = v
    BY DEF ChampionInv, RevisionChain
  <2> QED
    BY <2>1, <2>2, <2>3 DEF At
<1> QED
  BY <1>1 DEF Champions

\* A sequence that agrees with s and has e after it is s with e appended.
LEMMA AppendAs ==
  ASSUME NEW S, NEW s \in Seq(S), NEW e \in S, NEW t \in Seq(S),
         Len(t) = Len(s) + 1,
         \A i \in 1..Len(s) : t[i] = s[i],
         t[Len(s) + 1] = e
  PROVE  t = Append(s, e)
<1>1. /\ Append(s, e) \in Seq(S) /\ Len(Append(s, e)) = Len(s) + 1
      /\ \A i \in 1..Len(s) : Append(s, e)[i] = s[i]
      /\ Append(s, e)[Len(s) + 1] = e
  BY AppendProperties
<1>2. \A i \in 1..Len(t) : t[i] = Append(s, e)[i]
  BY <1>1
<1> QED
  BY <1>1, <1>2, SeqEqual

\* Putting a version active appends it.
LEMMA PutActiveAppends ==
  ASSUME ChampionInv, ChampionInv', NEW c \in Clients, PutActive(c)
  PROVE  /\ client[c].version \in history
         /\ Champions' = Append(Champions, Champion(client[c].version))
<1> DEFINE new == client[c].version
<1>1. /\ new \in history /\ new.rev = active.rev + 1
      /\ active' = new /\ history' = history
  BY DEF PutActive, ChampionInv, OneActivating
<1>2. Champion(new) \in Entries
  BY <1>1, EntryShape DEF ChampionInv, TypeOK
<1>3. active.rev \in Nat /\ RevisionChain
  BY ChampionsShape DEF ChampionInv
<1>4. Champion(At(history, active.rev + 1)) = Champion(new)
  BY <1>1, <1>3, VersionAt
<1>5. Champions' = [i \in 1..active.rev + 1 |-> Champion(At(history, i))]
  BY <1>1 DEF Champions
<1>6. Champions \in Seq(Entries) /\ Len(Champions) = active.rev
  BY ChampionsShape DEF ChampionInv
<1>7. \A i \in 1..active.rev : Champions[i] = Champion(At(history, i))
  BY DEF Champions
<1> HIDE DEF new
<1>8. Champions' \in Seq(Entries) /\ Len(Champions') = Len(Champions) + 1
  <2>1. \A i \in 1..active.rev + 1 : Champion(At(history, i)) \in Entries
    <3> SUFFICES ASSUME NEW i \in 1..active.rev + 1
                 PROVE  Champion(At(history, i)) \in Entries
      OBVIOUS
    <3>1. CASE i = active.rev + 1
      BY <1>2, <1>4, <3>1
    <3>2. CASE i \in 1..active.rev
      BY <1>6, <1>7, <3>2
    <3> QED
      BY <1>3, <3>1, <3>2
  <2> QED
    BY <1>3, <1>5, <1>6, <2>1
<1>9. /\ \A i \in 1..Len(Champions) : Champions'[i] = Champions[i]
      /\ Champions'[Len(Champions) + 1] = Champion(new)
  BY <1>3, <1>4, <1>5, <1>6, <1>7
<1>10. Champions' = Append(Champions, Champion(new))
  BY <1>2, <1>6, <1>8, <1>9, AppendAs
<1> QED
  BY <1>1, <1>10 DEF new

\* An activation is the slot's step of its kind.
LEMMA PutActiveImplements ==
  ASSUME ChampionInv, ChampionInv', NEW c \in Clients, PutActive(c)
  PROVE  Slot!Next
<1> DEFINE cmd == client[c]
           new == client[c].version
           entry(kind) == [fp |-> new.fp, kind |-> kind]
<1>1. new \in history /\ new \in Version /\ Champions' = Append(Champions, Champion(new))
  BY PutActiveAppends DEF ChampionInv, TypeOK
<1>2. Follows(cmd.op, new) /\ ApprovalSound(cmd) /\ cmd.at = "activate"
  BY DEF PutActive, ChampionInv, OneActivating, CommandsSound, ProposalSound, Proposing
<1>3. /\ active.rev \in Nat /\ Len(Champions) = active.rev /\ Champions \in Seq(Entries)
      /\ \A v \in history : v.rev <= active.rev => Champions[v.rev] = Champion(v)
  BY ChampionsShape DEF ChampionInv
<1>4. Approved' = Approved
  BY DEF PutActive, Approved
<1>5. Champions' = Append(Champions, entry(new.kind))
  BY <1>1 DEF Champion
<1>6. CASE cmd.op = "bootstrap"
  <2>1. new.kind = "bootstrap" /\ active = Empty
    BY <1>2, <1>6 DEF Follows
  <2>2. Champions = <<>>
    BY <1>3, <2>1, VersionShape
  <2>3. new.fp \in Fingerprints
    BY <1>1, VersionShape
  <2> QED
    BY <1>4, <1>5, <2>1, <2>2, <2>3 DEF Slot!Next, Slot!Bootstrap, Slot!Activate
<1>7. CASE cmd.op = "approve"
  <2>1. new.kind = "promotion" /\ new.fp # active.fp
    BY <1>2, <1>7 DEF Follows
  <2>2. new.source = cmd.promo /\ cmd.promo # None /\ new.fp = Challenger[cmd.promo]
    BY <1>2, <1>7 DEF ApprovalSound
  <2>3. cmd.promo \in Promotions
    BY <1>1, <2>2, VersionShape
  <2>4. cmd.promo \in Approved
    BY <1>1, <2>2, <2>3 DEF ChampionInv, ApprovedOnly, Approved
  <2>5. Champions # <<>> => Champions[Len(Champions)].fp = active.fp
    <3> SUFFICES ASSUME Champions # <<>>
                 PROVE  Champions[Len(Champions)].fp = active.fp
      OBVIOUS
    <3>1. active.rev # 0
      BY <1>3
    <3>2. active \in history
      BY <3>1, VersionShape DEF ChampionInv, RevisionChain
    <3>3. active \in Version
      BY <3>2 DEF ChampionInv, TypeOK
    <3> QED
      BY <1>3, <3>2, <3>3, EntryShape
  <2> QED
    BY <1>4, <1>5, <2>1, <2>2, <2>3, <2>4, <2>5 DEF Slot!Next, Slot!Promote, Slot!Activate
<1>8. CASE cmd.op = "rollback"
  <2>1. new.kind = "rollback"
    BY <1>2, <1>8 DEF Follows
  <2>2. PICK v \in history : v.rev + 1 = active.rev /\ v.fp = new.fp
    BY <1>2, <1>8 DEF Follows
  <2>3. v \in Version /\ v.rev \in Nat \ {0}
    BY VersionShape DEF ChampionInv, TypeOK
  <2>4. Len(Champions) >= 2 /\ Champions[Len(Champions) - 1].fp = new.fp
    BY <1>3, <2>2, <2>3, EntryShape
  <2> QED
    BY <1>4, <1>5, <2>1, <2>4 DEF Slot!Next, Slot!Rollback, Slot!Activate
<1> QED
  BY <1>2, <1>6, <1>7, <1>8 DEF Follows

\* A decision is an approval, or not seen by the slot.
LEMMA AddDecisionApproves ==
  ASSUME ChampionInv, NEW c \in Clients, AddDecision(c), Champions' = Champions
  PROVE  Slot!Next \/ UNCHANGED Slot!slot
<1>1. client[c].promo \in Promotions /\ client[c].op \in {"approve", "reject"}
  BY CommandShape DEF AddDecision, ChampionInv, TypeOK, CommandsSound, ApprovalSound
<1>2. decisions' = decisions \cup {<<client[c].promo, client[c].op>>}
  BY DEF AddDecision
<1>3. CASE client[c].op = "approve"
  <2>1. Approved' = Approved \cup {client[c].promo}
    BY <1>1, <1>2, <1>3 DEF Approved
  <2> QED
    BY <1>1, <2>1 DEF Slot!Next, Slot!Approve
<1>4. CASE client[c].op = "reject"
  <2>1. Approved' = Approved
    BY <1>2, <1>4 DEF Approved
  <2> QED
    BY <2>1 DEF Slot!slot
<1> QED
  BY <1>1, <1>3, <1>4

\* Every step is one of the atomic slot, or changes nothing there.
LEMMA NextImplements ==
  ASSUME ChampionInv, ChampionInv', [Next]_vars
  PROVE  Slot!Next \/ UNCHANGED Slot!slot
<1>1. CASE \E c \in Clients : PutActive(c)
  BY <1>1, PutActiveImplements
<1>2. CASE ~ \E c \in Clients : PutActive(c)
  <2>1. active' = active /\ history \subseteq history'
    BY <1>2 DEF Next, vars, Bootstrap, Request, Approve, Reject, Rollback, Continue, Abort,
                ReadCurrent, AddRequest, AddDecision, AddHistory, UpdateRequest
  <2>2. Champions' = Champions
    BY <2>1, ChampionsKept
  <2>3. CASE \E c \in Clients : AddDecision(c)
    BY <2>2, <2>3, AddDecisionApproves
  <2>4. CASE ~ \E c \in Clients : AddDecision(c)
    <3>1. decisions' = decisions
      BY <1>2, <2>4 DEF Next, vars, Bootstrap, Request, Approve, Reject, Rollback, Continue,
                        Abort, ReadCurrent, AddRequest, AddHistory, UpdateRequest
    <3> QED
      BY <2>2, <3>1 DEF Approved, Slot!slot
  <2> QED
    BY <2>3, <2>4
<1> QED
  BY <1>1, <1>2

\* The registry implements the atomic slot: the reads a command decides on are still
\* true when its version becomes the champion (champion_registry.py:274-369).
THEOREM RegistryImplementsSlot == Spec => ImplementsSlot
<1>1. Init => Slot!Init
  <2> SUFFICES ASSUME Init PROVE Champions = <<>>
    BY DEF Slot!Init, Approved, Init
  <2>1. ChampionInv /\ active.rev = 0
    BY InitInv, VersionShape DEF Init
  <2> QED
    BY <2>1, ChampionsShape DEF ChampionInv
<1>2. ChampionInv /\ ChampionInv' /\ [Next]_vars => [Slot!Next]_(Slot!slot)
  BY NextImplements
<1> QED
  BY <1>1, <1>2, InvariantHolds, PTL DEF Spec, ImplementsSlot, Slot!Spec

=============================================================================
