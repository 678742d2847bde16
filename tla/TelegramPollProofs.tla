------------------------- MODULE TelegramPollProofs --------------------------
(***************************************************************************)
(* Proofs about TelegramPoll for any number of updates, pollers, attempts  *)
(* and batch sizes: PollInv is inductive, and polling implements Inbox.    *)
(***************************************************************************)
EXTENDS TelegramPoll, TLAPS

(* What is safe stays safe, and anything earlier is safe too.              *)
LEMMA SafeGrows ==
  ASSUME NEW o, processed \subseteq processed', SafeAt(o)
  PROVE  SafeAt(o)'
BY DEF SafeAt

LEMMA SafeBelow ==
  ASSUME NEW a \in 0..N + 1, NEW b \in 0..N + 1, b <= a, SafeAt(a)
  PROVE  SafeAt(b)
BY PollConstants DEF SafeAt, Updates

(* The records a poller becomes are pollers.                               *)
LEMMA HandlingTyped ==
  ASSUME NEW at \in {"update", "reply", "save", "write"},
         NEW cur \in 0..N, NEW last \in 0..N, NEW try \in 0..Attempts
  PROVE  /\ Handling(at, cur, last, try) \in Poller
         /\ Handling(at, cur, last, try).at = at
         /\ Handling(at, cur, last, try).cur = cur
         /\ Handling(at, cur, last, try).last = last
         /\ Handling(at, cur, last, try).try = try
BY PollConstants DEF Handling, Poller

LEMMA IdleTyped == Idle \in Poller /\ Idle.at = "idle"
BY PollConstants DEF Idle, Poller

LEMMA FetchingTyped ==
  ASSUME NEW want \in 0..N + 1
  PROVE  Fetching(want) \in Poller /\ Fetching(want).at = "fetch" /\ Fetching(want).want = want
BY PollConstants DEF Fetching, Poller

(* Of a step of p, the invariant has to be shown of p itself only.         *)
LEMMA StepOfOne ==
  ASSUME PollInv, NEW p \in Pollers, NEW w \in Poller, Become(p, w),
         arrived' \in 0..N, confirmed' \in 1..N + 1, offset' \in 0..N + 1,
         processed \subseteq processed', processed' \subseteq Updates,
         delivered' \in [Updates -> 0..Attempts],
         \A u \in Updates :
           delivered'[u] = delivered[u] \/ (poller[p].at = "reply" /\ poller[p].cur = u),
         w.at = "reply" =>
           \/ poller[p].at = "reply" /\ poller[p].cur = w.cur
           \/ w.cur \notin processed,
         PollerSound(p)', OffsetIsSafe'
  PROVE  PollInv'
<1> USE DEF PollInv
<1>1. TypeOK'
  BY DEF TypeOK, Become
<1>2. /\ poller'[p] = w
      /\ \A q \in Pollers : q # p => poller'[q] = poller[q]
  BY DEF TypeOK, Become
<1>3. ASSUME NEW q \in Pollers PROVE PollerSound(q)'
  <2>1. CASE q = p
    BY <2>1
  <2>2. CASE q # p
    <3>1. poller'[q] = poller[q] /\ PollerSound(q)
      BY <1>2, <2>2
    <3>2. poller[q].at = "reply" => delivered'[poller[q].cur] = delivered[poller[q].cur]
      BY <3>1, <2>2 DEF PollerSound, OneReplying
    <3> QED
      BY <3>1, <3>2, SafeGrows DEF PollerSound
  <2> QED
    BY <2>1, <2>2
<1>4. OneReplying'
  BY <1>2 DEF OneReplying, PollerSound
<1>5. \A u \in Updates \ processed' : delivered'[u] = 0
  BY DEF PollerSound
<1> QED
  BY <1>1, <1>3, <1>4, <1>5

(* What a poller that works on an update knows of it.                      *)
LEMMA AtUpdate ==
  ASSUME PollInv, NEW p \in Pollers,
         poller[p].at \in {"update", "reply", "save", "write"}
  PROVE  /\ poller[p].cur \in Updates /\ poller[p].cur \in 0..N
         /\ poller[p].last \in 0..N /\ poller[p].cur <= poller[p].last
         /\ poller[p].cur + 1 \in 0..N + 1
         /\ poller[p].try \in 0..Attempts
         /\ poller[p].at = "update" => SafeAt(poller[p].cur)
         /\ poller[p].at # "update" => SafeAt(poller[p].cur + 1)
<1>1. poller[p] \in Poller /\ PollerSound(p)
  BY DEF PollInv, TypeOK
<1>2. /\ poller[p].cur \in Updates /\ poller[p].cur <= poller[p].last
      /\ poller[p].at = "update" => SafeAt(poller[p].cur)
      /\ poller[p].at # "update" => SafeAt(poller[p].cur + 1)
  BY <1>1 DEF PollerSound
<1>3. poller[p].cur \in 0..N /\ poller[p].cur + 1 \in 0..N + 1
  BY <1>2, PollConstants DEF Updates
<1>4. poller[p].last \in 0..N /\ poller[p].try \in 0..Attempts
  BY <1>1 DEF Poller
<1> QED BY <1>2, <1>3, <1>4

(* The places a poller moves on to without delivering anything: it becomes
   idle, fetches from a safe offset, works on a safe update, or is past one. *)
LEMMA Harmless ==
  ASSUME PollInv, NEW p \in Pollers, NEW w \in Poller, Become(p, w), w.at # "reply",
         arrived' \in 0..N, confirmed' \in 1..N + 1, offset' \in 0..N + 1,
         UNCHANGED <<processed, delivered>>,
         w.at = "fetch" => SafeAt(w.want),
         w.at = "update" => SafeAt(w.cur),
         w.at \in {"save", "write"} => SafeAt(w.cur + 1),
         w.at \in {"update", "save", "write"} => w.cur \in Updates /\ w.cur <= w.last,
         SafeAt(confirmed'), SafeAt(offset')
  PROVE  PollInv'
<1>1. poller' \in [Pollers -> Poller] /\ poller'[p] = w
  BY DEF PollInv, TypeOK, Become
<1>2. ASSUME NEW o, SafeAt(o) PROVE \A u \in Updates : u < o /\ HasMessage(u) =>
        u \in processed' \/ \E manual \in ManualOffsets : u < manual
  BY <1>2 DEF SafeAt
<1>3. PollerSound(p)'
  BY <1>1, <1>2 DEF PollerSound, SafeAt, Poller
<1>4. OffsetIsSafe'
  BY <1>2 DEF OffsetIsSafe, SafeAt
<1> QED
  BY <1>3, <1>4, StepOfOne DEF PollInv, TypeOK

LEMMA AfterUpdateTyped ==
  ASSUME NEW w \in Poller, w.cur \in Updates, w.cur <= w.last
  PROVE  /\ AfterUpdate(w) \in Poller
         /\ AfterUpdate(w).at \in {"idle", "update"}
         /\ AfterUpdate(w).at = "update" =>
              /\ AfterUpdate(w).cur = w.cur + 1
              /\ AfterUpdate(w).cur \in Updates
              /\ AfterUpdate(w).cur <= AfterUpdate(w).last
<1>1. w.cur \in 0..N /\ w.last \in 0..N
  BY DEF Poller
<1>2. CASE w.cur = w.last
  BY <1>2, IdleTyped DEF AfterUpdate
<1>3. CASE w.cur # w.last
  <2>1. w.cur + 1 \in Updates /\ w.cur + 1 \in 0..N /\ w.cur + 1 <= w.last
    BY <1>1, <1>3, PollConstants DEF Updates
  <2>2. 0 \in 0..Attempts
    BY PollConstants
  <2>3. AfterUpdate(w) = Handling("update", w.cur + 1, w.last, 0)
    BY <1>3 DEF AfterUpdate
  <2> QED
    BY <1>1, <2>1, <2>2, <2>3, HandlingTyped
<1> QED
  BY <1>2, <1>3

(* At: the next place for the same update.                                 *)
LEMMA AtTyped ==
  ASSUME PollInv, NEW p \in Pollers, NEW at \in {"save", "write", "reply"},
         poller[p].at \in {"update", "reply", "save", "write"}
  PROVE  /\ At(poller[p], at) \in Poller
         /\ At(poller[p], at).at = at
         /\ At(poller[p], at).cur = poller[p].cur
         /\ At(poller[p], at).last = poller[p].last
         /\ At(poller[p], at).try = 0
<1>1. 0 \in 0..Attempts
  BY PollConstants
<1> QED
  BY <1>1, AtUpdate, HandlingTyped DEF At

(* Each action preserves the invariant.                                    *)
LEMMA InitPoll == Init => PollInv
<1> SUFFICES ASSUME Init PROVE PollInv
  OBVIOUS
<1>1. \A p \in Pollers : poller[p] \in Poller /\ poller[p].at = "idle"
  BY IdleTyped DEF Init
<1>2. TypeOK
  BY <1>1, IdleTyped, PollConstants DEF Init, TypeOK, Updates
<1>3. OffsetIsSafe
  BY PollConstants DEF Init, OffsetIsSafe, SafeAt, Updates
<1>4. \A p \in Pollers : PollerSound(p)
  BY <1>1 DEF PollerSound
<1> QED
  BY <1>1, <1>2, <1>3, <1>4 DEF PollInv, OneReplying, Init

LEMMA ArriveKeeps == ASSUME PollInv, Arrive PROVE PollInv'
<1>1. TypeOK'
  BY PollConstants DEF PollInv, TypeOK, Arrive, database
<1>2. UNCHANGED <<confirmed, delivered, offset, processed, poller>>
  BY DEF Arrive, database
<1>3. OffsetIsSafe'
  BY <1>2 DEF PollInv, OffsetIsSafe, SafeAt
<1>4. ASSUME NEW p \in Pollers PROVE PollerSound(p)'
  BY <1>2 DEF PollInv, PollerSound, SafeAt
<1> QED
  BY <1>1, <1>2, <1>3, <1>4 DEF PollInv, OneReplying

LEMMA BeginKeeps == ASSUME PollInv, NEW p \in Pollers, Begin(p) PROVE PollInv'
<1>1. Fetching(offset) \in Poller /\ Fetching(offset).at = "fetch" /\ Fetching(offset).want = offset
  BY FetchingTyped DEF PollInv, TypeOK
<1> QED
  BY <1>1, Harmless DEF PollInv, TypeOK, OffsetIsSafe, Begin, telegram, database

LEMMA BeginAtKeeps ==
  ASSUME PollInv, NEW p \in Pollers, NEW o \in ManualOffsets, BeginAt(p, o) PROVE PollInv'
<1>1. o \in 0..N + 1
  BY PollConstants
<1>2. Fetching(o) \in Poller /\ Fetching(o).at = "fetch" /\ Fetching(o).want = o
  BY <1>1, FetchingTyped
<1>3. SafeAt(o)
  BY DEF SafeAt
<1> QED
  BY <1>2, <1>3, Harmless DEF PollInv, TypeOK, OffsetIsSafe, BeginAt, telegram, database

LEMMA FetchKeeps == ASSUME PollInv, NEW p \in Pollers, Fetch(p) PROVE PollInv'
<1> DEFINE first == Later(confirmed, poller[p].want)
           last == IF arrived < first + Limit - 1 THEN arrived ELSE first + Limit - 1
           w == IF first > arrived THEN Idle ELSE Handling("update", first, last, 0)
<1>1. /\ confirmed' = first /\ Become(p, w)
      /\ UNCHANGED <<arrived, delivered, offset, processed>>
  BY DEF Fetch, database
<1>2. first \in 1..N + 1 /\ SafeAt(first) /\ arrived \in 0..N
  BY PollConstants DEF PollInv, TypeOK, Poller, PollerSound, OffsetIsSafe, Later, Fetch
<1>3. first <= arrived => /\ first \in Updates /\ first \in 0..N
                          /\ last \in 0..N /\ first <= last /\ 0 \in 0..Attempts
  <2> HIDE DEF first
  <2> QED BY <1>2, PollConstants DEF Updates
<1>4. /\ w \in Poller /\ w.at \in {"idle", "update"}
      /\ w.at = "update" => w.cur = first /\ w.cur \in Updates /\ w.cur <= w.last
  <2> HIDE DEF first, last
  <2>1. CASE first > arrived
    BY <2>1, IdleTyped
  <2>2. CASE first <= arrived
    <3>1. w = Handling("update", first, last, 0)
      BY <1>2, <2>2
    <3> QED
      BY <2>2, <3>1, <1>3, HandlingTyped
  <2> QED
    BY <2>1, <2>2, <1>2
<1> HIDE DEF first, w
<1> QED
  BY <1>1, <1>2, <1>4, Harmless DEF PollInv, TypeOK, OffsetIsSafe

LEMMA SkipKeeps == ASSUME PollInv, NEW p \in Pollers, Skip(p) PROVE PollInv'
<1>1. poller[p].at = "update" /\ Become(p, At(poller[p], "save"))
      /\ UNCHANGED <<telegram, database>>
  BY DEF Skip
<1>2. SafeAt(poller[p].cur + 1)
  <2>1. poller[p].cur \in 0..N /\ SafeAt(poller[p].cur)
    BY <1>1, AtUpdate
  <2>2. HasMessage(poller[p].cur) => poller[p].cur \in processed
    BY DEF Skip, HasMessage
  <2>3. \A u \in Updates : u < poller[p].cur + 1 => u < poller[p].cur \/ u = poller[p].cur
    BY <2>1, PollConstants DEF Updates
  <2> QED
    BY <2>1, <2>2, <2>3 DEF SafeAt
<1> QED
  BY <1>1, <1>2, AtTyped, AtUpdate, Harmless DEF PollInv, TypeOK, OffsetIsSafe, telegram, database

LEMMA TakeKeeps == ASSUME PollInv, NEW p \in Pollers, Take(p) PROVE PollInv'
<1> DEFINE w == At(poller[p], "reply")
<1>1. /\ poller[p].at = "update" /\ poller[p].cur \notin processed /\ Become(p, w)
      /\ processed' = processed \cup {poller[p].cur}
      /\ UNCHANGED <<arrived, confirmed, delivered, offset>>
  BY DEF Take, telegram
<1>2. w \in Poller /\ w.at = "reply" /\ w.cur = poller[p].cur /\ w.last = poller[p].last /\ w.try = 0
  BY <1>1, AtTyped
<1>3. /\ poller[p].cur \in Updates /\ poller[p].cur \in 0..N /\ poller[p].cur <= poller[p].last
      /\ SafeAt(poller[p].cur)
  BY <1>1, AtUpdate
<1>4. poller'[p] = w
  BY <1>1 DEF PollInv, TypeOK, Become
<1> HIDE DEF w
<1>5. delivered'[poller[p].cur] = 0
  BY <1>1, <1>3 DEF PollInv
<1>6. SafeAt(poller[p].cur + 1)'
  <2>1. \A u \in Updates : u < poller[p].cur + 1 => u < poller[p].cur \/ u = poller[p].cur
    BY <1>3, PollConstants DEF Updates
  <2>2. \A u \in Updates : u < poller[p].cur + 1 /\ HasMessage(u) =>
          u \in processed' \/ \E manual \in ManualOffsets : u < manual
    BY <1>1, <1>3, <2>1 DEF SafeAt
  <2> QED
    BY <1>2, <1>4, <2>2, <1>1 DEF SafeAt
<1>7. PollerSound(p)'
  BY <1>1, <1>2, <1>3, <1>4, <1>5, <1>6, PollConstants DEF PollerSound
<1>8. OffsetIsSafe'
  BY <1>1, SafeGrows DEF PollInv, OffsetIsSafe, SafeAt
<1> QED
  BY <1>1, <1>2, <1>3, <1>7, <1>8, StepOfOne DEF PollInv, TypeOK

LEMMA RetriedTyped ==
  ASSUME PollInv, NEW p \in Pollers, poller[p].at = "reply"
  PROVE  /\ Retried(poller[p]) \in Poller
         /\ Retried(poller[p]).at \in {"reply", "save"}
         /\ Retried(poller[p]).cur = poller[p].cur
         /\ Retried(poller[p]).last = poller[p].last
         /\ Retried(poller[p]).at = "reply" =>
              Retried(poller[p]).try = poller[p].try + 1 /\ Retried(poller[p]).try < Attempts
<1>1. CASE poller[p].try + 1 < Attempts
  <2>1. poller[p].try + 1 \in 0..Attempts /\ poller[p].cur \in 0..N /\ poller[p].last \in 0..N
    BY <1>1, AtUpdate, PollConstants
  <2>2. Retried(poller[p]) = Handling("reply", poller[p].cur, poller[p].last, poller[p].try + 1)
    BY <1>1 DEF Retried
  <2> QED
    BY <1>1, <2>1, <2>2, HandlingTyped
<1>2. CASE ~(poller[p].try + 1 < Attempts)
  <2>1. Retried(poller[p]) = At(poller[p], "save")
    BY <1>2 DEF Retried
  <2> QED
    BY <2>1, AtTyped
<1> QED
  BY <1>1, <1>2

(* A poller stays on an update it has taken, to send again or to save.     *)
LEMMA ReplyKeeps ==
  ASSUME PollInv, NEW p \in Pollers, poller[p].at = "reply", NEW w \in Poller, Become(p, w),
         w.at \in {"reply", "save"}, w.cur = poller[p].cur, w.last = poller[p].last,
         w.at = "reply" => w.try = poller[p].try + 1 /\ w.try < Attempts,
         UNCHANGED <<arrived, confirmed, offset, processed>>,
         \/ UNCHANGED delivered
         \/ delivered' = [delivered EXCEPT ![poller[p].cur] = @ + 1]
  PROVE  PollInv'
<1>1. /\ poller[p].cur \in Updates /\ poller[p].cur <= poller[p].last
      /\ poller[p].try \in 0..Attempts /\ poller[p].try < Attempts
      /\ poller[p].cur \in processed /\ delivered[poller[p].cur] <= poller[p].try
      /\ SafeAt(poller[p].cur + 1)
  BY AtUpdate DEF PollInv, PollerSound
<1>2. poller'[p] = w
  BY DEF PollInv, TypeOK, Become
<1>3. /\ delivered' \in [Updates -> 0..Attempts]
      /\ delivered'[poller[p].cur] <= poller[p].try + 1
      /\ \A u \in Updates : u # poller[p].cur => delivered'[u] = delivered[u]
  BY <1>1, PollConstants DEF PollInv, TypeOK
<1>4. PollerSound(p)'
  <2>1. (poller[p].cur + 1)' = poller'[p].cur + 1 /\ poller'[p].cur = poller[p].cur
    BY <1>2
  <2>2. SafeAt(poller[p].cur + 1)'
    BY <1>1, <2>1 DEF SafeAt
  <2> QED
    BY <1>1, <1>2, <1>3, <2>2 DEF PollerSound
<1>5. OffsetIsSafe'
  BY DEF PollInv, OffsetIsSafe, SafeAt
<1> QED
  BY <1>3, <1>4, <1>5, StepOfOne DEF PollInv, TypeOK

LEMMA SendKeeps == ASSUME PollInv, NEW p \in Pollers, Send(p) PROVE PollInv'
<1>1. /\ poller[p].at = "reply"
      /\ UNCHANGED <<arrived, confirmed, offset, processed>>
      /\ delivered' = [delivered EXCEPT ![poller[p].cur] = @ + 1]
  BY DEF Send, database
<1>2. CASE Become(p, At(poller[p], "save"))
  BY <1>1, <1>2, AtTyped, ReplyKeeps
<1>3. CASE Become(p, Retried(poller[p]))
  BY <1>1, <1>3, RetriedTyped, ReplyKeeps
<1> QED
  BY <1>2, <1>3 DEF Send

LEMMA SendFailsKeeps == ASSUME PollInv, NEW p \in Pollers, SendFails(p) PROVE PollInv'
<1>1. /\ poller[p].at = "reply"
      /\ UNCHANGED <<arrived, confirmed, offset, processed, delivered>>
  BY DEF SendFails, telegram, database
<1>2. CASE Become(p, At(poller[p], "save"))
  BY <1>1, <1>2, AtTyped, ReplyKeeps
<1>3. CASE Become(p, Retried(poller[p]))
  BY <1>1, <1>3, RetriedTyped, ReplyKeeps
<1> QED
  BY <1>2, <1>3 DEF SendFails

(* Going on to the next update of the batch, or to the end of it.          *)
LEMMA NextUpdateKeeps ==
  ASSUME PollInv, NEW p \in Pollers, poller[p].at \in {"save", "write"},
         Become(p, AfterUpdate(poller[p])), UNCHANGED <<telegram, processed>>,
         offset' = offset \/ offset' = poller[p].cur + 1
  PROVE  PollInv'
<1>1. /\ poller[p] \in Poller /\ poller[p].cur \in Updates /\ poller[p].cur <= poller[p].last
      /\ SafeAt(poller[p].cur + 1) /\ poller[p].cur + 1 \in 0..N + 1
  BY AtUpdate DEF PollInv, TypeOK
<1>2. offset' \in 0..N + 1 /\ SafeAt(offset')
  BY <1>1 DEF PollInv, TypeOK, OffsetIsSafe
<1> QED
  BY <1>1, <1>2, AfterUpdateTyped, Harmless DEF PollInv, TypeOK, OffsetIsSafe, telegram

LEMMA CompareKeeps == ASSUME PollInv, NEW p \in Pollers, Compare(p) PROVE PollInv'
<1>1. CASE poller[p].cur + 1 > offset
  BY <1>1, AtTyped, AtUpdate, Harmless
     DEF Compare, PollInv, TypeOK, OffsetIsSafe, telegram, database
<1>2. CASE ~(poller[p].cur + 1 > offset)
  BY <1>2, NextUpdateKeeps DEF Compare, database
<1> QED
  BY <1>1, <1>2

LEMMA WriteKeeps == ASSUME PollInv, NEW p \in Pollers, Write(p) PROVE PollInv'
BY NextUpdateKeeps DEF Write

LEMMA AbandonKeeps == ASSUME PollInv, NEW p \in Pollers, Abandon(p) PROVE PollInv'
BY IdleTyped, Harmless DEF Abandon, PollInv, TypeOK, OffsetIsSafe, telegram, database

LEMMA StutterKeeps == ASSUME PollInv, UNCHANGED vars PROVE PollInv'
BY DEF PollInv, TypeOK, OffsetIsSafe, SafeAt, PollerSound, OneReplying, vars, telegram, database

(* PollInv holds in every reachable state: what a poller is at or has behind
   it has been taken, and no two pollers answer the same message.          *)
THEOREM InvariantHolds == Spec => []PollInv
<1>1. ASSUME PollInv, [Next]_vars PROVE PollInv'
  BY <1>1, StutterKeeps, ArriveKeeps, BeginKeeps, BeginAtKeeps, FetchKeeps, SkipKeeps,
     TakeKeeps, SendKeeps, SendFailsKeeps, CompareKeeps, WriteKeeps, AbandonKeeps
     DEF Next, Step
<1> QED
  BY <1>1, InitPoll, PTL DEF Spec

(* Every variable keeps its type, a message never being delivered more often
   than _send_with_retry attempts to.                                      *)
THEOREM TypeCorrect == Spec => []TypeOK
BY InvariantHolds, PTL DEF PollInv

(* The saved offset and Telegram's own are never past a message that nobody
   has taken (_save_poll_offset and getUpdates).                           *)
THEOREM OffsetStaysSafe == Spec => []OffsetIsSafe
BY InvariantHolds, PTL DEF PollInv

-----------------------------------------------------------------------------
(* Polling implements Inbox: a step of p can only change what becomes of the
   message p is at.                                                        *)
LEMMA TakenElsewhere ==
  ASSUME PollInv, NEW p \in Pollers, NEW w, Become(p, w), NEW u,
         ~(poller[p].at = "reply" /\ poller[p].cur = u), ~(w.at = "reply" /\ w.cur = u)
  PROVE  Taken(u)' <=> Taken(u)
<1>1. /\ poller'[p] = w
      /\ \A q \in Pollers : q # p => poller'[q] = poller[q]
  BY DEF PollInv, TypeOK, Become
<1> QED
  BY <1>1 DEF Taken

LEMMA LetGo ==
  ASSUME PollInv, NEW p \in Pollers, NEW w, Become(p, w), poller[p].at = "reply", w.at # "reply"
  PROVE  \A u \in Updates : Taken(u)' <=> Taken(u) /\ u # poller[p].cur
<1>1. /\ poller'[p] = w
      /\ \A q \in Pollers : q # p => poller'[q] = poller[q]
  BY DEF PollInv, TypeOK, Become
<1>2. \A q \in Pollers : q # p /\ poller[q].at = "reply" => poller[q].cur # poller[p].cur
  BY DEF PollInv, OneReplying
<1> QED
  BY <1>1, <1>2 DEF Taken

(* The step of Inbox is found from what State says of each message.        *)
LEMMA StateSame ==
  ASSUME processed' = processed, \A u \in Updates : Taken(u)' <=> Taken(u)
  PROVE  State' = State
BY DEF State

LEMMA StateSettled ==
  ASSUME PollInv, NEW m \in Updates, processed' = processed, m \in processed, Taken(m),
         \A u \in Updates : Taken(u)' <=> Taken(u) /\ u # m
  PROVE  State[m] = "taken" /\ State' = [State EXCEPT ![m] = "settled"]
<1> DEFINE S == State'
<1>1. State \in [Updates -> {"waiting", "taken", "settled"}] /\ State[m] = "taken"
  BY DEF State
<1>2. S \in [Updates -> {"waiting", "taken", "settled"}] /\ S[m] = "settled"
  BY DEF State
<1>3. \A u \in Updates : u # m => S[u] = State[u]
  BY DEF State
<1> QED
  BY <1>1, <1>2, <1>3

(* A step that neither begins nor ends the answering of a message.         *)
LEMMA QuietStep ==
  ASSUME PollInv, NEW p \in Pollers, NEW w, Become(p, w), poller[p].at # "reply", w.at # "reply",
         UNCHANGED <<processed, delivered>>
  PROVE  UNCHANGED <<State, delivered>>
BY TakenElsewhere, StateSame

(* A poller stops answering, with or without a last delivery.              *)
LEMMA SettlingStep ==
  ASSUME PollInv, NEW p \in Pollers, NEW w, Become(p, w), poller[p].at = "reply", w.at # "reply",
         UNCHANGED processed
  PROVE  /\ poller[p].cur \in Updates
         /\ State[poller[p].cur] = "taken"
         /\ State' = [State EXCEPT ![poller[p].cur] = "settled"]
<1>1. poller[p].cur \in Updates /\ poller[p].cur \in processed /\ Taken(poller[p].cur)
  BY AtUpdate DEF PollInv, PollerSound, Taken
<1> QED
  BY <1>1, LetGo, StateSettled

LEMMA TakeImplements == ASSUME PollInv, NEW p \in Pollers, Take(p) PROVE Messages!Next
<1>1. PICK m \in Updates : m = poller[p].cur
  BY AtUpdate DEF Take
<1>2. PICK w : w = At(poller[p], "reply")
  OBVIOUS
<1>3. /\ poller[p].at = "update" /\ m \notin processed /\ processed' = processed \cup {m}
      /\ Become(p, w) /\ delivered' = delivered
  BY <1>1, <1>2 DEF Take, telegram
<1>4. w.at = "reply" /\ w.cur = m
  BY <1>1, <1>2, <1>3, AtTyped
<1>5. /\ \A u \in Updates : u # m => (Taken(u)' <=> Taken(u))
      /\ Taken(m)'
  <2>1. poller'[p] = w
    BY <1>3 DEF PollInv, TypeOK, Become
  <2>2. Taken(m)'
    BY <2>1, <1>4 DEF Taken
  <2>3. ASSUME NEW u \in Updates, u # m
        PROVE  Taken(u)' <=> Taken(u)
    <3>1. ~(poller[p].at = "reply" /\ poller[p].cur = u) /\ ~(w.at = "reply" /\ w.cur = u)
      BY <1>3, <1>4, <2>3
    <3> QED
      BY <3>1, <1>3, TakenElsewhere
  <2> QED
    BY <2>2, <2>3
<1> DEFINE S == State'
<1>6. State \in [Updates -> {"waiting", "taken", "settled"}] /\ State[m] = "waiting"
  BY <1>3 DEF State
<1>7. S \in [Updates -> {"waiting", "taken", "settled"}] /\ S[m] = "taken"
  BY <1>3, <1>5 DEF State
<1>8. \A u \in Updates : u # m => S[u] = State[u]
  BY <1>3, <1>5 DEF State
<1>9. State' = [State EXCEPT ![m] = "taken"]
  BY <1>6, <1>7, <1>8
<1> QED
  BY <1>3, <1>6, <1>9 DEF Messages!Next, Messages!Take

LEMMA SendImplements == ASSUME PollInv, NEW p \in Pollers, Send(p) PROVE Messages!Next
<1>1. PICK m \in Updates : m = poller[p].cur
  BY AtUpdate DEF Send
<1>2. /\ poller[p].at = "reply" /\ processed' = processed
      /\ delivered' = [delivered EXCEPT ![m] = @ + 1]
  BY <1>1 DEF Send, database
<1>3. /\ State[m] = "taken" /\ delivered[m] < Attempts
  <2>1. m \in processed /\ Taken(m) /\ delivered[m] <= poller[p].try /\ poller[p].try < Attempts
    BY <1>1, <1>2 DEF PollInv, PollerSound, Taken
  <2>2. delivered[m] \in Nat /\ poller[p].try \in Nat /\ Attempts \in Nat
    BY <1>2, AtUpdate, PollConstants DEF PollInv, TypeOK
  <2> QED
    BY <2>1, <2>2 DEF State
<1>4. State' = State \/ State' = [State EXCEPT ![m] = "settled"]
  <2>1. PICK w : Become(p, w) /\ w \in {At(poller[p], "save"), Retried(poller[p])}
    BY DEF Send
  <2>2. w.at = "reply" => w.cur = m
    BY <1>1, <1>2, <2>1, AtTyped, RetriedTyped
  <2>3. CASE w.at # "reply"
    BY <1>1, <1>2, <2>1, <2>3, SettlingStep
  <2>4. CASE w.at = "reply"
    <3>1. poller'[p] = w
      BY <2>1 DEF PollInv, TypeOK, Become
    <3>2. Taken(m) /\ Taken(m)'
      BY <1>1, <1>2, <2>2, <2>4, <3>1 DEF Taken
    <3>3. \A u \in Updates : u # m => (Taken(u)' <=> Taken(u))
      BY <1>1, <2>1, <2>2, TakenElsewhere
    <3> QED
      BY <1>2, <3>2, <3>3, StateSame
  <2> QED
    BY <2>3, <2>4
<1> QED
  BY <1>2, <1>3, <1>4 DEF Messages!Next, Messages!Answer

LEMMA SendFailsImplements ==
  ASSUME PollInv, NEW p \in Pollers, SendFails(p)
  PROVE  Messages!Next \/ UNCHANGED <<State, delivered>>
<1>1. /\ poller[p].at = "reply" /\ UNCHANGED <<processed, delivered>>
  BY DEF SendFails, telegram, database
<1>2. PICK w : Become(p, w) /\ w \in {At(poller[p], "save"), Retried(poller[p])}
  BY DEF SendFails
<1>3. CASE w.at # "reply"
  BY <1>1, <1>2, <1>3, SettlingStep DEF Messages!Next, Messages!Settle
<1>4. CASE w.at = "reply"
  <2>1. w.cur = poller[p].cur
    BY <1>1, <1>2, AtTyped, RetriedTyped
  <2>2. poller'[p] = w
    BY <1>2 DEF PollInv, TypeOK, Become
  <2>3. \A u \in Updates : Taken(u)' <=> Taken(u)
    BY <1>1, <1>2, <1>4, <2>1, <2>2, TakenElsewhere DEF Taken
  <2> QED
    BY <1>1, <2>3, StateSame
<1> QED
  BY <1>3, <1>4

LEMMA AbandonImplements ==
  ASSUME PollInv, NEW p \in Pollers, Abandon(p)
  PROVE  Messages!Next \/ UNCHANGED <<State, delivered>>
<1>1. Become(p, Idle) /\ Idle.at # "reply" /\ UNCHANGED <<processed, delivered>>
  BY IdleTyped DEF Abandon, telegram, database
<1>2. CASE poller[p].at = "reply"
  BY <1>1, <1>2, SettlingStep DEF Messages!Next, Messages!Settle
<1> QED
  BY <1>1, <1>2, QuietStep

(* The steps that leave every message alone.                               *)
LEMMA OthersStutter ==
  ASSUME PollInv, NEW p \in Pollers,
         \/ Begin(p) \/ (\E o \in ManualOffsets : BeginAt(p, o))
         \/ Fetch(p) \/ Skip(p) \/ Compare(p) \/ Write(p)
  PROVE  UNCHANGED <<State, delivered>>
<1>1. UNCHANGED <<processed, delivered>> /\ poller[p].at # "reply"
  BY DEF Begin, BeginAt, Fetch, Skip, Compare, Write, telegram, database
<1>2. CASE Begin(p) \/ \E o \in ManualOffsets : BeginAt(p, o)
  <2>1. PICK want : Become(p, Fetching(want))
    BY <1>2 DEF Begin, BeginAt
  <2> QED
    BY <1>1, <2>1, QuietStep DEF Fetching
<1>3. CASE Fetch(p)
  <2>1. PICK w : Become(p, w) /\ w.at # "reply"
    BY <1>3 DEF Fetch, Idle, Handling
  <2> QED
    BY <1>1, <2>1, QuietStep
<1>4. CASE Skip(p)
  BY <1>1, <1>4, AtTyped, QuietStep DEF Skip
<1>5. CASE Compare(p) \/ Write(p)
  <2>1. PICK w : Become(p, w) /\ w \in {At(poller[p], "write"), AfterUpdate(poller[p])}
    BY <1>5 DEF Compare, Write
  <2>2. w.at # "reply"
    <3>1. /\ poller[p] \in Poller /\ poller[p].cur \in Updates /\ poller[p].cur <= poller[p].last
          /\ poller[p].at \in {"save", "write"}
      BY <1>5, AtUpdate DEF Compare, Write, PollInv, TypeOK
    <3> QED
      BY <2>1, <3>1, AtTyped, AfterUpdateTyped
  <2> QED
    BY <1>1, <2>1, <2>2, QuietStep
<1> QED
  BY <1>2, <1>3, <1>4, <1>5

LEMMA StepImplements ==
  ASSUME PollInv, [Next]_vars
  PROVE  [Messages!Next]_<<State, delivered>>
<1>1. CASE UNCHANGED vars
  BY <1>1 DEF vars, telegram, database, State, Taken
<1>2. CASE Arrive
  BY <1>2 DEF Arrive, database, State, Taken
<1>3. ASSUME NEW p \in Pollers,
             Begin(p) \/ (\E o \in ManualOffsets : BeginAt(p, o)) \/ Step(p) \/ Abandon(p)
      PROVE  Messages!Next \/ UNCHANGED <<State, delivered>>
  BY <1>3, OthersStutter, TakeImplements, SendImplements, SendFailsImplements, AbandonImplements
     DEF Step
<1> QED
  BY <1>1, <1>2, <1>3 DEF Next

LEMMA InitImplements == Init => Messages!Init
<1> SUFFICES ASSUME Init PROVE Messages!Init
  OBVIOUS
<1>1. State = [u \in Updates |-> "waiting"]
  BY DEF Init, State
<1> QED
  BY <1>1 DEF Init, Messages!Init

(* Over any number of pollers, deaths, restarts and lost answers, a message is
   taken up once at most and answered only by the poller that took it
   (mark_processed before process_update).                                 *)
THEOREM PollingImplementsInbox == Spec => ImplementsInbox
BY InvariantHolds, InitImplements, StepImplements, PTL
   DEF Spec, ImplementsInbox, Messages!Spec, Messages!inbox

=============================================================================
