-------------------------- MODULE IngestionProofs ---------------------------
(***************************************************************************)
(* Proofs about the ingestion for every number of games, transactions,     *)
(* retries, faults and restarts.                                           *)
(***************************************************************************)
EXTENDS Ingestion, TLAPS

LOCAL INSTANCE WellFoundedInduction

(***************************************************************************)
(* What NoGap needs to be inductive: the batch of a running poll holds     *)
(* transactions newer than the checkpoint without a hole between them, and *)
(* once it is handled it starts right behind the checkpoint, unless there  *)
(* is no checkpoint or something was skipped.                               *)
(***************************************************************************)
BatchOK ==
    /\ \A i \in batch : i > lt
    /\ \A i, j \in batch : \A k \in P!Tx : i <= k /\ k <= j => k \in batch
    /\ phase = "idle" => batch = {}
    /\ phase = "backfill" => batch # {}

Adjacent ==
    ~skipped /\ phase = "process" /\ lt # 0 /\ batch # {} => lt + 1 \in batch

BaseOK ==
    /\ base <= saved
    /\ base = 0 <=> saved = 0

\* What the checkpoint alone needs.
CInv == P!TypeOK /\ BatchOK /\ BaseOK /\ P!CheckpointHandled

\* What NoGap needs.
GInv == CInv /\ Adjacent /\ P!NoGap

\* Oldest finds the minimum that the sort in poll puts first.
LEMMA OldestInBatch ==
    ASSUME NEW S \in SUBSET Nat, S # {}
    PROVE  P!Oldest(S) \in S /\ \A j \in S : P!Oldest(S) <= j
<1>2. \E i \in S : \A j \in S : ~(<<j, i>> \in OpToRel(<, Nat))
  BY WFMin, NatLessThanWellFounded
<1>3. ASSUME NEW i \in Nat, NEW j \in Nat, j < i
      PROVE  <<j, i>> \in OpToRel(<, Nat)
  BY <1>3, Zenon DEF OpToRel
<1>4. \E i \in S : \A j \in S : ~(j < i)
  BY <1>2, <1>3, Zenon
<1>5. \E i \in S : \A j \in S : i <= j
  BY <1>4, SMT
<1>. QED  BY <1>5, Zenon DEF P!Oldest

\* For the transactions of the chain.
LEMMA OldestExists ==
    ASSUME NEW S \in SUBSET P!Tx, S # {}
    PROVE  P!Oldest(S) \in S /\ \A j \in S : P!Oldest(S) <= j
<1>1. S \in SUBSET Nat
  BY IngestionAssumption DEF P!Tx
<1>. QED  BY <1>1, OldestInBatch

\* A fresh process has handled and claimed nothing.
LEMMA InitOK == P!Init => GInv
<1>. SUFFICES ASSUME P!Init PROVE GInv
  OBVIOUS
<1>. USE IngestionAssumption DEF P!Init
<1>1. P!TypeOK
  <2>1. advanced \in BOOLEAN /\ skipped \in BOOLEAN
    BY Zenon
  <2>2. 0 \in 0 .. MaxTx /\ 0 \in 0 .. MaxRestarts
    OBVIOUS
  <2>. QED  BY <2>1, <2>2 DEF P!TypeOK
<1>2. BatchOK /\ BaseOK
  BY DEF BatchOK, BaseOK
<1>3. P!CheckpointHandled
  BY DEF P!CheckpointHandled
<1>4. Adjacent /\ P!NoGap
  BY DEF Adjacent, P!NoGap
<1>. QED  BY <1>1, <1>2, <1>3, <1>4 DEF GInv, CInv

\* No step of the program, a crash or an empty page included, claims a
\* transaction that was not handled.
LEMMA CheckpointStep == CInv /\ [P!Next]_(P!pollerVars) => CInv'
<1>. SUFFICES ASSUME CInv, [P!Next]_(P!pollerVars) PROVE CInv'
  OBVIOUS
<1>. USE IngestionAssumption
<1>. USE DEF CInv, P!TypeOK, BatchOK, BaseOK, P!CheckpointHandled
<1>0. batch # {} => P!Oldest(batch) \in batch /\ \A j \in batch : P!Oldest(batch) <= j
  BY OldestExists
<1>1. CASE P!NewTx
  BY <1>1 DEF P!NewTx, P!Tx
<1>2. CASE P!PollFetch
  BY <1>2 DEF P!PollFetch, P!NewerThan, P!Page, P!After, P!Tx
<1>3. CASE P!Backfill
  <2>. DEFINE old == P!Oldest(batch)
  <2>1. old \in batch /\ \A j \in batch : old <= j
    BY <1>0, <1>3 DEF P!Backfill
  <2>2. batch' = batch \cup {i \in P!Tx : old - 1 - PageSize < i /\ i <= old - 1 /\ i > lt}
    BY <1>3 DEF P!Backfill, P!NewerThan, P!Page
  <2>3. phase' \in {"backfill", "process"}
    BY <1>3 DEF P!Backfill, P!After
  <2>. HIDE DEF old
  <2>4. \A i, j \in batch' : \A k \in P!Tx : i <= k /\ k <= j => k \in batch'
    <3>. SUFFICES ASSUME NEW i \in batch', NEW j \in batch', NEW k \in P!Tx, i <= k, k <= j
                  PROVE  k \in batch'
      OBVIOUS
    <3>1. CASE k >= old
      BY <2>1, <2>2, <3>1 DEF P!Tx
    <3>2. CASE k < old
      BY <2>1, <2>2, <3>2 DEF P!Tx
    <3>. QED  BY <3>1, <3>2, <2>1 DEF P!Tx
  <2>. QED  BY <1>3, <2>1, <2>2, <2>3, <2>4, Zenon DEF P!Backfill, P!Tx
<1>4. CASE P!BackfillFails
  BY <1>4 DEF P!BackfillFails, P!Tx
<1>5. CASE P!BackfillEmpty
  BY <1>5 DEF P!BackfillEmpty, P!Tx
<1>6. CASE P!Accept
  <2>. DEFINE old == P!Oldest(batch)
  <2>1. old \in batch /\ old \in P!Tx /\ old > lt /\ \A j \in batch : old <= j
    BY <1>0, <1>6 DEF P!Accept
  <2>2. /\ lt' = old /\ batch' = batch \ {old} /\ accepted' = accepted \cup {old}
        /\ UNCHANGED <<tip, saved, phase, restarts, base, skipped>>
        /\ phase = "process"
    BY <1>6, <2>1 DEF P!Accept
  <2>3. advanced' \in BOOLEAN
    BY <1>6 DEF P!Accept
  <2>. HIDE DEF old
  <2>4. P!TypeOK'
    BY <2>1, <2>2, <2>3 DEF P!Tx
  <2>5. BatchOK'
    BY <2>1, <2>2 DEF P!Tx
  <2>6. BaseOK' /\ P!CheckpointHandled'
    BY <2>1, <2>2 DEF P!Tx
  <2>. QED  BY <2>4, <2>5, <2>6
<1>7. CASE P!Reject
  BY <1>0, <1>7 DEF P!Reject, P!Tx
<1>8. CASE P!Finish
  <2>1. P!TypeOK'
    BY <1>8, Zenon DEF P!Finish, P!Persist, P!Tx
  <2>2. BatchOK'
    BY <1>8 DEF P!Finish, P!Persist, P!Tx
  <2>3. BaseOK'
    BY <1>8 DEF P!Finish, P!Persist, P!Tx
  <2>4. P!CheckpointHandled'
    BY <1>8 DEF P!Finish, P!Persist, P!Tx
  <2>. QED  BY <2>1, <2>2, <2>3, <2>4
<1>9. CASE P!Restart
  <2>1. P!TypeOK'
    <3>1. advanced' \in BOOLEAN /\ skipped' \in BOOLEAN
      BY <1>9, Zenon DEF P!Restart
    <3>2. saved' \in 0 .. MaxTx /\ base' \in 0 .. MaxTx
      BY <1>9 DEF P!Restart, P!Persist
    <3>3. lt' \in {saved', 0}
      BY <1>9, Zenon DEF P!Restart
    <3>. QED  BY <1>9, <3>1, <3>2, <3>3 DEF P!Restart, P!Tx
  <2>2. BatchOK'
    BY <1>9 DEF P!Restart, P!Persist, P!Tx
  <2>3. BaseOK'
    BY <1>9 DEF P!Restart, P!Persist, P!Tx
  <2>4. P!CheckpointHandled'
    BY <1>9 DEF P!Restart, P!Persist, P!Tx
  <2>. QED  BY <2>1, <2>2, <2>3, <2>4
<1>10. CASE UNCHANGED P!pollerVars
  BY <1>10 DEF P!pollerVars
<1>. QED
  BY <1>1, <1>2, <1>3, <1>4, <1>5, <1>6, <1>7, <1>8, <1>9, <1>10 DEF P!Next

\* Only an empty page and a failed load open a gap.
LEMMA GapStep ==
    ASSUME GInv, [P!Next]_(P!pollerVars)
    PROVE  GInv'
<1>. USE IngestionAssumption
<1>1. CInv /\ CInv'
  BY CheckpointStep DEF GInv
<1>. USE <1>1 DEF CInv, P!TypeOK, BatchOK, BaseOK, P!CheckpointHandled
<1>2. ASSUME NEW S \in SUBSET P!Tx, S # {}, \A i \in S : i > lt, ~P!Gap(S, lt), lt # 0
      PROVE  lt + 1 \in S
  <2>1. P!Oldest(S) \in S
    BY <1>2, OldestExists
  <2>2. P!Oldest(S) \in Nat /\ lt \in Nat /\ P!Oldest(S) > lt
    <3>1. P!Oldest(S) \in 1 .. MaxTx
      BY <2>1, Zenon DEF P!Tx
    <3>2. P!Oldest(S) > lt
      BY <1>2, <2>1
    <3>. QED  BY <3>1, <3>2
  <2>3. P!Oldest(S) - 1 = 0 \/ ~(P!Oldest(S) - 1 > lt)
    BY <1>2 DEF P!Gap
  <2>4. P!Oldest(S) = lt + 1
    BY <1>2, <2>2, <2>3
  <2>. QED  BY <2>1, <2>4
<1>3. Adjacent'
  <2>. SUFFICES ASSUME ~skipped', phase' = "process", lt' # 0, batch' # {}
                PROVE  lt' + 1 \in batch'
    BY DEF Adjacent
  <2>1. CASE P!PollFetch
    BY <1>2, <2>1 DEF P!PollFetch, P!After
  <2>2. CASE P!Backfill
    BY <1>2, <2>2 DEF P!Backfill, P!After
  <2>3. CASE P!Accept
    <3>1. P!Oldest(batch) \in batch /\ \A j \in batch : P!Oldest(batch) <= j
      BY <2>3, OldestExists DEF P!Accept
    <3>2. lt' = P!Oldest(batch) /\ batch' = batch \ {P!Oldest(batch)}
      BY <2>3, <3>1 DEF P!Accept, P!Tx
    <3>3. PICK j \in batch' : TRUE
      OBVIOUS
    <3>4. lt' + 1 \in P!Tx /\ lt' + 1 <= j
      BY <3>1, <3>2, <3>3 DEF P!Tx
    <3>. QED  BY <3>1, <3>2, <3>3, <3>4 DEF P!Tx
  <2>4. CASE P!NewTx
    BY <2>4 DEF P!NewTx, GInv, Adjacent
  <2>5. CASE P!BackfillFails \/ P!BackfillEmpty \/ P!Reject \/ P!Finish \/ P!Restart
    BY <2>5 DEF P!BackfillFails, P!BackfillEmpty, P!Reject, P!Finish, P!Restart
  <2>6. CASE UNCHANGED P!pollerVars
    BY <2>6 DEF P!pollerVars, GInv, Adjacent
  <2>. QED  BY <2>1, <2>2, <2>3, <2>4, <2>5, <2>6 DEF P!Next
<1>4. P!NoGap'
  <2>1. CASE P!Accept
    <3>1. P!Oldest(batch) \in batch /\ \A j \in batch : P!Oldest(batch) <= j
      BY <2>1, OldestExists DEF P!Accept
    <3>2. /\ lt' = P!Oldest(batch) /\ accepted' = accepted \cup {P!Oldest(batch)}
          /\ base' = base /\ phase = "process" /\ skipped' = skipped
      BY <2>1, <3>1 DEF P!Accept, P!Tx
    <3>3. ~skipped /\ base # 0 => lt' = lt + 1
      BY <3>1, <3>2 DEF GInv, Adjacent, P!Tx
    <3>. QED  BY <3>1, <3>2, <3>3 DEF GInv, P!NoGap, P!Tx
  <2>2. CASE P!Finish
    BY <2>2 DEF P!Finish, P!Persist, GInv, P!NoGap, P!Tx
  <2>3. CASE P!Restart
    BY <2>3 DEF P!Restart, P!Persist, GInv, P!NoGap, P!Tx
  <2>4. CASE UNCHANGED <<base, lt, accepted, skipped>>
    BY <2>4 DEF GInv, P!NoGap
  <2>5. CASE P!BackfillEmpty
    BY <2>5 DEF P!BackfillEmpty, P!NoGap
  <2>. QED
    BY <2>1, <2>2, <2>3, <2>4, <2>5
    DEF P!Next, P!NewTx, P!PollFetch, P!Backfill, P!BackfillFails, P!Reject, P!pollerVars
<1>. QED  BY <1>1, <1>3, <1>4 DEF GInv

\* The checkpoint, in memory and in the database, is always a transaction that
\* HandleTransaction accepted.
THEOREM CheckpointHandledHolds == P!Spec => [](P!TypeOK /\ P!CheckpointHandled)
<1>1. P!Init => CInv
  BY InitOK DEF GInv
<1>. QED  BY <1>1, CheckpointStep, PTL DEF P!Spec, CInv

\* The stored checkpoint never moves back and only to handled transactions,
\* also when backfills come back empty and checkpoints cannot be loaded.
THEOREM CheckpointAdvancesHolds == P!Spec => P!CheckpointAdvances
<1>1. P!Init => CInv
  BY InitOK DEF GInv
<1>2. CInv /\ [P!Next]_(P!pollerVars)
      => [saved' >= saved /\ (saved' # saved => saved' \in accepted)]_(P!pollerVars)
  <2>. SUFFICES ASSUME CInv, P!Next
                PROVE  saved' >= saved /\ (saved' # saved => saved' \in accepted)
    OBVIOUS
  <2>1. saved \in Int /\ lt \in Int /\ (lt # 0 => lt \in accepted) /\ saved >= 0
    BY IngestionAssumption DEF CInv, P!TypeOK, P!CheckpointHandled
  <2>2. saved' = saved \/ (saved' = lt /\ saved <= lt)
    BY <2>1
    DEF P!Next, P!NewTx, P!PollFetch, P!Backfill, P!BackfillFails, P!BackfillEmpty, P!Accept, P!Reject,
        P!Finish, P!Restart, P!Persist
  <2>. QED  BY <2>1, <2>2
<1>. QED  BY <1>1, <1>2, CheckpointStep, PTL DEF P!Spec, P!CheckpointAdvances

\* From the first stored checkpoint on, the poller leaves no transaction out,
\* whatever the page size, the backlog, the failures and the restarts, until the
\* API answers a backfill with an empty page or a checkpoint cannot be loaded.
THEOREM NoGapHolds == P!Spec => []P!NoGap
<1>1. GInv /\ [P!Next]_(P!pollerVars) => GInv'
  BY GapStep
<1>2. GInv => P!NoGap
  BY DEF GInv
<1>. QED  BY InitOK, <1>1, <1>2, PTL DEF P!Spec
-----------------------------------------------------------------------------
\* The steps of the poller outside the handler leave the handler and the chain
\* alone.
LEMMA PollFrame ==
    ASSUME Poll \/ PollFails
    PROVE  /\ db' = db /\ job' = job /\ dlq' = dlq /\ faults' = faults /\ lost' = lost
           /\ chain' = chain /\ tip' = tip /\ accepted' = accepted
           /\ skipped => skipped'
<1>1. /\ db' = db /\ job' = job /\ dlq' = dlq /\ faults' = faults /\ lost' = lost
      /\ chain' = chain
  BY Zenon DEF Poll, PollFails, persistenceVars
<1>2. CASE P!PollFetch
  BY <1>1, <1>2, Zenon DEF P!PollFetch
<1>3. CASE P!Backfill
  BY <1>1, <1>3, Zenon DEF P!Backfill
<1>4. CASE P!Finish
  BY <1>1, <1>4, Zenon DEF P!Finish
<1>5. CASE P!BackfillFails
  BY <1>1, <1>5, Zenon DEF P!BackfillFails
<1>6. CASE P!BackfillEmpty
  BY <1>1, <1>6 DEF P!BackfillEmpty
<1>. QED  BY <1>2, <1>3, <1>4, <1>5, <1>6, Zenon DEF Poll, PollFails

\* A handler that returns, and a restart, leave the database and the chain alone.
LEMMA ReturnFrame ==
    ASSUME Handled \/ NotHandled \/ Restart
    PROVE  /\ db' = db /\ job' = NoJob /\ lost' = lost /\ chain' = chain /\ tip' = tip
           /\ skipped => skipped'
<1>1. CASE Handled
  BY <1>1, Zenon DEF Handled, ReturnNil, P!Accept
<1>2. CASE NotHandled
  BY <1>2, Zenon DEF NotHandled, ReturnError, P!Reject
<1>3. CASE Restart
  BY <1>3 DEF Restart, P!Restart
<1>. QED  BY <1>1, <1>2, <1>3, Zenon

\* The contract only adds to the chain.
LEMMA EmitFrame ==
    ASSUME TypeOK, tip \in Nat, NEW e \in Event, Emit(e)
    PROVE  /\ db' = db /\ job' = job /\ lost' = lost /\ accepted' = accepted /\ skipped' = skipped
           /\ tip' = tip + 1 /\ \A i \in 1 .. tip : chain'[i] = chain[i]
<1>1. /\ db' = db /\ job' = job /\ lost' = lost /\ accepted' = accepted /\ skipped' = skipped
      /\ tip' = tip + 1 /\ chain' = Append(chain, e)
  BY Zenon DEF Emit, P!NewTx, persistenceVars
<1>2. chain \in Seq(Event) /\ Len(chain) = tip
  BY DEF TypeOK
<1>. QED  BY <1>1, <1>2

\* The calls that write what an event says.
Changes == {"ensureTwo", "join", "reveal", "cancel", "complete", "playedOne", "playedTwo"}

\* A call that changes a game or a counter belongs to the handler of its event.
OpFits(op, k) ==
    /\ op \in {"ensureOne", "create"} => k = "GameInitialized"
    /\ op \in {"ensureTwo", "join"} => k = "GameStarted"
    /\ op = "upsert" => k \in Stored \ {"GameFinished"}
    /\ op = "reveal" => k = "SecretOpened"
    /\ op = "cancel" => k = "GameCancelled"
    /\ op = "finish" => k = "GameFinished"
    /\ op \in {"complete", "playedOne", "playedTwo"} => k = "Draw"

\* What is left of a handler inserts the event row before it changes anything,
\* unless the row is there.
PlanFits(plan, k, tx, rows) ==
    /\ \A i \in 1 .. Len(plan) :
          /\ OpFits(plan[i], k)
          /\ plan[i] \in Changes => tx \in rows \/ \E j \in 1 .. i - 1 : plan[j] = "upsert"
    /\ k \in Stored => tx \in rows \/ \E i \in 1 .. Len(plan) : plan[i] \in {"upsert", "finish"}

\* The poller works on transactions of the chain.
Fetched ==
    /\ tip \in 0 .. MaxTx
    /\ batch \in SUBSET (1 .. tip) /\ accepted \in SUBSET (1 .. tip)
    /\ phase = "backfill" => batch # {}

\* The running call is the one for the oldest transaction of the batch.
JobOK ==
    job # NoJob =>
        /\ phase = "process" /\ batch # {}
        /\ job.tx = P!Oldest(batch) /\ job.event = chain[job.tx]
        /\ PlanFits(job.plan, job.event.kind, job.tx, db.rows)

IInv == TypeOK /\ Fetched /\ JobOK /\ Recorded /\ EffectsLogged

\* Short tuples are sequences.
LEMMA Tuples ==
    ASSUME NEW S, NEW a \in S
    PROVE  /\ <<a>> \in Seq(S)
           /\ \A b \in S : <<a, b>> \in Seq(S)
           /\ \A b, c \in S : <<a, b, c>> \in Seq(S)
           /\ \A b, c, d \in S : <<a, b, c, d>> \in Seq(S)
           /\ \A b, c, d, e, f \in S : <<a, b, c, d, e, f>> \in Seq(S)
  BY SMTT(30)

\* Every handler inserts its event first.
LEMMA WholePlanFits ==
    ASSUME NEW k \in Kinds, NEW tx, NEW rows
    PROVE  Plan[k] \in Seq(Calls) /\ PlanFits(Plan[k], k, tx, rows)
<1>0. k \in Stored \/ k \in {"unstorable", "noise", "malformed"}
  BY DEF Stored
<1>1. CASE k = "GameInitialized"
  <2>1. Plan[k] = <<"ensureOne", "create", "upsert">>
    BY <1>1 DEF Plan, InitializedCalls
  <2>2. Plan[k] \in Seq(Calls)
    BY <2>1, Tuples DEF Calls
  <2>. DEFINE plan == Plan[k]
  <2>3. Len(plan) = 3 /\ plan[1] = "ensureOne" /\ plan[2] = "create" /\ plan[3] = "upsert"
    BY <2>1
  <2>. HIDE DEF plan
  <2>4. \A i \in 1 .. 3 : i = 1 \/ i = 2 \/ i = 3
    OBVIOUS
  <2>5. \A i \in 1 .. 3 : OpFits(plan[i], k)
    BY <1>0, <1>1, <2>3, <2>4 DEF OpFits
  <2>6. \A i \in 1 .. 3 : plan[i] \in Changes => \E j \in 1 .. i - 1 : plan[j] = "upsert"
    BY <2>3, <2>4 DEF Changes
  <2>7. \E i \in 1 .. 3 : plan[i] \in {"upsert", "finish"}
    BY <2>3
  <2>8. PlanFits(plan, k, tx, rows)
    BY <2>3, <2>5, <2>6, <2>7 DEF PlanFits
  <2>. QED  BY <2>2, <2>8 DEF plan
<1>2. CASE k = "GameStarted"
  <2>1. Plan[k] = <<"find", "upsert", "ensureTwo", "join">>
    BY <1>2 DEF Plan, StartedCalls
  <2>2. Plan[k] \in Seq(Calls)
    BY <2>1, Tuples DEF Calls
  <2>. DEFINE plan == Plan[k]
  <2>3. Len(plan) = 4 /\ plan[1] = "find" /\ plan[2] = "upsert" /\ plan[3] = "ensureTwo" /\ plan[4] = "join"
    BY <2>1
  <2>. HIDE DEF plan
  <2>4. \A i \in 1 .. 4 : i = 1 \/ i = 2 \/ i = 3 \/ i = 4
    OBVIOUS
  <2>5. \A i \in 1 .. 4 : OpFits(plan[i], k)
    BY <1>0, <1>2, <2>3, <2>4 DEF OpFits
  <2>6. \A i \in 1 .. 4 : plan[i] \in Changes => \E j \in 1 .. i - 1 : plan[j] = "upsert"
    BY <2>3, <2>4 DEF Changes
  <2>7. \E i \in 1 .. 4 : plan[i] \in {"upsert", "finish"}
    BY <2>3
  <2>8. PlanFits(plan, k, tx, rows)
    BY <2>3, <2>5, <2>6, <2>7 DEF PlanFits
  <2>. QED  BY <2>2, <2>8 DEF plan
<1>3. CASE k = "GameFinished"
  <2>1. Plan[k] = <<"find", "finish">>
    BY <1>3 DEF Plan, FinishedCalls
  <2>2. Plan[k] \in Seq(Calls)
    BY <2>1, Tuples DEF Calls
  <2>. DEFINE plan == Plan[k]
  <2>3. Len(plan) = 2 /\ plan[1] = "find" /\ plan[2] = "finish"
    BY <2>1
  <2>. HIDE DEF plan
  <2>4. \A i \in 1 .. 2 : i = 1 \/ i = 2
    OBVIOUS
  <2>5. \A i \in 1 .. 2 : OpFits(plan[i], k)
    BY <1>3, <2>3, <2>4 DEF OpFits
  <2>6. \A i \in 1 .. 2 : plan[i] \in Changes => \E j \in 1 .. i - 1 : plan[j] = "upsert"
    BY <2>3, <2>4 DEF Changes
  <2>7. \E i \in 1 .. 2 : plan[i] \in {"upsert", "finish"}
    BY <2>3
  <2>8. PlanFits(plan, k, tx, rows)
    BY <2>3, <2>5, <2>6, <2>7 DEF PlanFits
  <2>. QED  BY <2>2, <2>8 DEF plan
<1>4. CASE k = "Draw"
  <2>1. Plan[k] = <<"find", "upsert", "complete", "find", "playedOne", "playedTwo">>
    BY <1>4 DEF Plan, DrawCalls
  <2>2. Plan[k] \in Seq(Calls)
    BY <2>1, Tuples DEF Calls
  <2>. DEFINE plan == Plan[k]
  <2>3. Len(plan) = 6 /\ plan[1] = "find" /\ plan[2] = "upsert" /\ plan[3] = "complete" /\ plan[4] = "find" /\ plan[5] = "playedOne" /\ plan[6] = "playedTwo"
    BY <2>1
  <2>. HIDE DEF plan
  <2>4. \A i \in 1 .. 6 : i = 1 \/ i = 2 \/ i = 3 \/ i = 4 \/ i = 5 \/ i = 6
    OBVIOUS
  <2>5. \A i \in 1 .. 6 : OpFits(plan[i], k)
    BY <1>0, <1>4, <2>3, <2>4 DEF OpFits
  <2>6. \A i \in 1 .. 6 : plan[i] \in Changes => \E j \in 1 .. i - 1 : plan[j] = "upsert"
    BY <2>3, <2>4 DEF Changes
  <2>7. \E i \in 1 .. 6 : plan[i] \in {"upsert", "finish"}
    BY <2>3
  <2>8. PlanFits(plan, k, tx, rows)
    BY <2>3, <2>5, <2>6, <2>7 DEF PlanFits
  <2>. QED  BY <2>2, <2>8 DEF plan
<1>5. CASE k = "GameCancelled"
  <2>1. Plan[k] = <<"find", "upsert", "cancel">>
    BY <1>5 DEF Plan, CancelledCalls
  <2>2. Plan[k] \in Seq(Calls)
    BY <2>1, Tuples DEF Calls
  <2>. DEFINE plan == Plan[k]
  <2>3. Len(plan) = 3 /\ plan[1] = "find" /\ plan[2] = "upsert" /\ plan[3] = "cancel"
    BY <2>1
  <2>. HIDE DEF plan
  <2>4. \A i \in 1 .. 3 : i = 1 \/ i = 2 \/ i = 3
    OBVIOUS
  <2>5. \A i \in 1 .. 3 : OpFits(plan[i], k)
    BY <1>0, <1>5, <2>3, <2>4 DEF OpFits
  <2>6. \A i \in 1 .. 3 : plan[i] \in Changes => \E j \in 1 .. i - 1 : plan[j] = "upsert"
    BY <2>3, <2>4 DEF Changes
  <2>7. \E i \in 1 .. 3 : plan[i] \in {"upsert", "finish"}
    BY <2>3
  <2>8. PlanFits(plan, k, tx, rows)
    BY <2>3, <2>5, <2>6, <2>7 DEF PlanFits
  <2>. QED  BY <2>2, <2>8 DEF plan
<1>6. CASE k = "SecretOpened"
  <2>1. Plan[k] = <<"find", "upsert", "reveal">>
    BY <1>6 DEF Plan, SecretOpenedCalls
  <2>2. Plan[k] \in Seq(Calls)
    BY <2>1, Tuples DEF Calls
  <2>. DEFINE plan == Plan[k]
  <2>3. Len(plan) = 3 /\ plan[1] = "find" /\ plan[2] = "upsert" /\ plan[3] = "reveal"
    BY <2>1
  <2>. HIDE DEF plan
  <2>4. \A i \in 1 .. 3 : i = 1 \/ i = 2 \/ i = 3
    OBVIOUS
  <2>5. \A i \in 1 .. 3 : OpFits(plan[i], k)
    BY <1>0, <1>6, <2>3, <2>4 DEF OpFits
  <2>6. \A i \in 1 .. 3 : plan[i] \in Changes => \E j \in 1 .. i - 1 : plan[j] = "upsert"
    BY <2>3, <2>4 DEF Changes
  <2>7. \E i \in 1 .. 3 : plan[i] \in {"upsert", "finish"}
    BY <2>3
  <2>8. PlanFits(plan, k, tx, rows)
    BY <2>3, <2>5, <2>6, <2>7 DEF PlanFits
  <2>. QED  BY <2>2, <2>8 DEF plan
<1>7. CASE k = "InsufficientBalance"
  <2>1. Plan[k] = <<"find", "upsert">>
    BY <1>7 DEF Plan, InsufficientBalanceCalls
  <2>2. Plan[k] \in Seq(Calls)
    BY <2>1, Tuples DEF Calls
  <2>. DEFINE plan == Plan[k]
  <2>3. Len(plan) = 2 /\ plan[1] = "find" /\ plan[2] = "upsert"
    BY <2>1
  <2>. HIDE DEF plan
  <2>4. \A i \in 1 .. 2 : i = 1 \/ i = 2
    OBVIOUS
  <2>5. \A i \in 1 .. 2 : OpFits(plan[i], k)
    BY <1>0, <1>7, <2>3, <2>4 DEF OpFits
  <2>6. \A i \in 1 .. 2 : plan[i] \in Changes => \E j \in 1 .. i - 1 : plan[j] = "upsert"
    BY <2>3, <2>4 DEF Changes
  <2>7. \E i \in 1 .. 2 : plan[i] \in {"upsert", "finish"}
    BY <2>3
  <2>8. PlanFits(plan, k, tx, rows)
    BY <2>3, <2>5, <2>6, <2>7 DEF PlanFits
  <2>. QED  BY <2>2, <2>8 DEF plan
<1>8. CASE k = "unstorable"
  <2>1. Plan[k] = <<"validate">>
    BY <1>8 DEF Plan
  <2>2. Plan[k] \in Seq(Calls)
    BY <2>1, Tuples DEF Calls
  <2>. DEFINE plan == Plan[k]
  <2>3. Len(plan) = 1 /\ plan[1] = "validate"
    BY <2>1
  <2>. HIDE DEF plan
  <2>5. \A i \in 1 .. 1 : OpFits(plan[i], k)
    BY <1>8, <2>3 DEF OpFits
  <2>6. \A i \in 1 .. 1 : plan[i] \in Changes => \E j \in 1 .. i - 1 : plan[j] = "upsert"
    BY <2>3 DEF Changes
  <2>7. k \notin Stored
    BY <1>8 DEF Stored
  <2>8. PlanFits(plan, k, tx, rows)
    BY <2>3, <2>5, <2>6, <2>7 DEF PlanFits
  <2>. QED  BY <2>2, <2>8 DEF plan
<1>9. CASE k = "noise"
  <2>1. Plan[k] = <<>>
    BY <1>9 DEF Plan
  <2>2. Plan[k] \in Seq(Calls)
    BY <2>1
  <2>. DEFINE plan == Plan[k]
  <2>3. Len(plan) = 0
    BY <2>1
  <2>. HIDE DEF plan
  <2>5. \A i \in 1 .. 0 : OpFits(plan[i], k)
    BY <1>9, <2>3 DEF OpFits
  <2>6. \A i \in 1 .. 0 : plan[i] \in Changes => \E j \in 1 .. i - 1 : plan[j] = "upsert"
    BY <2>3 DEF Changes
  <2>7. k \notin Stored
    BY <1>9 DEF Stored
  <2>8. PlanFits(plan, k, tx, rows)
    BY <2>3, <2>5, <2>6, <2>7 DEF PlanFits
  <2>. QED  BY <2>2, <2>8 DEF plan
<1>10. CASE k = "malformed"
  <2>1. Plan[k] = <<"deadLetter">>
    BY <1>10 DEF Plan
  <2>2. Plan[k] \in Seq(Calls)
    BY <2>1, Tuples DEF Calls
  <2>. DEFINE plan == Plan[k]
  <2>3. Len(plan) = 1 /\ plan[1] = "deadLetter"
    BY <2>1
  <2>. HIDE DEF plan
  <2>5. \A i \in 1 .. 1 : OpFits(plan[i], k)
    BY <1>10, <2>3 DEF OpFits
  <2>6. \A i \in 1 .. 1 : plan[i] \in Changes => \E j \in 1 .. i - 1 : plan[j] = "upsert"
    BY <2>3 DEF Changes
  <2>7. k \notin Stored
    BY <1>10 DEF Stored
  <2>8. PlanFits(plan, k, tx, rows)
    BY <2>3, <2>5, <2>6, <2>7 DEF PlanFits
  <2>. QED  BY <2>2, <2>8 DEF plan
<1>. QED  BY <1>1, <1>2, <1>3, <1>4, <1>5, <1>6, <1>7, <1>8, <1>9, <1>10 DEF Kinds, Plan

\* The rest of a handler still fits once its first call is made.
LEMMA PlanTailFits ==
    ASSUME NEW plan \in Seq(Calls), plan # <<>>, NEW k, NEW tx, NEW rows, NEW more,
           PlanFits(plan, k, tx, rows), rows \subseteq more,
           Head(plan) \in {"upsert", "finish"} => tx \in more
    PROVE  Tail(plan) \in Seq(Calls) /\ PlanFits(Tail(plan), k, tx, more)
<1>1. /\ Tail(plan) \in Seq(Calls) /\ Len(Tail(plan)) = Len(plan) - 1 /\ Len(plan) \in Nat
      /\ \A i \in 1 .. Len(plan) - 1 : Tail(plan)[i] = plan[i + 1]
      /\ Head(plan) = plan[1]
  OBVIOUS
<1>. DEFINE rest == Tail(plan)
<1>2. \A i \in 1 .. Len(rest) : rest[i] = plan[i + 1] /\ i + 1 \in 1 .. Len(plan)
  BY <1>1
<1>3. ASSUME NEW i \in 1 .. Len(rest), rest[i] \in Changes, tx \notin more
      PROVE  \E j \in 1 .. i - 1 : rest[j] = "upsert"
  <2>1. PICK j \in 1 .. (i + 1) - 1 : plan[j] = "upsert"
    BY <1>1, <1>2, <1>3 DEF PlanFits
  <2>2. j # 1
    BY <1>1, <1>3, <2>1
  <2>3. j - 1 \in 1 .. i - 1 /\ rest[j - 1] = plan[j]
    BY <1>1, <2>1, <2>2
  <2>. QED  BY <2>1, <2>3
<1>4. ASSUME k \in Stored, tx \notin more
      PROVE  \E i \in 1 .. Len(rest) : rest[i] \in {"upsert", "finish"}
  <2>1. PICK i \in 1 .. Len(plan) : plan[i] \in {"upsert", "finish"}
    BY <1>4 DEF PlanFits
  <2>2. i # 1
    BY <1>1, <1>4, <2>1
  <2>3. i - 1 \in 1 .. Len(rest) /\ rest[i - 1] = plan[i]
    BY <1>1, <2>1, <2>2
  <2>. QED  BY <2>1, <2>3, Zenon
<1>5. \A i \in 1 .. Len(rest) : OpFits(rest[i], k)
  BY <1>2 DEF PlanFits
<1>. HIDE DEF rest
<1>6. PlanFits(rest, k, tx, more)
  BY <1>3, <1>4, <1>5 DEF PlanFits
<1>. QED  BY <1>1, <1>6 DEF rest

\* A statement that writes one game leaves the rest of the database alone.
LEMMA WritesGame ==
    ASSUME NEW d \in Database, NEW g \in Games, NEW r \in Game
    PROVE  LET e == [d EXCEPT !.games[g] = r]
           IN  /\ e \in Database
               /\ e.rows = d.rows /\ e.users = d.users /\ e.stats = d.stats
               /\ e.games[g] = r
               /\ \A h \in Games \ {g} : e.games[h] = d.games[h]
  BY Zenon DEF Database

\* Counting touches the counters of one game.
LEMMA Increments ==
    ASSUME NEW d \in Database, NEW g \in Games, NEW p \in Players,
           NEW c \in {"played", "wins", "losses"}
    PROVE  LET e == Increment(d, g, p, c)
           IN  /\ e \in Database
               /\ e.rows = d.rows /\ e.users = d.users /\ e.games = d.games
               /\ \A h \in Games \ {g} : e.stats[h] = d.stats[h]
<1>1. CASE p \notin d.users[g]
  BY <1>1 DEF Increment
<1>2. CASE p \in d.users[g]
  <2>1. PICK n : n = [d.stats[g][p] EXCEPT ![c] = @ + 1]
    BY Zenon
  <2>2. d.stats[g][p] \in Counters
    BY DEF Database
  <2>3. n \in Counters
    BY <2>1, <2>2 DEF Counters
  <2>4. PICK m : m = [d.stats[g] EXCEPT ![p] = n]
    BY Zenon
  <2>5. m \in [Players -> Counters]
    BY <2>3, <2>4 DEF Database
  <2>6. Increment(d, g, p, c) = [d EXCEPT !.stats[g] = m]
    BY <1>2, <2>1, <2>4 DEF Increment, Database
  <2>. QED  BY <2>5, <2>6, ZenonT(40) DEF Database
<1>. QED  BY <1>1, <1>2

\* JoinGame writes player two and the status.
LEMMA JoinWrites ==
    ASSUME NEW d \in Database, NEW g \in Games
    PROVE  \E r \in Game : /\ JoinGame(d, g) = [d EXCEPT !.games[g] = r]
                           /\ r.revealed = {} /\ r.winner = d.games[g].winner
                           /\ r.status = WaitingForOpenBids
<1>. DEFINE r == [d.games[g] EXCEPT !.two = TRUE, !.status = WaitingForOpenBids, !.revealed = {}]
<1>1. d.games[g] \in Game
  BY DEF Database
<1>2. r \in Game /\ r.revealed = {} /\ r.winner = d.games[g].winner /\ r.status = WaitingForOpenBids
  BY <1>1, Zenon DEF Game, GameStatus
<1>3. JoinGame(d, g) = [d EXCEPT !.games[g] = r]
  BY Zenon DEF JoinGame, Database
<1>. QED  BY <1>2, <1>3, Zenon

\* RevealChoice adds one choice.
LEMMA RevealWrites ==
    ASSUME NEW d \in Database, NEW g \in Games, NEW p \in Players
    PROVE  \E r \in Game : /\ RevealChoice(d, g, p) = [d EXCEPT !.games[g] = r]
                           /\ r.two = d.games[g].two /\ r.winner = d.games[g].winner
                           /\ r.status = d.games[g].status
<1>. DEFINE r == [d.games[g] EXCEPT !.revealed = @ \cup {p}]
<1>1. d.games[g] \in Game
  BY DEF Database
<1>2. r \in Game /\ r.two = d.games[g].two /\ r.winner = d.games[g].winner /\ r.status = d.games[g].status
  BY <1>1 DEF Game
<1>3. RevealChoice(d, g, p) = [d EXCEPT !.games[g] = r]
  BY DEF RevealChoice, Database
<1>. QED  BY <1>2, <1>3, Zenon

\* CompleteGame writes the status and the winner.
LEMMA CompleteWrites ==
    ASSUME NEW d \in Database, NEW g \in Games, NEW w \in Players \cup {Nobody}
    PROVE  \E r \in Game : /\ CompleteGame(d, g, w) = [d EXCEPT !.games[g] = r]
                           /\ CancelGame(d, g) = CompleteGame(d, g, Nobody)
                           /\ r.two = d.games[g].two /\ r.revealed = d.games[g].revealed
                           /\ r.winner = w
<1>. DEFINE r == [d.games[g] EXCEPT !.winner = w, !.status = Paid]
<1>1. d.games[g] \in Game
  BY DEF Database
<1>2. r \in Game /\ r.two = d.games[g].two /\ r.revealed = d.games[g].revealed /\ r.winner = w
  BY <1>1, Zenon DEF Game, GameStatus
<1>3. CompleteGame(d, g, w) = [d EXCEPT !.games[g] = r]
  BY Zenon DEF CompleteGame, Database
<1>4. CancelGame(d, g) = CompleteGame(d, g, Nobody)
  BY DEF CompleteGame, CancelGame
<1>. QED  BY <1>2, <1>3, <1>4, Zenon

\* CreateOrIgnore writes a game that is not there.
LEMMA CreateWrites ==
    ASSUME NEW d \in Database, NEW g \in Games
    PROVE  \E r \in Game : /\ CreateOrIgnore(d, g) = [d EXCEPT !.games[g] = r]
                           /\ r.two = d.games[g].two /\ r.revealed = d.games[g].revealed
                           /\ r.winner = d.games[g].winner
                           /\ r.status = Paid => d.games[g].status = Paid
<1>1. d.games[g] \in Game
  BY DEF Database
<1>2. CASE Exists(d, g)
  <2>1. CreateOrIgnore(d, g) = [d EXCEPT !.games[g] = d.games[g]]
    BY <1>2 DEF CreateOrIgnore, Database
  <2>. QED  BY <1>1, <2>1, Zenon
<1>3. CASE ~Exists(d, g)
  <2>. DEFINE r == [d.games[g] EXCEPT !.status = WaitingForOpponent]
  <2>1. /\ r \in Game /\ r.two = d.games[g].two /\ r.revealed = d.games[g].revealed
        /\ r.winner = d.games[g].winner /\ r.status # Paid
    BY <1>1 DEF Game, GameStatus, WaitingForOpponent, Paid
  <2>2. CreateOrIgnore(d, g) = [d EXCEPT !.games[g] = r]
    BY <1>3 DEF CreateOrIgnore, Database
  <2>. HIDE DEF r
  <2>. QED  BY <2>1, <2>2, Zenon
<1>. QED  BY <1>2, <1>3

\* Upsert adds an event row.
LEMMA Upserts ==
    ASSUME NEW d \in Database, NEW tx \in Nat
    PROVE  LET e == Upsert(d, tx)
           IN  /\ e \in Database /\ e.rows = d.rows \cup {tx}
               /\ e.games = d.games /\ e.users = d.users /\ e.stats = d.stats
  BY DEF Upsert, Database

\* EnsureUserByWallet adds a users row.
LEMMA EnsuresUser ==
    ASSUME NEW d \in Database, NEW g \in Games, NEW p \in Players
    PROVE  LET e == EnsureUserByWallet(d, g, p)
           IN  /\ e \in Database /\ e.rows = d.rows
               /\ e.games = d.games /\ e.stats = d.stats
  BY Zenon DEF EnsureUserByWallet, Database

\* The transaction of HandleGameFinished writes one game and its counters.
LEMMA FinishWrites ==
    ASSUME NEW d \in Database, NEW g \in Games, NEW w \in Players
    PROVE  LET e == Finish(d, g, w)
           IN  /\ e \in Database /\ e.rows = d.rows
               /\ e.games[g].two = d.games[g].two
               /\ e.games[g].revealed = d.games[g].revealed
               /\ \A h \in Games \ {g} : e.games[h] = d.games[h] /\ e.stats[h] = d.stats[h]
<1>. DEFINE loser == IF w = "one" THEN "two" ELSE "one"
            a == CompleteGame(d, g, w)
            b == IncrementGamesPlayed(a, g, w)
            c == IncrementWins(b, g, w)
            x == IncrementGamesPlayed(c, g, loser)
            y == IncrementLosses(x, g, loser)
<1>0. loser \in Players
  BY DEF Players
<1>1. /\ a \in Database /\ a.rows = d.rows /\ a.stats = d.stats
      /\ a.games[g].two = d.games[g].two /\ a.games[g].revealed = d.games[g].revealed
      /\ \A h \in Games \ {g} : a.games[h] = d.games[h]
  <2>1. PICK r \in Game : /\ a = [d EXCEPT !.games[g] = r]
                          /\ r.two = d.games[g].two /\ r.revealed = d.games[g].revealed
    BY CompleteWrites
  <2>. QED  BY <2>1, WritesGame
<1>. HIDE DEF a, loser
<1>2. /\ b \in Database /\ b.rows = a.rows /\ b.games = a.games
      /\ \A h \in Games \ {g} : b.stats[h] = a.stats[h]
  BY <1>1, Increments, Zenon DEF IncrementGamesPlayed
<1>. HIDE DEF b
<1>3. /\ c \in Database /\ c.rows = b.rows /\ c.games = b.games
      /\ \A h \in Games \ {g} : c.stats[h] = b.stats[h]
  BY <1>2, Increments DEF IncrementWins
<1>. HIDE DEF c
<1>4. /\ x \in Database /\ x.rows = c.rows /\ x.games = c.games
      /\ \A h \in Games \ {g} : x.stats[h] = c.stats[h]
  BY <1>0, <1>3, Increments DEF IncrementGamesPlayed
<1>. HIDE DEF x
<1>5. /\ y \in Database /\ y.rows = x.rows /\ y.games = x.games
      /\ \A h \in Games \ {g} : y.stats[h] = x.stats[h]
  BY <1>0, <1>4, Increments DEF IncrementLosses
<1>. HIDE DEF y
<1>6. Finish(d, g, w) = c \/ Finish(d, g, w) = y
  BY Zenon DEF Finish, a, b, c, x, y, loser
<1>. QED  BY <1>1, <1>2, <1>3, <1>4, <1>5, <1>6

\* What may appear in the database e that was not in db, by a call for game g.
OnlyOf(e, op, g) ==
    \A h \in Games :
        /\ e.games[h].two => db.games[h].two \/ (h = g /\ op = "join")
        /\ e.games[h].revealed # {} => db.games[h].revealed # {} \/ (h = g /\ op = "reveal")
        /\ e.games[h].winner # Nobody => db.games[h].winner # Nobody \/ (h = g /\ op = "finish")
        /\ e.games[h].status = Paid =>
              db.games[h].status = Paid \/ (h = g /\ op \in {"complete", "cancel", "finish"})
        /\ \A p \in Players : e.stats[h][p] # Zero =>
              db.stats[h][p] # Zero \/ (h = g /\ op \in {"playedOne", "playedTwo", "finish"})

\* The row r shows nothing of game g that its row did not, but by this call.
AllowedRow(r, op, g) ==
    /\ r.two => db.games[g].two \/ op = "join"
    /\ r.revealed # {} => db.games[g].revealed # {} \/ op = "reveal"
    /\ r.winner # Nobody => db.games[g].winner # Nobody \/ op = "finish"
    /\ r.status = Paid => db.games[g].status = Paid \/ op \in {"complete", "cancel", "finish"}

\* A call that writes one game.
LEMMA GameCall ==
    ASSUME db \in Database, NEW g \in Games, NEW op, NEW r \in Game, AllowedRow(r, op, g),
           NEW e, e = [db EXCEPT !.games[g] = r]
    PROVE  e \in Database /\ e.rows = db.rows /\ OnlyOf(e, op, g)
<1>1. /\ e \in Database /\ e.rows = db.rows /\ e.stats = db.stats
      /\ e.games[g] = r /\ \A h \in Games \ {g} : e.games[h] = db.games[h]
  BY WritesGame
<1>2. ASSUME NEW h \in Games
      PROVE  /\ e.games[h].two => db.games[h].two \/ (h = g /\ op = "join")
             /\ e.games[h].revealed # {} => db.games[h].revealed # {} \/ (h = g /\ op = "reveal")
             /\ e.games[h].winner # Nobody => db.games[h].winner # Nobody \/ (h = g /\ op = "finish")
             /\ e.games[h].status = Paid =>
                   db.games[h].status = Paid \/ (h = g /\ op \in {"complete", "cancel", "finish"})
  <2>1. CASE h = g
    BY <1>1, <2>1, Zenon DEF AllowedRow
  <2>2. CASE h # g
    BY <1>1, <2>2, Zenon
  <2>. QED  BY <2>1, <2>2
<1>. QED  BY <1>1, <1>2, Zenon DEF OnlyOf

\* A call that counts, or changes neither games nor counters.
LEMMA CounterCall ==
    ASSUME db \in Database, NEW g \in Games, NEW op, NEW e,
           e.games = db.games, \A h \in Games \ {g} : e.stats[h] = db.stats[h],
           e.stats = db.stats \/ op \in {"playedOne", "playedTwo", "finish"}
    PROVE  OnlyOf(e, op, g)
<1>1. ASSUME NEW h \in Games, NEW p \in Players, e.stats[h][p] # Zero
      PROVE  db.stats[h][p] # Zero \/ (h = g /\ op \in {"playedOne", "playedTwo", "finish"})
  BY <1>1, Zenon
<1>. QED  BY <1>1, Zenon DEF OnlyOf

\* What a call does: it keeps the event rows, an insert leaves the row behind, and
\* nothing appears but what the call is there for.
LEMMA EffectShape ==
    ASSUME TypeOK, job # NoJob, job.plan # <<>>
    PROVE  /\ Effect \in Database /\ db.rows \subseteq Effect.rows
           /\ Inserts => job.tx \in Effect.rows
           /\ OnlyOf(Effect, Op, job.event.game)
<1>. DEFINE g == job.event.game
<1>0. /\ db \in Database /\ job \in Job /\ g \in Games /\ job.tx \in Nat
      /\ job.event.who \in Players /\ Nobody \in Players \cup {Nobody}
  BY DEF TypeOK, Job, Event
<1>. SUFFICES /\ Effect \in Database /\ db.rows \subseteq Effect.rows
              /\ Inserts => job.tx \in Effect.rows
              /\ OnlyOf(Effect, Op, g)
  OBVIOUS
<1>. HIDE DEF g
<1>1. CASE Op \in {"ensureOne", "ensureTwo"}
  <2>1. Effect = EnsureUserByWallet(db, g, "one") \/ Effect = EnsureUserByWallet(db, g, "two")
    BY <1>1 DEF Effect, g
  <2>2. /\ Effect \in Database /\ Effect.rows = db.rows
        /\ Effect.games = db.games /\ Effect.stats = db.stats
    BY <1>0, <2>1, EnsuresUser DEF Players
  <2>3. OnlyOf(Effect, Op, g)
    BY <1>0, <2>2, CounterCall
  <2>. QED  BY <1>1, <2>2, <2>3 DEF Inserts
<1>2. CASE Op = "upsert"
  <2>1. Effect = Upsert(db, job.tx)
    BY <1>2 DEF Effect
  <2>. QED  BY <1>0, <1>2, <2>1, Upserts DEF OnlyOf
<1>3. CASE Op = "create"
  <2>1. Effect = CreateOrIgnore(db, g)
    BY <1>3 DEF Effect, g
  <2>2. PICK r \in Game : /\ CreateOrIgnore(db, g) = [db EXCEPT !.games[g] = r]
                          /\ r.two = db.games[g].two /\ r.revealed = db.games[g].revealed
                          /\ r.winner = db.games[g].winner
                          /\ r.status = Paid => db.games[g].status = Paid
    BY <1>0, CreateWrites
  <2>3. Effect \in Database /\ Effect.rows = db.rows /\ OnlyOf(Effect, Op, g)
    BY <1>0, <1>3, <2>1, <2>2, GameCall, Zenon DEF AllowedRow
  <2>. QED  BY <1>3, <2>3 DEF Inserts
<1>4. CASE Op = "join"
  <2>1. Effect = JoinGame(db, g)
    BY <1>4 DEF Effect, g
  <2>2. PICK r \in Game : /\ JoinGame(db, g) = [db EXCEPT !.games[g] = r]
                          /\ r.revealed = {} /\ r.winner = db.games[g].winner
                          /\ r.status # Paid
    BY <1>0, JoinWrites DEF WaitingForOpenBids, Paid
  <2>3. AllowedRow(r, Op, g)
    BY <1>4, <2>2, Zenon DEF AllowedRow
  <2>4. Effect \in Database /\ Effect.rows = db.rows /\ OnlyOf(Effect, Op, g)
    BY <1>0, <2>1, <2>2, <2>3, GameCall
  <2>. QED  BY <1>4, <2>4 DEF Inserts
<1>5. CASE Op = "reveal"
  <2>1. Effect = RevealChoice(db, g, job.event.who)
    BY <1>5 DEF Effect, g
  <2>2. PICK r \in Game : /\ RevealChoice(db, g, job.event.who) = [db EXCEPT !.games[g] = r]
                          /\ r.two = db.games[g].two /\ r.winner = db.games[g].winner
                          /\ r.status = db.games[g].status
    BY <1>0, RevealWrites, ZenonT(40)
  <2>3. AllowedRow(r, Op, g)
    BY <1>5, <2>2, Zenon DEF AllowedRow
  <2>4. Effect \in Database /\ Effect.rows = db.rows /\ OnlyOf(Effect, Op, g)
    BY <1>0, <2>1, <2>2, <2>3, GameCall
  <2>. QED  BY <1>5, <2>4 DEF Inserts
<1>6. CASE Op = "complete"
  <2>1. Effect = CompleteGame(db, g, Nobody)
    BY <1>6 DEF Effect, g
  <2>2. PICK r \in Game : /\ CompleteGame(db, g, Nobody) = [db EXCEPT !.games[g] = r]
                          /\ r.two = db.games[g].two /\ r.revealed = db.games[g].revealed
                          /\ r.winner = Nobody
    BY <1>0, CompleteWrites
  <2>3. AllowedRow(r, Op, g)
    BY <1>6, <2>2, Zenon DEF AllowedRow
  <2>4. Effect \in Database /\ Effect.rows = db.rows /\ OnlyOf(Effect, Op, g)
    BY <1>0, <2>1, <2>2, <2>3, GameCall
  <2>. QED  BY <1>6, <2>4 DEF Inserts
<1>7. CASE Op = "cancel"
  <2>1. Effect = CancelGame(db, g)
    BY <1>7 DEF Effect, g
  <2>2. PICK r \in Game : /\ CancelGame(db, g) = [db EXCEPT !.games[g] = r]
                          /\ r.two = db.games[g].two /\ r.revealed = db.games[g].revealed
                          /\ r.winner = Nobody
    BY <1>0, CompleteWrites
  <2>3. AllowedRow(r, Op, g)
    BY <1>7, <2>2, Zenon DEF AllowedRow
  <2>4. Effect \in Database /\ Effect.rows = db.rows /\ OnlyOf(Effect, Op, g)
    BY <1>0, <2>1, <2>2, <2>3, GameCall
  <2>. QED  BY <1>7, <2>4 DEF Inserts
<1>8. CASE Op = "playedOne"
  <2>1. Effect = IncrementGamesPlayed(db, g, "one") \/ Effect = db
    BY <1>8 DEF Effect, g
  <2>2. /\ Effect \in Database /\ Effect.rows = db.rows /\ Effect.games = db.games
        /\ \A h \in Games \ {g} : Effect.stats[h] = db.stats[h]
    <3>1. "one" \in Players /\ "played" \in {"played", "wins", "losses"}
      BY DEF Players
    <3>2. CASE Effect = db
      BY <1>0, <3>2
    <3>3. CASE Effect = Increment(db, g, "one", "played")
      BY <1>0, <3>1, <3>3, Increments, ZenonT(40)
    <3>. QED  BY <2>1, <3>2, <3>3 DEF IncrementGamesPlayed
  <2>3. OnlyOf(Effect, Op, g)
    BY <1>0, <1>8, <2>2, CounterCall
  <2>. QED  BY <1>8, <2>2, <2>3 DEF Inserts
<1>9. CASE Op = "playedTwo"
  <2>1. Effect = IncrementGamesPlayed(db, g, "two") \/ Effect = db
    BY <1>9 DEF Effect, g
  <2>2. /\ Effect \in Database /\ Effect.rows = db.rows /\ Effect.games = db.games
        /\ \A h \in Games \ {g} : Effect.stats[h] = db.stats[h]
    <3>1. "two" \in Players /\ "played" \in {"played", "wins", "losses"}
      BY DEF Players
    <3>2. CASE Effect = db
      BY <1>0, <3>2
    <3>3. CASE Effect = Increment(db, g, "two", "played")
      BY <1>0, <3>1, <3>3, Increments, ZenonT(40)
    <3>. QED  BY <2>1, <3>2, <3>3 DEF IncrementGamesPlayed
  <2>3. OnlyOf(Effect, Op, g)
    BY <1>0, <1>9, <2>2, CounterCall
  <2>. QED  BY <1>9, <2>2, <2>3 DEF Inserts
<1>10. CASE Op = "finish"
  <2>1. CASE ~Inserted
    <3>1. Effect = db /\ job.tx \in db.rows
      BY <1>10, <2>1 DEF Effect, Inserted
    <3>. QED  BY <1>0, <3>1 DEF OnlyOf
  <2>2. CASE Inserted
    <3>. DEFINE d == Upsert(db, job.tx)
    <3>1. Effect = Finish(d, g, job.event.who)
      BY <1>10, <2>2 DEF Effect, g
    <3>2. /\ d \in Database /\ d.rows = db.rows \cup {job.tx}
          /\ d.games = db.games /\ d.stats = db.stats
      BY <1>0, Upserts
    <3>. HIDE DEF d
    <3>3. /\ Effect \in Database /\ Effect.rows = d.rows
          /\ Effect.games[g].two = d.games[g].two
          /\ Effect.games[g].revealed = d.games[g].revealed
          /\ \A h \in Games \ {g} : Effect.games[h] = d.games[h] /\ Effect.stats[h] = d.stats[h]
      BY <1>0, <3>1, <3>2, FinishWrites
    <3>4. OnlyOf(Effect, Op, g)
      BY <1>10, <3>2, <3>3, ZenonT(40) DEF OnlyOf
    <3>. QED  BY <3>2, <3>3, <3>4
  <2>. QED  BY <2>1, <2>2
<1>11. CASE Op \notin {"ensureOne", "ensureTwo", "create", "upsert", "join", "reveal", "complete",
                       "cancel", "playedOne", "playedTwo", "finish"}
  <2>1. Effect = db /\ ~Inserts
    BY <1>11 DEF Effect, Inserts
  <2>. QED  BY <1>0, <2>1 DEF OnlyOf
<1>. QED  BY <1>1, <1>2, <1>3, <1>4, <1>5, <1>6, <1>7, <1>8, <1>9, <1>10, <1>11

\* One game, won or lost, for a player who has a users row.
Counted(p, w, users) ==
    IF p \notin users THEN Zero
    ELSE [played |-> 1, wins |-> IF p = w THEN 1 ELSE 0, losses |-> IF p = w THEN 0 ELSE 1]

\* The result and the counters of a game that w has won.
Outcome(d, g, w) ==
    /\ d.games[g].winner = w /\ d.games[g].status = Paid
    /\ d.stats[g][w] = Counted(w, w, d.users[g])
    /\ \A p \in Players \ {w} : InGame(d, g, p) => d.stats[g][p] = Counted(p, w, d.users[g])

\* One more on a counter.
More(counters, c) == [counters EXCEPT ![c] = @ + 1]

\* Counting adds one to one counter of a player with a users row.
LEMMA IncrementAdds ==
    ASSUME NEW d \in Database, NEW g \in Games, NEW p \in Players,
           NEW c \in {"played", "wins", "losses"}
    PROVE  LET e == Increment(d, g, p, c)
           IN  /\ p \notin d.users[g] => e = d
               /\ p \in d.users[g] => e.stats[g][p] = More(d.stats[g][p], c)
               /\ \A q \in Players \ {p} : e.stats[g][q] = d.stats[g][q]
<1>1. CASE p \notin d.users[g]
  BY <1>1 DEF Increment
<1>2. CASE p \in d.users[g]
  <2>1. PICK n : n = More(d.stats[g][p], c)
    OBVIOUS
  <2>2. PICK m : m = [d.stats[g] EXCEPT ![p] = n]
    BY Zenon
  <2>3. Increment(d, g, p, c) = [d EXCEPT !.stats[g] = m]
    BY <1>2, <2>1, <2>2 DEF Increment, Database, More
  <2>4. Increment(d, g, p, c).stats[g] = m
    BY <2>3 DEF Database
  <2>5. m[p] = n /\ \A q \in Players \ {p} : m[q] = d.stats[g][q]
    BY <2>2 DEF Database
  <2>. QED  BY <1>2, <2>1, <2>4, <2>5
<1>. QED  BY <1>1, <1>2

\* One counter of a player, from a row that is known.
LEMMA CountsUp ==
    /\ More(Zero, "played") = [played |-> 1, wins |-> 0, losses |-> 0]
    /\ More([played |-> 1, wins |-> 0, losses |-> 0], "wins")
          = [played |-> 1, wins |-> 1, losses |-> 0]
    /\ More([played |-> 1, wins |-> 0, losses |-> 0], "losses")
          = [played |-> 1, wins |-> 0, losses |-> 1]
<1>1. More(Zero, "played") = [played |-> 1, wins |-> 0, losses |-> 0]
  BY DEF Zero, More
<1>2. More([played |-> 1, wins |-> 0, losses |-> 0], "wins")
          = [played |-> 1, wins |-> 1, losses |-> 0]
  BY DEF More
<1>3. More([played |-> 1, wins |-> 0, losses |-> 0], "losses")
          = [played |-> 1, wins |-> 0, losses |-> 1]
  BY DEF More
<1>. QED  BY <1>1, <1>2, <1>3

\* The transaction of HandleGameFinished on a game nothing was counted for.
LEMMA FinishOutcome ==
    ASSUME NEW d \in Database, NEW g \in Games, NEW w \in Players
    PROVE  LET e == Finish(d, g, w)
           IN  /\ e.users = d.users /\ e.games[g].status = Paid
               /\ (\A p \in Players : d.stats[g][p] = Zero) => Outcome(e, g, w)
<1>. DEFINE loser == IF w = "one" THEN "two" ELSE "one"
            a == CompleteGame(d, g, w)
            b == IncrementGamesPlayed(a, g, w)
            c == IncrementWins(b, g, w)
            x == IncrementGamesPlayed(c, g, loser)
            y == IncrementLosses(x, g, loser)
            once == [played |-> 1, wins |-> 0, losses |-> 0]
            won == [played |-> 1, wins |-> 1, losses |-> 0]
            beaten == [played |-> 1, wins |-> 0, losses |-> 1]
<1>0. /\ loser \in Players /\ loser # w
      /\ "played" \in {"played", "wins", "losses"} /\ "wins" \in {"played", "wins", "losses"}
      /\ "losses" \in {"played", "wins", "losses"}
  BY DEF Players
<1>l. Players \ {w} = {loser}
  BY DEF Players
<1>1. /\ a \in Database /\ a.stats = d.stats /\ a.users = d.users
      /\ a.games[g].two = d.games[g].two
      /\ a.games[g].winner = w /\ a.games[g].status = Paid
  <2>1. d.games[g] \in Game
    BY DEF Database
  <2>2. PICK r : r = [d.games[g] EXCEPT !.winner = w, !.status = Paid]
    OBVIOUS
  <2>3. r \in Game /\ r.two = d.games[g].two /\ r.winner = w /\ r.status = Paid
    BY <2>1, <2>2, Zenon DEF Game, GameStatus
  <2>4. a = [d EXCEPT !.games[g] = r]
    BY <2>2, Zenon DEF CompleteGame, Database
  <2>. QED  BY <2>3, <2>4, WritesGame
<1>. HIDE DEF a, loser
<1>2. /\ b \in Database /\ b.users = a.users /\ b.games = a.games
      /\ w \notin a.users[g] => b = a
      /\ w \in a.users[g] => b.stats[g][w] = More(a.stats[g][w], "played")
      /\ b.stats[g][loser] = a.stats[g][loser]
  <2>1. b = Increment(a, g, w, "played")
    BY DEF IncrementGamesPlayed
  <2>. HIDE DEF b
  <2>2. b \in Database /\ b.users = a.users /\ b.games = a.games
    BY <1>0, <1>1, <2>1, Increments, ZenonT(40)
  <2>3. /\ w \notin a.users[g] => b = a
        /\ w \in a.users[g] => b.stats[g][w] = More(a.stats[g][w], "played")
        /\ \A q \in Players \ {w} : b.stats[g][q] = a.stats[g][q]
    BY <1>0, <1>1, <2>1, IncrementAdds
  <2>. QED  BY <1>0, <2>2, <2>3, Zenon
<1>. HIDE DEF b
<1>3. /\ c \in Database /\ c.users = b.users /\ c.games = b.games
      /\ w \notin b.users[g] => c = b
      /\ w \in b.users[g] => c.stats[g][w] = More(b.stats[g][w], "wins")
      /\ c.stats[g][loser] = b.stats[g][loser]
  <2>1. c = Increment(b, g, w, "wins")
    BY DEF IncrementWins
  <2>. HIDE DEF c
  <2>2. c \in Database /\ c.users = b.users /\ c.games = b.games
    BY <1>0, <1>2, <2>1, Increments, Zenon
  <2>3. /\ w \notin b.users[g] => c = b
        /\ w \in b.users[g] => c.stats[g][w] = More(b.stats[g][w], "wins")
        /\ \A q \in Players \ {w} : c.stats[g][q] = b.stats[g][q]
    BY <1>0, <1>2, <2>1, IncrementAdds
  <2>. QED  BY <1>0, <2>2, <2>3, Zenon
<1>. HIDE DEF c
<1>4. /\ x \in Database /\ x.users = c.users /\ x.games = c.games
      /\ loser \notin c.users[g] => x = c
      /\ loser \in c.users[g] => x.stats[g][loser] = More(c.stats[g][loser], "played")
      /\ x.stats[g][w] = c.stats[g][w]
  <2>1. x = Increment(c, g, loser, "played")
    BY DEF IncrementGamesPlayed
  <2>. HIDE DEF x
  <2>2. x \in Database /\ x.users = c.users /\ x.games = c.games
    BY <1>0, <1>3, <2>1, Increments, Zenon
  <2>3. /\ loser \notin c.users[g] => x = c
        /\ loser \in c.users[g] => x.stats[g][loser] = More(c.stats[g][loser], "played")
        /\ \A q \in Players \ {loser} : x.stats[g][q] = c.stats[g][q]
    BY <1>0, <1>3, <2>1, IncrementAdds
  <2>. QED  BY <1>0, <2>2, <2>3, Zenon
<1>. HIDE DEF x
<1>5. /\ y \in Database /\ y.users = x.users /\ y.games = x.games
      /\ loser \notin x.users[g] => y = x
      /\ loser \in x.users[g] => y.stats[g][loser] = More(x.stats[g][loser], "losses")
      /\ y.stats[g][w] = x.stats[g][w]
  <2>1. y = Increment(x, g, loser, "losses")
    BY DEF IncrementLosses
  <2>. HIDE DEF y
  <2>2. y \in Database /\ y.users = x.users /\ y.games = x.games
    BY <1>0, <1>4, <2>1, Increments, Zenon
  <2>3. /\ loser \notin x.users[g] => y = x
        /\ loser \in x.users[g] => y.stats[g][loser] = More(x.stats[g][loser], "losses")
        /\ \A q \in Players \ {loser} : y.stats[g][q] = x.stats[g][q]
    BY <1>0, <1>4, <2>1, IncrementAdds
  <2>. QED  BY <1>0, <2>2, <2>3, Zenon
<1>. HIDE DEF y
<1>6. Finish(d, g, w) = IF InGame(d, g, loser) THEN y ELSE c
  BY DEF Finish, a, b, c, x, y, loser
<1>7. PICK e : e = Finish(d, g, w)
  OBVIOUS
<1>8. /\ e.users = d.users /\ e.games[g].two = d.games[g].two
      /\ e.games[g].winner = w /\ e.games[g].status = Paid
  BY <1>1, <1>2, <1>3, <1>4, <1>5, <1>6, <1>7
<1>9. ASSUME \A p \in Players : d.stats[g][p] = Zero
      PROVE  Outcome(e, g, w)
  <2>0. a.stats[g][w] = Zero /\ a.stats[g][loser] = Zero
    BY <1>0, <1>1, <1>9
  <2>1. c.stats[g][w] = IF w \in d.users[g] THEN won ELSE Zero
    BY <1>1, <1>2, <1>3, <2>0, CountsUp
  <2>2. c.stats[g][loser] = Zero
    BY <1>2, <1>3, <2>0
  <2>3. y.stats[g][w] = c.stats[g][w]
    BY <1>4, <1>5
  <2>4. y.stats[g][loser] = IF loser \in d.users[g] THEN beaten ELSE Zero
    BY <1>1, <1>2, <1>3, <1>4, <1>5, <2>2, CountsUp
  <2>5. e.stats[g][w] = Counted(w, w, e.users[g])
    BY <1>6, <1>7, <1>8, <2>1, <2>3 DEF Counted
  <2>6. InGame(e, g, loser) => e.stats[g][loser] = Counted(loser, w, e.users[g])
    BY <1>0, <1>6, <1>7, <1>8, <2>4 DEF Counted, InGame
  <2>. QED  BY <1>l, <1>8, <2>5, <2>6 DEF Outcome
<1>. QED  BY <1>7, <1>8, <1>9

\* What a call does to the database, as far as the order of events matters.
Wrote(e, op, g) ==
    /\ e.rows \subseteq db.rows \cup {job.tx}
    /\ op \notin {"upsert", "finish"} => e.rows = db.rows
    /\ op = "finish" /\ ~Inserted => e = db
    /\ \A h \in Games \ {g} :
          e.games[h] = db.games[h] /\ e.stats[h] = db.stats[h] /\ e.users[h] = db.users[h]
    /\ db.users[g] \subseteq e.users[g]
    /\ op \notin {"ensureOne", "ensureTwo"} => e.users[g] = db.users[g]
    /\ op = "ensureOne" => e.users[g] = db.users[g] \cup {"one"}
    /\ op \notin {"playedOne", "playedTwo", "finish"} => e.stats[g] = db.stats[g]
    /\ op \in {"ensureOne", "ensureTwo", "upsert", "playedOne", "playedTwo", "find", "validate",
               "deadLetter"} => e.games[g] = db.games[g]
    /\ op = "create" => IF Exists(db, g) THEN e.games[g] = db.games[g]
                                         ELSE e.games[g].status = WaitingForOpponent
    /\ op = "join" => e.games[g].status = WaitingForOpenBids
    /\ op = "reveal" => /\ e.games[g].two = db.games[g].two /\ e.games[g].winner = db.games[g].winner
                        /\ e.games[g].status = db.games[g].status
    /\ op \in {"complete", "cancel"} => e.games[g].status = Paid
    /\ op = "finish" /\ Inserted => e.games[g].status = Paid

\* A call that writes one game, in detail.
GameRow(e, g, r) ==
    /\ e.rows = db.rows /\ e.games[g] = r
    /\ \A h \in Games :
          /\ e.stats[h] = db.stats[h] /\ e.users[h] = db.users[h]
          /\ h # g => e.games[h] = db.games[h]

\* A call that writes one game is of this form.
LEMMA GameCallWrote ==
    ASSUME db \in Database, NEW g \in Games, NEW r \in Game, NEW e, e = [db EXCEPT !.games[g] = r]
    PROVE  GameRow(e, g, r)
<1>1. /\ e.rows = db.rows /\ e.users = db.users /\ e.stats = db.stats /\ e.games[g] = r
      /\ \A h \in Games \ {g} : e.games[h] = db.games[h]
  BY WritesGame
<1>. QED  BY <1>1, Zenon DEF GameRow

\* A row that a call adds is the row of its event.
LEMMA RowWrote ==
    ASSUME NEW e, NEW op, NEW g, Wrote(e, op, g), NEW i \in e.rows, i \notin db.rows
    PROVE  i = job.tx /\ op \in {"upsert", "finish"}
  BY DEF Wrote

\* A call is about one game.
LEMMA OtherWrote ==
    ASSUME NEW e, NEW op, NEW g, Wrote(e, op, g), NEW h \in Games, h # g
    PROVE  e.games[h] = db.games[h] /\ e.stats[h] = db.stats[h] /\ e.users[h] = db.users[h]
  BY DEF Wrote

\* Creating a user leaves the game and its counters alone.
LEMMA EnsureWrote ==
    ASSUME NEW e, NEW op, NEW g, Wrote(e, op, g), op \in {"ensureOne", "ensureTwo"}
    PROVE  e.games[g] = db.games[g] /\ e.stats[g] = db.stats[g]
  BY DEF Wrote

\* A game with an outcome is there.
LEMMA OutcomeExists == ASSUME NEW d, NEW g, NEW w, Outcome(d, g, w) PROVE Exists(d, g)
  BY DEF Outcome, Exists, Paid, NotCreated

\* Every call of a handler.
LEMMA EffectWrote ==
    ASSUME TypeOK, job # NoJob, job.plan # <<>>
    PROVE  Wrote(Effect, Op, job.event.game)
<1>t. /\ job.event.game \in Games /\ Op \in Calls /\ db \in Database
      /\ job.tx \in Nat /\ job.event.who \in Players
  <2>1. job \in Job /\ db \in Database
    BY DEF TypeOK
  <2>2. job.event.game \in Games /\ job.tx \in Nat /\ job.event.who \in Players /\ job.plan \in Seq(Calls)
    BY <2>1 DEF Job, Event
  <2>3. Op \in Calls
    BY <2>2 DEF Op
  <2>. QED  BY <2>1, <2>2, <2>3
<1>p. PICK g \in Games : g = job.event.game
  BY <1>t
<1>q. PICK op \in Calls : op = Op
  BY <1>t
<1>e. PICK e : e = Effect
  OBVIOUS
<1>0. /\ g = job.event.game /\ e = Effect /\ op = Op /\ db \in Database
      /\ job.tx \in Nat /\ job.event.who \in Players
  BY <1>t, <1>p, <1>q, <1>e
<1>. SUFFICES Wrote(e, op, g)
  BY <1>0
<1>d. db \in Database
  BY <1>0
<1>n. Nobody \in Players \cup {Nobody} /\ "one" \in Players /\ "two" \in Players
  BY DEF Players
<1>1. CASE op = "ensureOne"
  <2>1. e = [db EXCEPT !.users[g] = @ \cup {"one"}]
    BY <1>0, <1>1 DEF Effect, EnsureUserByWallet
  <2>2. /\ e.rows = db.rows /\ e.games = db.games /\ e.stats = db.stats
        /\ e.users[g] = db.users[g] \cup {"one"}
        /\ \A h \in Games \ {g} : e.users[h] = db.users[h]
    BY <1>0, <2>1 DEF Database
  <2>. QED  BY <1>1, <2>2 DEF Wrote
<1>2. CASE op = "ensureTwo"
  <2>1. e = [db EXCEPT !.users[g] = @ \cup {"two"}]
    BY <1>0, <1>2 DEF Effect, EnsureUserByWallet
  <2>2. /\ e.rows = db.rows /\ e.games = db.games /\ e.stats = db.stats
        /\ e.users[g] = db.users[g] \cup {"two"}
        /\ \A h \in Games \ {g} : e.users[h] = db.users[h]
    BY <1>0, <2>1 DEF Database
  <2>. QED  BY <1>2, <2>2 DEF Wrote
<1>3. CASE op = "create"
  <2>1. e = CreateOrIgnore(db, g)
    BY <1>0, <1>3 DEF Effect
  <2>2. CASE Exists(db, g)
    BY <1>3, <2>1, <2>2 DEF Wrote, CreateOrIgnore
  <2>3. CASE ~Exists(db, g)
    <3>1. PICK r : r = [db.games[g] EXCEPT !.status = WaitingForOpponent]
      BY Zenon
    <3>0. db.games[g] \in Game
      BY <1>0 DEF Database
    <3>2. r \in Game /\ r.status = WaitingForOpponent
      BY <3>0, <3>1 DEF Game, GameStatus
    <3>3. e = [db EXCEPT !.games[g] = r]
      BY <1>0, <2>1, <2>3, <3>1 DEF CreateOrIgnore, Database
    <3>4. GameRow(e, g, r)
      BY <1>0, <3>2, <3>3, GameCallWrote
    <3>. QED  BY <1>3, <2>3, <3>2, <3>4 DEF Wrote, GameRow
  <2>. QED  BY <2>2, <2>3
<1>4. CASE op = "upsert"
  <2>1. e = Upsert(db, job.tx)
    BY <1>0, <1>4 DEF Effect
  <2>2. e.rows = db.rows \cup {job.tx} /\ e.games = db.games /\ e.users = db.users /\ e.stats = db.stats
    BY <1>0, <2>1, Upserts
  <2>. QED  BY <1>4, <2>2 DEF Wrote
<1>5. CASE op = "join"
  <2>1. e = JoinGame(db, g)
    BY <1>0, <1>5 DEF Effect
  <2>2. PICK r \in Game : /\ JoinGame(db, g) = [db EXCEPT !.games[g] = r]
                          /\ r.revealed = {} /\ r.winner = db.games[g].winner
                          /\ r.status = WaitingForOpenBids
    BY <1>d, JoinWrites
  <2>3. GameRow(e, g, r)
    BY <1>0, <2>1, <2>2, GameCallWrote
  <2>. QED  BY <1>5, <2>2, <2>3 DEF Wrote, GameRow
<1>6. CASE op = "reveal"
  <2>1. e = RevealChoice(db, g, job.event.who)
    BY <1>0, <1>6 DEF Effect
  <2>2. PICK r \in Game : /\ RevealChoice(db, g, job.event.who) = [db EXCEPT !.games[g] = r]
                          /\ r.two = db.games[g].two /\ r.winner = db.games[g].winner
                          /\ r.status = db.games[g].status
    BY <1>0, RevealWrites, ZenonT(40)
  <2>3. GameRow(e, g, r)
    BY <1>0, <2>1, <2>2, GameCallWrote
  <2>. QED  BY <1>6, <2>2, <2>3 DEF Wrote, GameRow
<1>7. CASE op \in {"complete", "cancel"}
  <2>1. e = CompleteGame(db, g, Nobody)
    BY <1>0, <1>7 DEF Effect, CancelGame, CompleteGame
  <2>2. PICK r : r = [db.games[g] EXCEPT !.winner = Nobody, !.status = Paid]
    OBVIOUS
  <2>0. db.games[g] \in Game
    BY <1>0 DEF Database
  <2>3. r \in Game /\ r.status = Paid
    BY <1>n, <2>0, <2>2, Zenon DEF Game, GameStatus
  <2>4. e = [db EXCEPT !.games[g] = r]
    BY <1>0, <2>1, <2>2, ZenonT(40) DEF CompleteGame, Database
  <2>5. GameRow(e, g, r)
    BY <1>0, <2>3, <2>4, GameCallWrote
  <2>. QED  BY <1>7, <2>3, <2>5 DEF Wrote, GameRow
<1>8. CASE op \in {"playedOne", "playedTwo"}
  <2>1. e = db \/ \E p \in Players : e = Increment(db, g, p, "played")
    BY <1>0, <1>8, <1>n DEF Effect, IncrementGamesPlayed
  <2>2. /\ e.rows = db.rows /\ e.users = db.users /\ e.games = db.games
        /\ \A h \in Games \ {g} : e.stats[h] = db.stats[h]
    <3>1. "played" \in {"played", "wins", "losses"}
      OBVIOUS
    <3>2. CASE e = db
      BY <3>2
    <3>3. ASSUME NEW p \in Players, e = Increment(db, g, p, "played")
          PROVE  /\ e.rows = db.rows /\ e.users = db.users /\ e.games = db.games
                 /\ \A h \in Games \ {g} : e.stats[h] = db.stats[h]
      BY <1>d, <3>1, <3>3, Increments
    <3>. QED  BY <2>1, <3>2, <3>3
  <2>. QED  BY <1>8, <2>2 DEF Wrote
<1>9. CASE op = "finish" /\ ~Inserted
  <2>1. e = db
    BY <1>0, <1>9 DEF Effect
  <2>. QED  BY <1>9, <2>1 DEF Wrote
<1>10. CASE op = "finish" /\ Inserted
  <2>. DEFINE d == Upsert(db, job.tx)
  <2>1. e = Finish(d, g, job.event.who)
    BY <1>0, <1>10 DEF Effect
  <2>2. /\ d \in Database /\ d.rows = db.rows \cup {job.tx}
        /\ d.games = db.games /\ d.stats = db.stats /\ d.users = db.users
    BY <1>0, Upserts
  <2>. HIDE DEF d
  <2>3. /\ e.rows = d.rows
        /\ \A h \in Games \ {g} : e.games[h] = d.games[h] /\ e.stats[h] = d.stats[h]
    BY <1>0, <2>1, <2>2, FinishWrites
  <2>4. e.users = d.users /\ e.games[g].status = Paid
    BY <1>0, <2>1, <2>2, FinishOutcome
  <2>. QED  BY <1>10, <2>2, <2>3, <2>4 DEF Wrote
<1>11. CASE op \in {"find", "validate", "deadLetter"}
  <2>1. e = db
    BY <1>0, <1>11 DEF Effect
  <2>. QED  BY <1>11, <2>1 DEF Wrote
<1>. QED
  BY <1>0, <1>1, <1>2, <1>3, <1>4, <1>5, <1>6, <1>7, <1>8, <1>9, <1>10, <1>11 DEF Calls

\* What is logged stays logged while the chain and the event rows grow.
LEMMA StaysLogged ==
    ASSUME NEW g, NEW k, Logged(g, k), db.rows \subseteq db'.rows,
           DOMAIN chain \subseteq DOMAIN chain', \A i \in DOMAIN chain : chain'[i] = chain[i]
    PROVE  Logged(g, k)'
  BY DEF Logged, TxOf

\* The row of a running call's event is an event of its kind.
LEMMA RowIsLogged ==
    ASSUME TypeOK, Fetched, JobOK, job # NoJob, chain' = chain, job.tx \in db'.rows,
           NEW g, NEW k, g = job.event.game, k = job.event.kind
    PROVE  Logged(g, k)'
<1>1. batch \in SUBSET Nat /\ batch # {} /\ job.tx = P!Oldest(batch)
  BY DEF JobOK, Fetched
<1>2. job.tx \in 1 .. tip
  BY <1>1, OldestInBatch, Zenon DEF Fetched
<1>3. job.tx \in DOMAIN chain /\ chain[job.tx] = job.event
  BY <1>2 DEF TypeOK, JobOK
<1>4. \E i \in DOMAIN chain' : chain'[i].game = g /\ chain'[i].kind = k /\ i \in db'.rows
  BY <1>3
<1>. QED  BY <1>4 DEF Logged, TxOf

\* Whatever a call changes belongs to an event whose row is there by then.
LEMMA CallKeepsLogged ==
    ASSUME IInv, job # NoJob, job.plan # <<>>, db' = Effect, chain' = chain
    PROVE  EffectsLogged'
<1>. PICK k, g, op : k = job.event.kind /\ g = job.event.game /\ op = Op
  BY Zenon
<1>1. /\ db.rows \subseteq db'.rows
      /\ op \in {"upsert", "finish"} => job.tx \in db'.rows
      /\ OnlyOf(db', op, g)
  BY EffectShape DEF IInv, Inserts
<1>2. Len(job.plan) \in Nat /\ Len(job.plan) > 0 /\ op = job.plan[1]
  BY DEF IInv, TypeOK, Job, Op
<1>3. OpFits(op, k) /\ (op \in Changes => job.tx \in db.rows)
  BY <1>2 DEF IInv, JobOK, PlanFits
<1>4. op \in Changes \cup {"finish"} => Logged(g, k)'
  <2>1. CASE op \in Changes
    <3>1. job.tx \in db'.rows
      BY <1>1, <1>3, <2>1
    <3>. QED  BY <3>1, RowIsLogged DEF IInv
  <2>2. CASE op = "finish"
    <3>1. job.tx \in db'.rows
      BY <1>1, <2>2
    <3>. QED  BY <3>1, RowIsLogged DEF IInv
  <2>. QED  BY <2>1, <2>2
<1>5. ASSUME NEW h, NEW q, Logged(h, q) PROVE Logged(h, q)'
  BY <1>1, <1>5, StaysLogged, SMTT(30)
<1>6. ASSUME NEW h \in Games
      PROVE  LET ended == Logged(h, "GameFinished")' \/ Logged(h, "Draw")'
             IN  /\ db'.games[h].two => Logged(h, "GameStarted")'
                 /\ db'.games[h].revealed # {} => Logged(h, "SecretOpened")'
                 /\ db'.games[h].winner # Nobody => Logged(h, "GameFinished")'
                 /\ db'.games[h].status = Paid => ended \/ Logged(h, "GameCancelled")'
                 /\ \A p \in Players : db'.stats[h][p] # Zero => ended
  <2>. USE DEF IInv, EffectsLogged
  <2>1. ASSUME db'.games[h].two PROVE Logged(h, "GameStarted")'
    <3>1. db.games[h].two \/ (h = g /\ op = "join")
      BY <1>1, <2>1, Zenon DEF OnlyOf
    <3>2. CASE db.games[h].two
      BY <1>5, <3>2, Zenon
    <3>3. CASE h = g /\ op = "join"
      BY <1>3, <1>4, <3>3 DEF OpFits, Changes
    <3>. QED  BY <3>1, <3>2, <3>3
  <2>2. ASSUME db'.games[h].revealed # {} PROVE Logged(h, "SecretOpened")'
    <3>1. db.games[h].revealed # {} \/ (h = g /\ op = "reveal")
      BY <1>1, <2>2, Zenon DEF OnlyOf
    <3>2. CASE db.games[h].revealed # {}
      BY <1>5, <3>2, Zenon
    <3>3. CASE h = g /\ op = "reveal"
      BY <1>3, <1>4, <3>3 DEF OpFits, Changes
    <3>. QED  BY <3>1, <3>2, <3>3
  <2>3. ASSUME db'.games[h].winner # Nobody PROVE Logged(h, "GameFinished")'
    <3>1. db.games[h].winner # Nobody \/ (h = g /\ op = "finish")
      BY <1>1, <2>3, Zenon DEF OnlyOf
    <3>2. CASE db.games[h].winner # Nobody
      BY <1>5, <3>2, Zenon
    <3>3. CASE h = g /\ op = "finish"
      BY <1>3, <1>4, <3>3 DEF OpFits
    <3>. QED  BY <3>1, <3>2, <3>3
  <2>4. ASSUME db'.games[h].status = Paid
        PROVE  Logged(h, "GameFinished")' \/ Logged(h, "Draw")' \/ Logged(h, "GameCancelled")'
    <3>1. db.games[h].status = Paid \/ (h = g /\ op \in {"complete", "cancel", "finish"})
      BY <1>1, <2>4, Zenon DEF OnlyOf
    <3>2. CASE db.games[h].status = Paid
      BY <1>5, <3>2, Zenon
    <3>3. CASE h = g /\ op \in {"complete", "cancel", "finish"}
      BY <1>3, <1>4, <3>3 DEF OpFits, Changes
    <3>. QED  BY <3>1, <3>2, <3>3
  <2>5. ASSUME NEW p \in Players, db'.stats[h][p] # Zero
        PROVE  Logged(h, "GameFinished")' \/ Logged(h, "Draw")'
    <3>1. db.stats[h][p] # Zero \/ (h = g /\ op \in {"playedOne", "playedTwo", "finish"})
      BY <1>1, <2>5, Zenon DEF OnlyOf
    <3>2. CASE db.stats[h][p] # Zero
      BY <1>5, <3>2, Zenon
    <3>3. CASE h = g /\ op \in {"playedOne", "playedTwo", "finish"}
      BY <1>3, <1>4, <3>3 DEF OpFits, Changes
    <3>. QED  BY <3>1, <3>2, <3>3
  <2>. QED  BY <2>1, <2>2, <2>3, <2>4, <2>5
<1>. QED  BY <1>6, Zenon DEF EffectsLogged

\* While the games and counters stay and events are only added, what was derived
\* from an event keeps its row, and so does what the checkpoint passed.
LEMMA LogKept ==
    ASSUME IInv, db.rows \subseteq db'.rows, db'.games = db.games, db'.stats = db.stats,
           DOMAIN chain \subseteq DOMAIN chain', \A i \in DOMAIN chain : chain'[i] = chain[i]
    PROVE  EffectsLogged'
<1>1. ASSUME NEW h, NEW q, Logged(h, q) PROVE Logged(h, q)'
  BY <1>1, StaysLogged
<1>. QED  BY <1>1, Zenon DEF IInv, EffectsLogged

\* What the checkpoint passed stays recorded when no transaction is accepted.
LEMMA RecordedKept ==
    ASSUME IInv, db.rows \subseteq db'.rows, accepted' = accepted,
           \A i \in DOMAIN chain : chain'[i] = chain[i]
    PROVE  Recorded'
<1>1. accepted \subseteq DOMAIN chain
  BY DEF IInv, TypeOK, Fetched
<1>. QED  BY <1>1, Zenon DEF IInv, Recorded

\* A step inside the handler keeps the call in its place.
LEMMA JobStep ==
    ASSUME IInv, job # NoJob, UNCHANGED <<pollVars, chain>>,
           NEW plan \in Seq(Calls), NEW id \in BOOLEAN,
           NEW attempt \in 0 .. MaxRetries, NEW failed \in BOOLEAN,
           job' = [tx |-> job.tx, event |-> job.event, plan |-> plan, id |-> id,
                   attempt |-> attempt, failed |-> failed],
           PlanFits(plan, job.event.kind, job.tx, db'.rows)
    PROVE  job' \in Job /\ Fetched' /\ JobOK'
<1>1. job' \in Job /\ job'.tx = job.tx /\ job'.event = job.event /\ job'.plan = plan
  BY DEF IInv, TypeOK, Job
<1>2. Fetched'
  BY DEF IInv, Fetched, pollVars
<1>3. PlanFits(job'.plan, job'.event.kind, job'.tx, db'.rows)
  BY <1>1, SMTT(30)
<1>4. /\ phase' = "process" /\ batch' # {} /\ job'.tx = P!Oldest(batch')
      /\ job'.event = chain'[job'.tx]
  BY <1>1, Zenon DEF IInv, JobOK, pollVars
<1>. QED  BY <1>1, <1>2, <1>3, <1>4 DEF JobOK

\* The call that runs keeps its transaction and its event.
SameCall == job' # NoJob /\ job'.tx = job.tx /\ job'.event = job.event

\* What a successful call leaves of the job.
LEMMA SucceedsShape ==
    ASSUME TypeOK, CallSucceeds
    PROVE  /\ job # NoJob /\ job.plan # <<>> /\ SameCall /\ db' = Effect /\ lost' = lost
           /\ ~job'.failed
           /\ ~Inserts => job'.plan = Tail(job.plan) /\ job'.id = job.id
           /\ Inserts /\ Inserted => job'.plan = Tail(job.plan) /\ job'.id
           /\ Inserts /\ ~Inserted => job'.plan = <<>> /\ ~job'.id
<1>. USE DEF CallSucceeds
<1>0. job \in Job /\ job # NoJob /\ ~job.failed
  BY DEF TypeOK
<1>1. job.tx # 0 /\ NoJob.tx = 0
  BY <1>0 DEF Job, NoJob
<1>4. job # NoJob /\ job.plan # <<>> /\ db' = Effect /\ lost' = lost
  OBVIOUS
<1>2. CASE ~Inserts
  <2>1. job' = [tx |-> job.tx, event |-> job.event, plan |-> Tail(job.plan), id |-> job.id,
                attempt |-> job.attempt, failed |-> job.failed]
    BY <1>0, <1>2, Zenon DEF Job
  <2>. HIDE DEF CallSucceeds
  <2>2. job'.tx = job.tx /\ job'.event = job.event /\ job'.plan = Tail(job.plan)
    BY <2>1
  <2>3. job'.id = job.id /\ ~job'.failed
    BY <1>0, <2>1, Zenon
  <2>. QED  BY <1>1, <1>2, <1>4, <2>2, <2>3, Zenon DEF SameCall
<1>3. CASE Inserts
  <2>. DEFINE plan == IF Inserted THEN Tail(job.plan) ELSE <<>>
  <2>1. job' = [tx |-> job.tx, event |-> job.event, plan |-> plan, id |-> Inserted,
                attempt |-> job.attempt, failed |-> job.failed]
    BY <1>0, <1>3, Zenon DEF Job
  <2>. HIDE DEF CallSucceeds, plan
  <2>2. job'.tx = job.tx /\ job'.event = job.event /\ job'.plan = plan
    BY <2>1
  <2>3. job'.id = Inserted /\ ~job'.failed
    BY <1>0, <2>1, Zenon
  <2>4. job'.plan = IF Inserted THEN Tail(job.plan) ELSE <<>>
    BY <2>2 DEF plan
  <2>. QED  BY <1>1, <1>3, <1>4, <2>2, <2>3, <2>4, Zenon DEF SameCall
<1>. QED  BY <1>2, <1>3

\* What a failed call leaves of the job.
LEMMA FailsShape ==
    ASSUME TypeOK, CallImpossible \/ CallFails
    PROVE  /\ job # NoJob /\ job.plan # <<>> /\ SameCall /\ job'.failed
           /\ job'.plan = job.plan
           /\ job'.id = job.id \/ (Op = "finish" /\ job'.id = Inserted)
           /\ (db' = db /\ lost' = lost) \/ (db' = Effect /\ lost' = (lost \/ Op = "finish"))
<1>. USE DEF CallImpossible, CallFails
<1>0. job \in Job /\ job # NoJob
  BY DEF TypeOK
<1>1. job.tx # 0 /\ NoJob.tx = 0
  BY <1>0, SMTT(30) DEF Job, NoJob
<1>2. PICK id : /\ job' = [job EXCEPT !.failed = TRUE, !.id = id]
                /\ id = job.id \/ (Op = "finish" /\ id = Inserted)
  <2>1. CASE job' = [job EXCEPT !.failed = TRUE]
    <3>1. job' = [job EXCEPT !.failed = TRUE, !.id = job.id]
      BY <1>0, <2>1, ZenonT(40) DEF Job
    <3>. QED  BY <3>1, Zenon
  <2>2. CASE Op = "finish" /\ job' = [job EXCEPT !.failed = TRUE, !.id = Inserted]
    BY <2>2, Zenon
  <2>3. CASE job' = [job EXCEPT !.failed = TRUE, !.id = IF Op = "finish" THEN Inserted ELSE @]
    <3>1. PICK id : id = IF Op = "finish" THEN Inserted ELSE job.id
      OBVIOUS
    <3>2. job' = [job EXCEPT !.failed = TRUE, !.id = id]
      BY <2>3, <3>1
    <3>. QED  BY <3>1, <3>2, Zenon
  <2>. QED  BY <2>1, <2>2, <2>3, ZenonT(40)
<1>3. /\ job'.tx = job.tx /\ job'.event = job.event /\ job'.plan = job.plan
  BY <1>0, <1>2 DEF Job
<1>4. job'.failed /\ job'.id = id
  BY <1>0, <1>2, Zenon DEF Job
<1>5. (db' = db /\ lost' = lost) \/ (db' = Effect /\ lost' = (lost \/ Op = "finish"))
  BY Zenon
<1>. QED  BY <1>1, <1>2, <1>3, <1>4, <1>5, Zenon DEF SameCall

\* What a retry makes of the job.
LEMMA RetryShape ==
    ASSUME TypeOK, Retry
    PROVE  /\ job # NoJob /\ job.failed /\ SameCall /\ ~job'.failed
           /\ job'.plan = Plan[job.event.kind] /\ job'.id = job.id
           /\ db' = db /\ lost' = lost
<1>. USE DEF Retry
<1>0. job \in Job /\ job # NoJob /\ job.failed /\ db' = db /\ lost' = lost
  BY DEF TypeOK
<1>1. job.tx # 0 /\ NoJob.tx = 0
  BY <1>0 DEF Job, NoJob
<1>2. job' = [tx |-> job.tx, event |-> job.event, plan |-> Plan[job.event.kind], id |-> job.id,
              attempt |-> job.attempt + 1, failed |-> FALSE]
  BY <1>0, Zenon DEF Job
<1>3. job'.tx = job.tx /\ job'.event = job.event /\ job'.plan = Plan[job.event.kind]
  BY <1>2
<1>4. job'.id = job.id /\ ~job'.failed
  BY <1>2, Zenon
<1>. QED  BY <1>0, <1>1, <1>3, <1>4, Zenon DEF SameCall

\* A message that does not parse leaves the handler without calls.
LEMMA DeadLetterShape ==
    ASSUME TypeOK, DeadLetter
    PROVE  /\ job # NoJob /\ job.plan = <<"deadLetter">> /\ SameCall
           /\ job'.plan = <<>> /\ job'.id = job.id /\ job'.failed = job.failed
           /\ db' = db /\ lost' = lost
<1>. USE DEF DeadLetter
<1>0. job \in Job /\ job # NoJob /\ job.plan = <<"deadLetter">> /\ db' = db /\ lost' = lost
  BY DEF TypeOK
<1>1. job.tx # 0 /\ NoJob.tx = 0
  BY <1>0 DEF Job, NoJob
<1>2. job' = [tx |-> job.tx, event |-> job.event, plan |-> <<>>, id |-> job.id,
              attempt |-> job.attempt, failed |-> job.failed]
  BY <1>0 DEF Job
<1>3. job'.tx = job.tx /\ job'.event = job.event /\ job'.plan = <<>>
  BY <1>2
<1>4. job'.id = job.id /\ job'.failed = job.failed
  BY <1>2, Zenon
<1>. QED  BY <1>0, <1>1, <1>3, <1>4, Zenon DEF SameCall

\* HandleTransaction begins.
LEMMA HandleShape ==
    ASSUME TypeOK, Fetched, HandleNext
    PROVE  /\ phase = "process" /\ batch # {} /\ job'.tx = P!Oldest(batch)
           /\ job = NoJob /\ job' \in Job /\ job' # NoJob
           /\ job'.tx \in 1 .. tip /\ job'.event = chain[job'.tx]
           /\ job'.event.kind \in Kinds /\ job'.plan = Plan[job'.event.kind]
           /\ ~job'.id /\ ~job'.failed /\ db' = db /\ lost' = lost
           /\ UNCHANGED <<pollVars, chain>>
<1>. USE DEF HandleNext, HandleTransaction
<1>. DEFINE tx == P!Oldest(batch)
<1>1. tx \in 1 .. tip
  <2>1. batch \in SUBSET (1 .. tip) /\ batch \in SUBSET Nat /\ batch # {}
    BY DEF Fetched
  <2>. QED  BY <2>1, OldestInBatch, Zenon
<1>2. job' = [tx |-> tx, event |-> chain[tx], plan |-> Plan[chain[tx].kind], id |-> FALSE,
              attempt |-> 0, failed |-> FALSE]
  OBVIOUS
<1>8. /\ job = NoJob /\ db' = db /\ lost' = lost /\ UNCHANGED <<pollVars, chain>>
      /\ phase = "process" /\ batch # {}
  OBVIOUS
<1>. HIDE DEF tx, HandleNext, HandleTransaction
<1>3. chain[tx] \in Event
  BY <1>1 DEF TypeOK
<1>4. chain[tx].kind \in Kinds
  BY <1>3 DEF Event
<1>5. job'.tx = tx /\ job'.event = chain[tx] /\ job'.plan = Plan[chain[tx].kind]
  BY <1>2
<1>6. ~job'.id /\ ~job'.failed
  BY <1>2, Zenon
<1>7. tx \in Nat /\ tx # 0 /\ NoJob.tx = 0
  BY <1>1 DEF NoJob, Fetched
<1>9. Plan[chain[tx].kind] \in Seq(Calls)
  BY <1>4, WholePlanFits, Zenon
<1>10. job' \in Job
  BY <1>2, <1>3, <1>7, <1>9, PersistenceAssumption DEF Job
<1>. QED  BY <1>1, <1>4, <1>5, <1>6, <1>7, <1>8, <1>10 DEF tx

\* The state the program starts in.
LEMMA InitIInv == Init => IInv
<1>. SUFFICES ASSUME Init PROVE IInv
  OBVIOUS
<1>. USE DEF Init, PersistenceInit, P!Init
<1>1. EmptyDatabase \in Database
  <2>1. NoGame \in Game /\ Zero \in Counters
    BY DEF Game, Counters, NoGame, Zero, GameStatus, NotCreated, Nobody
  <2>. QED  BY <2>1, SMTT(30) DEF EmptyDatabase, Database
<1>2. TypeOK
  <2>1. db \in Database /\ job = NoJob /\ dlq \in SUBSET (1 .. MaxTx) /\ lost \in BOOLEAN
    BY <1>1, Zenon
  <2>2. faults \in 0 .. MaxFaults
    BY PersistenceAssumption
  <2>3. chain \in Seq(Event) /\ Len(chain) = tip
    OBVIOUS
  <2>. QED  BY <2>1, <2>2, <2>3 DEF TypeOK
<1>3. Fetched /\ JobOK /\ Recorded
  BY IngestionAssumption DEF Fetched, JobOK, Recorded
<1>4. EffectsLogged
  <2>1. \A g \in Games : db.games[g] = NoGame /\ \A p \in Players : db.stats[g][p] = Zero
    BY DEF EmptyDatabase
  <2>2. ~NoGame.two /\ NoGame.revealed = {} /\ NoGame.winner = Nobody /\ NoGame.status # Paid
    BY DEF NoGame, Paid, NotCreated
  <2>. QED  BY <2>1, <2>2, Zenon DEF EffectsLogged
<1>. QED  BY <1>2, <1>3, <1>4, SMTT(30) DEF IInv

\* The contract adds a transaction.
LEMMA EmitKeeps ==
    ASSUME IInv, NEW e \in Event, Emit(e)
    PROVE  IInv'
<1>. USE DEF Emit, P!NewTx, persistenceVars
<1>0. chain \in Seq(Event) /\ Len(chain) = tip /\ tip \in Nat /\ MaxTx \in Nat
  BY IngestionAssumption DEF IInv, TypeOK, Fetched
<1>1. /\ chain' \in Seq(Event) /\ Len(chain') = tip'
      /\ DOMAIN chain \subseteq DOMAIN chain' /\ \A i \in DOMAIN chain : chain'[i] = chain[i]
      /\ tip' \in 0 .. MaxTx
  BY <1>0
<1>2. TypeOK'
  BY <1>1 DEF IInv, TypeOK
<1>3. Fetched'
  BY <1>0, <1>1, SMTT(30) DEF IInv, Fetched
<1>4. JobOK'
  <2>. SUFFICES ASSUME job # NoJob PROVE JobOK'
    BY Zenon DEF JobOK
  <2>1. batch \in SUBSET Nat /\ batch # {} /\ job.tx = P!Oldest(batch) /\ batch \subseteq DOMAIN chain
    BY <1>0 DEF IInv, JobOK, Fetched
  <2>2. job.tx \in DOMAIN chain
    BY <2>1, OldestInBatch, Zenon
  <2>. QED  BY <1>1, <2>2, SMTT(30) DEF IInv, JobOK
<1>5. Recorded' /\ EffectsLogged'
  BY <1>1, RecordedKept, LogKept
<1>. QED  BY <1>2, <1>3, <1>4, <1>5 DEF IInv

\* A page of the API holds transactions of the contract.
LEMMA PagesAreFetched ==
    ASSUME IInv, NEW newest \in 0 .. tip
    PROVE  P!NewerThan(P!Page(newest), lt) \in SUBSET (1 .. tip)
  BY IngestionAssumption DEF IInv, Fetched, P!NewerThan, P!Page, P!Tx

\* The steps of the poller outside the handler.
LEMMA PollKeeps ==
    ASSUME IInv, Poll \/ PollFails
    PROVE  IInv'
<1>0. tip' = tip /\ accepted' = accepted /\ UNCHANGED <<persistenceVars, chain>>
  BY PollFrame, Zenon DEF persistenceVars
<1>. USE DEF Poll, PollFails, persistenceVars
<1>1. job = NoJob
  BY DEF IInv, JobOK, P!PollFetch, P!Backfill, P!Finish, P!BackfillFails, P!BackfillEmpty
<1>2. batch' \in SUBSET (1 .. tip) /\ (phase' = "backfill" => batch' # {})
  <2>1. CASE P!PollFetch
    <3>1. tip \in 0 .. tip
      BY DEF IInv, Fetched
    <3>. QED  BY <2>1, <3>1, PagesAreFetched DEF P!PollFetch
  <2>2. CASE P!Backfill
    <3>1. batch \in SUBSET Nat /\ batch # {} /\ batch \in SUBSET (1 .. tip) /\ tip \in Nat
      BY <2>2 DEF IInv, Fetched, P!Backfill
    <3>2. P!Oldest(batch) \in 1 .. tip
      BY <3>1, OldestInBatch, Zenon
    <3>3. P!Oldest(batch) - 1 \in 0 .. tip
      BY <3>1, <3>2
    <3>. QED  BY <2>2, <3>1, <3>3, PagesAreFetched, Zenon DEF P!Backfill
  <2>3. CASE P!Finish \/ P!BackfillFails \/ P!BackfillEmpty
    BY <2>3, ZenonT(40) DEF IInv, Fetched, P!Finish, P!BackfillFails, P!BackfillEmpty
  <2>. QED  BY <2>1, <2>2, <2>3
<1>3. TypeOK' /\ Fetched' /\ JobOK'
  BY <1>0, <1>1, <1>2 DEF IInv, TypeOK, Fetched, JobOK
<1>4. Recorded' /\ EffectsLogged'
  BY <1>0, RecordedKept, LogKept
<1>. QED  BY <1>3, <1>4, SMTT(30) DEF IInv

\* HandleTransaction starts with the whole handler before it.
LEMMA HandleNextKeeps ==
    ASSUME IInv, HandleNext
    PROVE  IInv'
<1>1. /\ phase = "process" /\ batch # {} /\ job'.tx = P!Oldest(batch)
      /\ job' \in Job /\ job'.event.kind \in Kinds /\ job'.plan = Plan[job'.event.kind]
      /\ job'.event = chain[job'.tx] /\ job'.tx \in 1 .. tip
      /\ db' = db /\ lost' = lost /\ UNCHANGED <<pollVars, chain>>
  BY HandleShape DEF IInv
<1>2. dlq' = dlq /\ faults' = faults
  BY DEF HandleNext, HandleTransaction
<1>3. PlanFits(job'.plan, job'.event.kind, job'.tx, db'.rows)
  BY <1>1, WholePlanFits, Zenon
<1>4. TypeOK' /\ Fetched'
  BY <1>1, <1>2 DEF IInv, TypeOK, Fetched, pollVars
<1>5. JobOK'
  BY <1>1, <1>3 DEF JobOK, pollVars
<1>6. Recorded' /\ EffectsLogged'
  BY <1>1, RecordedKept, LogKept DEF IInv, pollVars
<1>. QED  BY <1>4, <1>5, <1>6 DEF IInv

\* What is common to the steps inside the handler.
LEMMA StepKeeps ==
    ASSUME IInv, UNCHANGED <<pollVars, chain>>, db' \in Database, db.rows \subseteq db'.rows,
           job' \in Job, Fetched', JobOK', EffectsLogged',
           dlq' \in SUBSET (1 .. MaxTx), faults' \in 0 .. MaxFaults, lost' \in BOOLEAN
    PROVE  IInv'
<1>1. TypeOK'
  BY DEF IInv, TypeOK, pollVars
<1>2. Recorded'
  BY RecordedKept DEF pollVars
<1>. QED  BY <1>1, <1>2 DEF IInv

\* A database call succeeds.
LEMMA CallSucceedsKeeps ==
    ASSUME IInv, CallSucceeds, UNCHANGED <<pollVars, chain>>
    PROVE  IInv'
<1>. USE DEF CallSucceeds
<1>0. job \in Job /\ job.plan \in Seq(Calls) /\ job.id \in BOOLEAN /\ Inserted \in BOOLEAN
  BY DEF IInv, TypeOK, Job, Inserted
<1>1. /\ db' \in Database /\ db.rows \subseteq db'.rows
      /\ Inserts => job.tx \in db'.rows
  BY EffectShape DEF IInv
<1>2. EffectsLogged'
  BY CallKeepsLogged
<1>3. PlanFits(job.plan, job.event.kind, job.tx, db.rows)
  BY DEF IInv, JobOK
<1>4. Head(job.plan) \in {"upsert", "finish"} => job.tx \in db'.rows
  BY <1>1 DEF Inserts, Op
<1>5. Tail(job.plan) \in Seq(Calls) /\ PlanFits(Tail(job.plan), job.event.kind, job.tx, db'.rows)
  BY <1>0, <1>1, <1>3, <1>4, PlanTailFits
<1>6. Inserts => PlanFits(<<>>, job.event.kind, job.tx, db'.rows)
  BY <1>1 DEF PlanFits
<1>7. PICK plan \in Seq(Calls), id \in BOOLEAN :
         /\ job' = [tx |-> job.tx, event |-> job.event, plan |-> plan, id |-> id,
                    attempt |-> job.attempt, failed |-> job.failed]
         /\ PlanFits(plan, job.event.kind, job.tx, db'.rows)
  <2>1. CASE ~Inserts
    <3>1. job' = [tx |-> job.tx, event |-> job.event, plan |-> Tail(job.plan), id |-> job.id,
                  attempt |-> job.attempt, failed |-> job.failed]
      BY <1>0, <2>1, Zenon DEF Job
    <3>. QED  BY <1>0, <1>5, <3>1, Zenon
  <2>2. CASE Inserts /\ Inserted
    <3>1. job' = [tx |-> job.tx, event |-> job.event, plan |-> Tail(job.plan), id |-> Inserted,
                  attempt |-> job.attempt, failed |-> job.failed]
      BY <1>0, <2>2, Zenon DEF Job
    <3>. QED  BY <1>0, <1>5, <3>1, Zenon
  <2>3. CASE Inserts /\ ~Inserted
    <3>1. job' = [tx |-> job.tx, event |-> job.event, plan |-> <<>>, id |-> Inserted,
                  attempt |-> job.attempt, failed |-> job.failed]
      BY <1>0, <2>3, Zenon DEF Job
    <3>2. <<>> \in Seq(Calls)
      OBVIOUS
    <3>. QED  BY <1>0, <1>6, <2>3, <3>1, <3>2, Zenon
  <2>. QED  BY <2>1, <2>2, <2>3, Zenon
<1>8. job.attempt \in 0 .. MaxRetries /\ job.failed \in BOOLEAN
  BY <1>0 DEF Job
<1>9. job' \in Job /\ Fetched' /\ JobOK'
  BY <1>7, <1>8, JobStep, SMTT(30)
<1>. QED  BY <1>1, <1>2, <1>9, StepKeeps DEF IInv, TypeOK

\* A call fails, before or after it took effect.
LEMMA CallFailsKeeps ==
    ASSUME IInv, CallImpossible \/ CallFails, UNCHANGED <<pollVars, chain>>
    PROVE  IInv'
<1>. USE DEF CallImpossible, CallFails
<1>0. job \in Job /\ job.plan \in Seq(Calls) /\ job.id \in BOOLEAN /\ Inserted \in BOOLEAN
  BY DEF IInv, TypeOK, Job, Inserted
<1>1. db' \in Database /\ db.rows \subseteq db'.rows /\ EffectsLogged'
  <2>1. CASE db' = db
    BY <2>1, LogKept DEF IInv, TypeOK
  <2>2. CASE db' = Effect
    <3>1. EffectsLogged'
      BY <2>2, CallKeepsLogged
    <3>. QED  BY <2>2, <3>1, EffectShape DEF IInv
  <2>. QED  BY <2>1, <2>2
<1>2. PICK id \in BOOLEAN :
         job' = [tx |-> job.tx, event |-> job.event, plan |-> job.plan, id |-> id,
                 attempt |-> job.attempt, failed |-> TRUE]
  <2>1. CASE job' = [job EXCEPT !.failed = TRUE]
    <3>1. job' = [tx |-> job.tx, event |-> job.event, plan |-> job.plan, id |-> job.id,
                  attempt |-> job.attempt, failed |-> TRUE]
      BY <1>0, <2>1, Zenon DEF Job
    <3>. QED  BY <1>0, <3>1, Zenon
  <2>2. CASE job' = [job EXCEPT !.failed = TRUE, !.id = Inserted]
    <3>1. job' = [tx |-> job.tx, event |-> job.event, plan |-> job.plan, id |-> Inserted,
                  attempt |-> job.attempt, failed |-> TRUE]
      BY <1>0, <2>2, Zenon DEF Job
    <3>. QED  BY <1>0, <3>1, Zenon
  <2>3. CASE job' = [job EXCEPT !.failed = TRUE, !.id = IF Op = "finish" THEN Inserted ELSE @]
    <3>1. PICK id : id = IF Op = "finish" THEN Inserted ELSE job.id
      OBVIOUS
    <3>2. id \in BOOLEAN
      BY <1>0, <3>1
    <3>3. job' = [tx |-> job.tx, event |-> job.event, plan |-> job.plan, id |-> id,
                  attempt |-> job.attempt, failed |-> TRUE]
      BY <1>0, <2>3, <3>1, Zenon DEF Job
    <3>. QED  BY <3>2, <3>3, Zenon
  <2>. QED  BY <2>1, <2>2, <2>3
<1>3. PlanFits(job.plan, job.event.kind, job.tx, db'.rows)
  BY <1>1 DEF IInv, JobOK, PlanFits
<1>4. job.attempt \in 0 .. MaxRetries /\ TRUE \in BOOLEAN
  BY <1>0 DEF Job
<1>5. job' \in Job /\ Fetched' /\ JobOK'
  BY <1>0, <1>2, <1>3, <1>4, JobStep, Zenon
<1>6. faults' \in 0 .. MaxFaults /\ dlq' \in SUBSET (1 .. MaxTx)
  BY PersistenceAssumption DEF IInv, TypeOK
<1>7. lost' \in BOOLEAN
  BY Zenon DEF IInv, TypeOK
<1>. QED  BY <1>1, <1>5, <1>6, <1>7, StepKeeps

\* routeEventWithRetry starts the handler again.
LEMMA RetryKeeps ==
    ASSUME IInv, Retry, UNCHANGED <<pollVars, chain>>
    PROVE  IInv'
<1>. USE DEF Retry
<1>0. job \in Job /\ job.event \in Event /\ job.event.kind \in Kinds /\ job.id \in BOOLEAN
  BY DEF IInv, TypeOK, Job, Event
<1>1. PICK plan : plan = Plan[job.event.kind]
  OBVIOUS
<1>2. plan \in Seq(Calls) /\ PlanFits(plan, job.event.kind, job.tx, db'.rows)
  BY <1>0, <1>1, WholePlanFits
<1>3. job.attempt + 1 \in 0 .. MaxRetries /\ FALSE \in BOOLEAN
  BY <1>0, PersistenceAssumption DEF Job
<1>4. job' = [tx |-> job.tx, event |-> job.event, plan |-> plan, id |-> job.id,
              attempt |-> job.attempt + 1, failed |-> FALSE]
  BY <1>0, <1>1, Zenon DEF Job
<1>5. job' \in Job /\ Fetched' /\ JobOK'
  BY <1>0, <1>2, <1>3, <1>4, JobStep, Zenon
<1>6. EffectsLogged'
  BY LogKept
<1>. QED  BY <1>5, <1>6, StepKeeps DEF IInv, TypeOK

\* The dead letter queue takes transactions of the contract.
LEMMA Stores ==
    ASSUME IInv, job # NoJob, StoreFailedTransaction(job.tx)
    PROVE  dlq' \in SUBSET (1 .. MaxTx) /\ faults' \in 0 .. MaxFaults
<1>1. batch \in SUBSET Nat /\ batch # {} /\ job.tx = P!Oldest(batch)
  BY DEF IInv, JobOK, Fetched
<1>2. tip \in 0 .. MaxTx /\ MaxTx \in Nat
  BY IngestionAssumption DEF IInv, Fetched
<1>3. PICK tx \in 1 .. tip : tx = job.tx
  BY <1>1, OldestInBatch, Zenon DEF IInv, Fetched
<1>4. tx \in 1 .. MaxTx
  BY <1>2
<1>5. dlq \in SUBSET (1 .. MaxTx) /\ faults \in 0 .. MaxFaults
  BY DEF IInv, TypeOK
<1>6. StoreFailedTransaction(tx)
  BY <1>3
<1>7. CASE dlq' = dlq \cup {tx} /\ faults' = faults
  BY <1>4, <1>5, <1>7
<1>8. CASE faults < MaxFaults /\ faults' = faults + 1 /\ dlq' = dlq
  BY <1>5, <1>8, PersistenceAssumption
<1>. QED  BY <1>6, <1>7, <1>8 DEF StoreFailedTransaction

\* A message that does not parse is no event of a game.
LEMMA DeadLetterKeeps ==
    ASSUME IInv, DeadLetter, UNCHANGED <<pollVars, chain>>
    PROVE  IInv'
<1>. USE DEF DeadLetter
<1>0. job \in Job /\ job.id \in BOOLEAN
  BY DEF IInv, TypeOK, Job
<1>1. PICK plan : plan = <<>>
  OBVIOUS
<1>2. Len(job.plan) = 1 /\ job.plan[1] = "deadLetter"
  OBVIOUS
<1>3. plan \in Seq(Calls) /\ PlanFits(plan, job.event.kind, job.tx, db'.rows)
  <2>1. job.event.kind \in Stored => job.tx \in db.rows
    BY <1>2 DEF IInv, JobOK, PlanFits
  <2>2. plan \in Seq(Calls) /\ Len(plan) = 0
    BY <1>1
  <2>. QED  BY <2>1, <2>2 DEF PlanFits
<1>4. job.attempt \in 0 .. MaxRetries /\ job.failed \in BOOLEAN
  BY <1>0 DEF Job
<1>5. job' = [tx |-> job.tx, event |-> job.event, plan |-> plan, id |-> job.id,
              attempt |-> job.attempt, failed |-> job.failed]
  BY <1>0, <1>1 DEF Job
<1>6. job' \in Job /\ Fetched' /\ JobOK'
  BY <1>0, <1>3, <1>4, <1>5, JobStep, ZenonT(40)
<1>7. EffectsLogged'
  BY LogKept
<1>. QED  BY <1>6, <1>7, Stores, StepKeeps DEF IInv, TypeOK

\* The checkpoint passes a transaction when its handler has run to its end.
LEMMA HandledKeeps ==
    ASSUME IInv, Handled
    PROVE  IInv'
<1>. USE DEF Handled, ReturnNil, P!Accept
<1>1. batch \in SUBSET (1 .. tip) /\ batch \in SUBSET Nat /\ batch # {} /\ job.tx = P!Oldest(batch)
  BY DEF IInv, JobOK, Fetched
<1>2. job.tx \in batch
  BY <1>1, OldestInBatch, SMTT(30)
<1>3. chain[job.tx].kind \in Stored => job.tx \in db.rows
  <2>1. Len(job.plan) = 0
    OBVIOUS
  <2>. QED  BY <2>1 DEF IInv, JobOK, PlanFits
<1>4. accepted' = accepted \cup {job.tx} /\ db' = db /\ chain' = chain
  BY <1>1
<1>5. Recorded'
  BY <1>3, <1>4, ZenonT(40) DEF IInv, Recorded
<1>6. TypeOK' /\ Fetched' /\ JobOK'
  BY <1>1, <1>2, Zenon DEF IInv, TypeOK, Fetched, JobOK
<1>7. EffectsLogged'
  BY LogKept, Zenon
<1>. QED  BY <1>5, <1>6, <1>7 DEF IInv

\* A rejected transaction stays before the checkpoint.
LEMMA NotHandledKeeps ==
    ASSUME IInv, NotHandled
    PROVE  IInv'
<1>. USE DEF NotHandled, ReturnError, P!Reject
<1>1. TypeOK' /\ Fetched' /\ JobOK'
  BY Stores, ZenonT(40) DEF IInv, TypeOK, Fetched, JobOK
<1>2. Recorded' /\ EffectsLogged'
  BY RecordedKept, LogKept
<1>. QED  BY <1>1, <1>2, SMTT(30) DEF IInv

\* A crash in the middle of a handler loses the call, never a row.
LEMMA RestartKeeps ==
    ASSUME IInv, Restart
    PROVE  IInv'
<1>. USE DEF Restart, P!Restart
<1>1. TypeOK' /\ Fetched' /\ JobOK'
  BY DEF IInv, TypeOK, Fetched, JobOK
<1>2. Recorded' /\ EffectsLogged'
  BY RecordedKept, LogKept
<1>. QED  BY <1>1, <1>2, SMTT(30) DEF IInv

\* IInv is inductive.
LEMMA NextIInv == IInv /\ [Next]_vars => IInv'
<1>. SUFFICES ASSUME IInv, [Next]_vars PROVE IInv'
  OBVIOUS
<1>1. ASSUME NEW e \in Event, Emit(e) PROVE IInv'
  BY <1>1, EmitKeeps
<1>2. CASE Poll \/ PollFails
  BY <1>2, PollKeeps
<1>3. CASE HandleNext
  BY <1>3, HandleNextKeeps
<1>4. CASE Handle
  BY <1>4, CallSucceedsKeeps, CallFailsKeeps, RetryKeeps, DeadLetterKeeps DEF Handle
<1>5. CASE Fault
  BY <1>5, CallFailsKeeps DEF Fault
<1>6. CASE Handled \/ NotHandled
  BY <1>6, HandledKeeps, NotHandledKeeps
<1>7. CASE Restart
  BY <1>7, RestartKeeps
<1>8. CASE UNCHANGED vars
  <2>. USE <1>8 DEF vars, persistenceVars, pollVars
  <2>1. TypeOK' /\ Fetched' /\ JobOK'
    BY SMTT(30) DEF IInv, TypeOK, Fetched, JobOK
  <2>2. Recorded' /\ EffectsLogged'
    BY RecordedKept, LogKept, Zenon
  <2>. QED  BY <2>1, <2>2, SMTT(30) DEF IInv
<1>. QED  BY <1>1, <1>2, <1>3, <1>4, <1>5, <1>6, <1>7, <1>8 DEF Next, Program

\* Every reachable state satisfies the inductive invariant.
THEOREM Invariance == Spec => []IInv
<1>. QED  BY InitIInv, NextIInv, PTL DEF Spec

\* The variables of HandleTransaction and of the tables keep their types.
THEOREM TypeCorrect == Spec => []TypeOK
<1>1. IInv => TypeOK
  BY DEF IInv
<1>. QED  BY <1>1, Invariance, PTL

\* What the checkpoint of the poller has passed is in game_events, whatever
\* HandleTransaction met on the way.
THEOREM RecordedHolds == Spec => []Recorded
<1>1. IInv => Recorded
  BY DEF IInv
<1>. QED  BY <1>1, Invariance, PTL

\* Games and counters hold nothing whose event row is missing: every handler
\* inserts its event before it writes, and a crash in between loses the write.
THEOREM EffectsLoggedHolds == Spec => []EffectsLogged
<1>1. IInv => EffectsLogged
  BY DEF IInv
<1>. QED  BY <1>1, Invariance, PTL

\* Everything the pipeline does to the poller's variables is a step of the poller.
LEMMA StepIsPollers == [Next]_vars => [P!Next]_(P!pollerVars)
<1>. SUFFICES ASSUME [Next]_vars PROVE P!Next \/ UNCHANGED pollVars
  BY DEF P!pollerVars, pollVars
<1>1. CASE \E e \in Event : Emit(e)
  BY <1>1 DEF Emit, P!Next
<1>2. CASE Poll \/ PollFails
  BY <1>2 DEF Poll, PollFails, P!Next
<1>3. CASE HandleNext \/ Handle \/ Fault
  BY <1>3 DEF HandleNext, Handle, Fault
<1>4. CASE Handled \/ NotHandled
  BY <1>4 DEF Handled, NotHandled, P!Next
<1>5. CASE Restart
  BY <1>5 DEF Restart, P!Next
<1>6. CASE UNCHANGED vars
  BY <1>6 DEF vars
<1>. QED  BY <1>1, <1>2, <1>3, <1>4, <1>5, <1>6 DEF Next, Program

\* The pipeline implements the poller with its checkpoint: HandleTransaction is
\* what the poller leaves open.
THEOREM ImplementsPoller == Spec => P!Spec
<1>1. Init => P!Init
  BY DEF Init
<1>. QED  BY <1>1, StepIsPollers, PTL DEF Spec, P!Spec

\* So no transaction is left out behind the checkpoint of the pipeline, whatever
\* its handlers do.
THEOREM PipelineHasNoGap == Spec => []P!NoGap
<1>. QED  BY ImplementsPoller, NoGapHolds, PTL
=============================================================================
