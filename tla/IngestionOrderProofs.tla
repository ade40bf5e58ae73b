----------------------- MODULE IngestionOrderProofs -------------------------
(***************************************************************************)
(* The pipeline keeps the order of the chain: proofs of StatusAdvances and *)
(* FinishedOnce for every number of games, transactions, retries, faults   *)
(* and restarts.                                                           *)
(***************************************************************************)
EXTENDS IngestionProofs

(***************************************************************************)
(* What StatusAdvances and FinishedOnce rest on.  Until something is       *)
(* skipped the poller keeps the order of the chain: an event that is not   *)
(* stored although a later transaction is (it was left behind the very     *)
(* first page) is out of the poller's reach for good.  So a handler that   *)
(* finds its row new knows that nothing later is stored.                   *)
(***************************************************************************)
\* The transactions whose row is stored or which the checkpoint passed.
Seen == db.rows \cup accepted

\* The event of the transaction, if it has one, has its row.
Done(i) == chain[i].kind \in Stored => i \in db.rows

\* No later page, backfill or restart brings this transaction up again.
OutOfReach(i) ==
    /\ i <= tip - PageSize /\ i \notin batch
    /\ lt # 0 => i <= lt
    /\ saved # 0 => i <= saved

\* Before a transaction that was handled there is none still to come.
InOrder == \A j \in Seen : \A i \in 1 .. tip : i < j => Done(i) \/ OutOfReach(i)

\* Before there is a checkpoint the batch is the newest page.
FirstPage ==
    /\ phase = "backfill" => lt # 0
    /\ lt = 0 /\ phase = "process" /\ batch # {} =>
          \A i \in 1 .. tip : (\A b \in batch : i < b) => i <= tip - PageSize

\* A batch reaches as far as anything that was handled.
Newest == \A j \in Seen : batch # {} => \E b \in batch : j <= b

\* What the handler found new is the latest row.
NewIsLast == job # NoJob /\ job.id => \A j \in db.rows : j <= job.tx

\* The flag event.ID # 0 in the form PlanFits takes.
Id(b) == IF b THEN {"id"} ELSE {}

\* The handler changes a game only for an event it found new.
Earned ==
    job # NoJob /\ job.plan # <<>> =>
        PlanFits(job.plan, job.event.kind, "id", Id(job.id))

\* The events that end a game.
Ends == {"GameFinished", "Draw", "GameCancelled"}

\* Two transactions of one game.
Same(i, j) == chain[i].game = chain[j].game

\* The contract: a game is initialized once and first, ends once, and nobody joins
\* it after that.
ChainOK ==
    \A i, j \in 1 .. tip : Same(i, j) =>
        /\ chain[i].kind = "GameStarted" /\ chain[j].kind \in Ends => i < j
        /\ chain[i].kind \in Ends /\ chain[j].kind \in Ends => i = j
        /\ chain[i].kind = "GameInitialized" /\ chain[j].kind \in Ends \cup {"GameStarted"} => i < j
        /\ chain[i].kind = "GameInitialized" /\ chain[j].kind = "GameInitialized" => i = j

\* Only an initialized game is joined or ended.
Opened ==
    \A j \in 1 .. tip : chain[j].kind \in Ends \cup {"GameStarted"} =>
        \E i \in 1 .. tip : Same(i, j) /\ chain[i].kind = "GameInitialized"

\* HandleGameFinished, started again after a rollback, has no row yet although
\* event.ID is set.
FinishPlan ==
    job # NoJob /\ job.event.kind = "GameFinished" =>
        /\ job.plan \in {<<"find", "finish">>, <<"finish">>, <<>>}
        /\ ~lost /\ job.id /\ (job.plan # <<>> \/ job.failed) => job.tx \notin db.rows

\* HandleGameInitialized has stored player one before it creates the game.
OpenPlan ==
    job # NoJob /\ job.event.kind = "GameInitialized" =>
        /\ job.plan \in {<<"ensureOne", "create", "upsert">>, <<"create", "upsert">>, <<"upsert">>, <<>>}
        /\ job.plan \in {<<"create", "upsert">>, <<"upsert">>} => "one" \in db.users[job.event.game]

\* A game whose GameInitialized row is stored has a users row for player one.
Hosted ==
    \A i \in 1 .. tip : chain[i].kind = "GameInitialized" /\ i \in db.rows =>
        "one" \in db.users[chain[i].game]

\* Every stored GameFinished has its result.
ResultsOK ==
    ~skipped /\ ~lost => \A i \in 1 .. tip :
        chain[i].kind = "GameFinished" /\ i \in db.rows => Outcome(db, chain[i].game, chain[i].who)

\* The statuses the handlers write.
StatusOK ==
    \A g \in Games : db.games[g].status \in {NotCreated, WaitingForOpponent, WaitingForOpenBids, Paid}

\* What the order needs of the poller.
LEMMA PollerTypes ==
    ASSUME GInv
    PROVE  /\ tip \in Nat /\ lt \in Nat /\ saved \in Nat /\ PageSize \in Nat \ {0}
           /\ tip <= MaxTx /\ lt <= MaxTx
           /\ batch \in SUBSET Nat /\ batch \in SUBSET P!Tx /\ P!Tx = 1 .. MaxTx
           /\ accepted \in SUBSET Nat
           /\ \A i \in batch : i > lt
           /\ \A i, j \in batch : \A k \in P!Tx : i <= k /\ k <= j => k \in batch
           /\ ~skipped /\ phase = "process" /\ lt # 0 /\ batch # {} => lt + 1 \in batch
           /\ lt # 0 => lt \in accepted
           /\ ~skipped => saved <= lt
  BY IngestionAssumption
  DEF GInv, CInv, P!TypeOK, BatchOK, Adjacent, P!CheckpointHandled, P!Tx

\* The oldest transaction of a batch is in it and none is older.
LEMMA OldestIsLeast ==
    ASSUME GInv, batch # {}
    PROVE  P!Oldest(batch) \in batch /\ \A j \in batch : P!Oldest(batch) <= j
  BY PollerTypes, OldestInBatch

\* The order facts of a state.
Ordered == InOrder /\ FirstPage /\ Newest

\* The poller's own steps.
LEMMA PollOrder ==
    ASSUME GInv, IInv, Seen \subseteq 1 .. tip, Ordered, Poll \/ P!BackfillFails,
           UNCHANGED <<persistenceVars, chain>>
    PROVE  Ordered'
<1>0. db' = db /\ chain' = chain /\ tip' = tip /\ accepted' = accepted
  BY DEF persistenceVars, Poll, P!PollFetch, P!Backfill, P!Finish, P!BackfillFails
<1>1. CASE P!PollFetch
  <2>1. /\ lt' = lt /\ saved' = saved
        /\ batch' = {i \in 1 .. MaxTx : tip - PageSize < i /\ i <= tip /\ i > lt}
        /\ phase' \in {"idle", "backfill", "process"}
        /\ phase' = "backfill" => lt # 0
    BY <1>1, Zenon DEF P!PollFetch, P!NewerThan, P!Page, P!Tx, P!After, P!Gap
  <2>2. InOrder'
    BY <1>0, <2>1, PollerTypes DEF InOrder, Seen, Done, OutOfReach, Ordered
  <2>3. FirstPage'
    <3>1. ASSUME NEW i \in 1 .. tip, \A b \in batch' : i < b, lt = 0
          PROVE  i <= tip - PageSize
      <4>1. i \notin batch'
        BY <3>1
      <4>2. tip \in Nat /\ PageSize \in Nat /\ tip <= MaxTx /\ MaxTx \in Nat
        BY PollerTypes, IngestionAssumption, Zenon
      <4>. QED  BY <2>1, <3>1, <4>1, <4>2
    <3>. QED  BY <1>0, <2>1, <3>1, Zenon DEF FirstPage
  <2>4. Newest'
    <3>1. batch' # {} => tip \in batch'
      BY <2>1, PollerTypes
    <3>. QED  BY <1>0, <3>1, PollerTypes DEF Newest, Seen
  <2>. QED  BY <2>2, <2>3, <2>4, Zenon DEF Ordered
<1>2. CASE P!Backfill
  <2>1. /\ lt' = lt /\ saved' = saved /\ lt # 0 /\ batch \subseteq batch' /\ batch # {}
        /\ \A i \in batch' : i \in batch \/ i > lt
        /\ phase' \in {"backfill", "process"}
    BY <1>2, Zenon DEF P!Backfill, P!NewerThan, P!After, Ordered, FirstPage, IInv, Fetched
  <2>2. InOrder'
    BY <1>0, <2>1, PollerTypes DEF InOrder, Seen, Done, OutOfReach, Ordered
  <2>3. FirstPage' /\ Newest'
    BY <1>0, <2>1, Zenon DEF FirstPage, Newest, Seen, Ordered
  <2>. QED  BY <2>2, <2>3, Zenon DEF Ordered
<1>3. CASE P!BackfillFails
  <2>1. lt' = lt /\ saved' = saved /\ batch' = {} /\ phase' = "idle"
    BY <1>3, Zenon DEF P!BackfillFails
  <2>2. InOrder'
    BY <1>0, <2>1, Zenon DEF InOrder, Seen, Done, OutOfReach, Ordered
  <2>. QED  BY <1>0, <2>1, <2>2, Zenon DEF Ordered, FirstPage, Newest
<1>4. CASE P!Finish
  <2>1. lt' = lt /\ saved' \in {saved, lt} /\ batch = {} /\ batch' = {} /\ phase' = "idle"
    BY <1>4, Zenon DEF P!Finish, P!Persist
  <2>2. InOrder'
    BY <1>0, <2>1, PollerTypes, ZenonT(40) DEF InOrder, Seen, Done, OutOfReach, Ordered
  <2>. QED  BY <1>0, <2>1, <2>2, Zenon DEF Ordered, FirstPage, Newest
<1>. QED  BY <1>1, <1>2, <1>3, <1>4, Zenon DEF Poll

\* A restart that finds its checkpoint.
LEMMA RestartOrder ==
    ASSUME GInv, Ordered, Restart, ~skipped'
    PROVE  Ordered'
<1>1. /\ db' = db /\ chain' = chain /\ tip' = tip /\ accepted' = accepted
      /\ saved' \in {saved, lt} /\ lt' = saved' /\ batch' = {} /\ phase' = "idle"
  BY Zenon DEF Restart, P!Restart, P!Persist
<1>2. InOrder'
  BY <1>1, PollerTypes DEF InOrder, Seen, Done, OutOfReach, Ordered
<1>. QED  BY <1>1, <1>2, Zenon DEF Ordered, FirstPage, Newest

\* A new transaction is later than everything.
LEMMA EmitOrder ==
    ASSUME GInv, IInv, Seen \subseteq 1 .. tip, Ordered, NEW e \in Event, Emit(e)
    PROVE  Ordered'
<1>1. /\ db' = db /\ accepted' = accepted /\ batch' = batch /\ lt' = lt /\ saved' = saved
      /\ phase' = phase /\ tip' = tip + 1
      /\ \A i \in 1 .. tip : chain'[i] = chain[i]
  BY DEF Emit, persistenceVars, P!NewTx, IInv, TypeOK
<1>2. InOrder'
  BY <1>1, PollerTypes DEF InOrder, Seen, Done, OutOfReach, Ordered
<1>3. FirstPage'
  <2>1. ASSUME lt' = 0, phase' = "process", batch' # {}, NEW i \in 1 .. tip',
               \A b \in batch' : i < b
        PROVE  i <= tip' - PageSize
    <3>0. tip \in Nat /\ PageSize \in Nat /\ batch \in SUBSET (1 .. tip)
      BY PollerTypes, Zenon DEF IInv, Fetched
    <3>1. PICK b \in batch' : i < b
      BY <2>1, Zenon
    <3>2. i \in 1 .. tip
      BY <1>1, <3>0, <3>1
    <3>3. i <= tip - PageSize
      BY <1>1, <2>1, <3>2, Zenon DEF Ordered, FirstPage
    <3>. QED  BY <1>1, <3>0, <3>2, <3>3
  <2>2. phase' = "backfill" => lt' # 0
    BY <1>1 DEF Ordered, FirstPage
  <2>. QED  BY <2>1, <2>2, Zenon DEF FirstPage
<1>. QED  BY <1>1, <1>2, <1>3, Zenon DEF Ordered, Newest, Seen

\* A transaction before the one at hand that is not stored is out of reach.
LEMMA OlderOutOfReach ==
    ASSUME GInv, IInv, ~skipped, Ordered, phase = "process", batch # {},
           NEW i \in 1 .. tip, i < P!Oldest(batch), ~Done(i)
    PROVE  OutOfReach(i)
<1>. DEFINE t == P!Oldest(batch)
<1>1. t \in batch /\ \A j \in batch : t <= j
  BY OldestIsLeast, Zenon
<1>2. i \in Nat /\ t \in Nat /\ i < t
  BY <1>1, PollerTypes
<1>. HIDE DEF t
<1>3. \A b \in batch : i < b
  BY <1>1, <1>2, PollerTypes
<1>4. CASE lt = 0
  <2>1. i <= tip - PageSize
    BY <1>3, <1>4, Zenon DEF Ordered, FirstPage
  <2>2. saved = 0
    BY <1>4, PollerTypes
  <2>. QED  BY <1>2, <1>3, <1>4, <2>1, <2>2 DEF OutOfReach
<1>5. CASE lt # 0
  <2>1. lt + 1 \in batch /\ lt \in accepted /\ lt \in Nat
    BY <1>5, PollerTypes, Zenon
  <2>2. i <= lt
    BY <1>2, <1>3, <2>1
  <2>3. Done(lt)
    BY <2>1, Zenon DEF IInv, Recorded, Done
  <2>4. i < lt
    BY <1>2, <2>1, <2>2, <2>3
  <2>. QED  BY <2>1, <2>4, Zenon DEF Ordered, InOrder, Seen
<1>. QED  BY <1>4, <1>5, Zenon

\* A row inserted by the handler of the oldest transaction.
LEMMA InsertOrder ==
    ASSUME GInv, IInv, ~skipped, Ordered, phase = "process", batch # {},
           UNCHANGED <<pollVars, chain>>,
           db.rows \subseteq db'.rows, db'.rows \subseteq db.rows \cup {P!Oldest(batch)}
    PROVE  Ordered'
<1>1. /\ UNCHANGED <<tip, lt, saved, phase, batch, accepted, chain>>
  BY DEF pollVars
<1>2. P!Oldest(batch) \in batch
  BY OldestIsLeast, Zenon
<1>3. InOrder'
  <2>. SUFFICES ASSUME NEW j \in Seen', NEW i \in 1 .. tip, i < j, ~Done(i)'
                PROVE  OutOfReach(i)
    BY <1>1, Zenon DEF InOrder, OutOfReach
  <2>1. ~Done(i)
    BY <1>1, Zenon DEF Done
  <2>2. CASE j \in Seen
    BY <2>1, <2>2, Zenon DEF Ordered, InOrder
  <2>3. CASE j = P!Oldest(batch)
    BY <2>1, <2>3, OlderOutOfReach, Zenon
  <2>. QED  BY <1>1, <2>2, <2>3, Zenon DEF Seen
<1>4. Newest'
  <2>1. P!Oldest(batch) \in Nat
    BY <1>2, PollerTypes, Zenon
  <2>. QED  BY <1>1, <1>2, <2>1 DEF Ordered, Newest, Seen
<1>. QED  BY <1>1, <1>3, <1>4, Zenon DEF Ordered, FirstPage

\* The checkpoint passes the oldest transaction.
LEMMA AcceptOrder ==
    ASSUME GInv, IInv, ~skipped, Ordered, Handled
    PROVE  Ordered'
<1>. DEFINE t == P!Oldest(batch)
<1>0. /\ Seen \subseteq Nat /\ batch \in SUBSET (1 .. MaxTx) /\ batch \in SUBSET Nat
      /\ P!Tx = 1 .. MaxTx /\ tip \in Nat /\ tip <= MaxTx /\ MaxTx \in Nat
  BY PollerTypes, IngestionAssumption, Zenon DEF Seen, IInv, TypeOK, Database
<1>1. t \in batch /\ (\A j \in batch : t <= j) /\ phase = "process" /\ batch # {}
  BY OldestIsLeast, Zenon DEF Handled, P!Accept
<1>2. /\ lt' = t /\ batch' = batch \ {t} /\ accepted' = accepted \cup {t}
      /\ UNCHANGED <<tip, saved, phase, db, chain>>
  BY <1>1, PollerTypes, Zenon DEF Handled, ReturnNil, P!Accept
<1>3. t \in 1 .. tip /\ t > lt
  BY <1>1, PollerTypes, Zenon DEF IInv, Fetched
<1>4. ASSUME NEW i \in 1 .. tip, i < t, ~Done(i)
      PROVE  OutOfReach(i)
  BY <1>1, <1>4, OlderOutOfReach, Zenon
<1>. HIDE DEF t
<1>5. ASSUME NEW j \in Seen, NEW i \in 1 .. tip, i < j, ~Done(i)
      PROVE  OutOfReach(i) /\ i <= t
  <2>1. OutOfReach(i)
    BY <1>5, Zenon DEF Ordered, InOrder
  <2>2. PICK b \in batch : j <= b
    BY <1>1, Zenon DEF Ordered, Newest
  <2>3. i \in P!Tx /\ i <= b
    BY <1>0, <1>5, <2>2
  <2>4. ~(t <= i)
    BY <1>1, <2>1, <2>2, <2>3, PollerTypes, Zenon DEF OutOfReach
  <2>. QED  BY <1>3, <2>1, <2>4
<1>6. InOrder'
  <2>. SUFFICES ASSUME NEW j \in Seen', NEW i \in 1 .. tip, i < j, ~Done(i)
                PROVE  OutOfReach(i)'
    BY <1>2, Zenon DEF InOrder, Done
  <2>1. OutOfReach(i) /\ i <= t
    BY <1>2, <1>3, <1>4, <1>5 DEF Seen
  <2>. QED  BY <1>2, <2>1, Zenon DEF OutOfReach
<1>7. FirstPage'
  BY <1>2, <1>3 DEF Ordered, FirstPage
<1>8. Newest'
  <2>. SUFFICES ASSUME NEW j \in Seen', batch' # {} PROVE \E b \in batch' : j <= b
    BY DEF Newest
  <2>1. PICK c \in batch' : TRUE
    BY Zenon
  <2>2. t < c
    BY <1>0, <1>1, <1>2, <2>1
  <2>3. CASE j = t
    BY <1>0, <1>1, <1>2, <2>1, <2>2, <2>3, Zenon
  <2>4. CASE j \in Seen
    <3>1. PICK b \in batch : j <= b
      BY <1>1, <2>4, Zenon DEF Ordered, Newest
    <3>2. CASE b = t
      BY <1>0, <1>1, <1>2, <2>1, <2>2, <2>4, <3>1, <3>2
    <3>3. CASE b # t
      BY <1>2, <3>1, <3>3, Zenon
    <3>. QED  BY <3>2, <3>3, Zenon
  <2>. QED  BY <1>2, <2>3, <2>4, Zenon DEF Seen
<1>. QED  BY <1>6, <1>7, <1>8, Zenon DEF Ordered

\* A rejected batch is dropped.
LEMMA RejectOrder ==
    ASSUME Ordered, NotHandled
    PROVE  Ordered'
<1>1. batch' = {} /\ UNCHANGED <<tip, lt, saved, phase, accepted, db, chain>>
  BY DEF NotHandled, ReturnError, P!Reject
<1>2. InOrder'
  BY <1>1 DEF Ordered, InOrder, Seen, Done, OutOfReach
<1>. QED  BY <1>1, <1>2, Zenon DEF Ordered, FirstPage, Newest

\* The contract has emitted an event of this kind for the game.
Past(k, g) == \E i \in 1 .. tip : chain[i].game = g /\ chain[i].kind = k

\* Legal speaks of what is on the chain.
LEMMA PastHappened ==
    ASSUME TypeOK, tip \in Nat, NEW k, NEW g
    PROVE  Past(k, g) <=> \E p \in Players : <<k, p>> \in Happened(g)
<1>1. DOMAIN chain = 1 .. tip /\ \A i \in 1 .. tip : chain[i] \in Event
  BY DEF TypeOK
<1>2. \A i \in 1 .. tip : chain[i].who \in Players
  BY <1>1, Zenon DEF Event
<1>3. ASSUME Past(k, g) PROVE \E p \in Players : <<k, p>> \in Happened(g)
  <2>1. PICK i \in 1 .. tip : chain[i].game = g /\ chain[i].kind = k
    BY <1>3, Zenon DEF Past
  <2>2. <<k, chain[i].who>> \in Happened(g)
    BY <1>1, <2>1, Zenon DEF Happened
  <2>. QED  BY <1>2, <2>2, Zenon
<1>4. ASSUME NEW p \in Players, <<k, p>> \in Happened(g) PROVE Past(k, g)
  BY <1>1, <1>4, Zenon DEF Past, Happened
<1>. QED  BY <1>3, <1>4, Zenon

\* What the contract checks before it emits an event.
LEMMA LegalEvent ==
    ASSUME TypeOK, tip \in Nat, NEW e \in Event, Legal(e)
    PROVE  /\ e.kind = "GameInitialized" => ~Past("GameInitialized", e.game)
           /\ e.kind = "GameStarted" => Past("GameInitialized", e.game)
           /\ e.kind \in Ends =>
                 Past("GameInitialized", e.game) \/ Past("GameStarted", e.game)
           /\ e.kind \in Ends \cup {"GameStarted"} => \A k \in Ends : ~Past(k, e.game)
<1>. DEFINE past(k) == \E p \in Players : <<k, p>> \in Happened(e.game)
<1>1. \A k : past(k) <=> Past(k, e.game)
  BY PastHappened, Zenon
<1>2. /\ e.kind = "GameInitialized" => ~past("GameInitialized")
      /\ e.kind = "GameStarted" => past("GameInitialized")
      /\ e.kind \in Ends => past("GameInitialized") \/ past("GameStarted")
      /\ e.kind \in Ends \cup {"GameStarted"} =>
            ~past("GameFinished") /\ ~past("Draw") /\ ~past("GameCancelled")
  BY Zenon DEF Legal, Ends
<1>. HIDE DEF past
<1>. QED  BY <1>1, <1>2, Zenon DEF Ends

\* The contract's order survives every event it emits.
LEMMA EmitChain ==
    ASSUME IInv, ChainOK, Opened, NEW e \in Event, Emit(e)
    PROVE  ChainOK' /\ Opened'
<1>1. /\ tip \in Nat /\ tip' = tip + 1 /\ chain'[tip + 1] = e
      /\ \A i \in 1 .. tip : chain'[i] = chain[i]
  <2>1. tip \in Nat /\ chain \in Seq(Event) /\ Len(chain) = tip /\ tip' = tip + 1 /\ chain' = Append(chain, e)
    BY DEF IInv, Fetched, TypeOK, Emit, P!NewTx
  <2>. QED  BY <2>1
<1>2. /\ e.kind = "GameInitialized" => ~Past("GameInitialized", e.game)
      /\ e.kind = "GameStarted" => Past("GameInitialized", e.game)
      /\ e.kind \in Ends =>
            Past("GameInitialized", e.game) \/ Past("GameStarted", e.game)
      /\ e.kind \in Ends \cup {"GameStarted"} => \A k \in Ends : ~Past(k, e.game)
  BY <1>1, LegalEvent, Zenon DEF IInv, Emit
<1>3. \A i \in 1 .. tip' : i = tip + 1 \/ i \in 1 .. tip
  BY <1>1
<1>4. Opened'
  <2>1. ASSUME NEW j \in 1 .. tip, chain[j].kind \in Ends \cup {"GameStarted"}
        PROVE  \E i \in 1 .. tip' : chain'[i].game = chain'[j].game /\ chain'[i].kind = "GameInitialized"
    <3>1. PICK i \in 1 .. tip : Same(i, j) /\ chain[i].kind = "GameInitialized"
      BY <2>1, Zenon DEF Opened
    <3>2. i \in 1 .. tip'
      BY <1>1
    <3>. QED  BY <1>1, <3>1, <3>2, Zenon DEF Same
  <2>2. ASSUME e.kind \in Ends \cup {"GameStarted"}
        PROVE  \E i \in 1 .. tip' : chain'[i].game = e.game /\ chain'[i].kind = "GameInitialized"
    <3>1. Past("GameInitialized", e.game)
      <4>1. CASE Past("GameStarted", e.game)
        <5>1. PICK j \in 1 .. tip : chain[j].game = e.game /\ chain[j].kind = "GameStarted"
          BY <4>1, Zenon DEF Past
        <5>2. \E i \in 1 .. tip : Same(i, j) /\ chain[i].kind = "GameInitialized"
          BY <5>1, Zenon DEF Opened
        <5>. QED  BY <5>1, <5>2, Zenon DEF Past, Same
      <4>. QED  BY <1>2, <2>2, <4>1, Zenon
    <3>2. PICK i \in 1 .. tip : chain[i].game = e.game /\ chain[i].kind = "GameInitialized"
      BY <3>1, Zenon DEF Past
    <3>3. i \in 1 .. tip'
      BY <1>1
    <3>. QED  BY <1>1, <3>2, <3>3, Zenon
  <2>. QED  BY <1>1, <1>3, <2>1, <2>2, ZenonT(40) DEF Opened, Same
<1>5. ChainOK'
  <2>. SUFFICES ASSUME NEW i \in 1 .. tip', NEW j \in 1 .. tip', chain'[i].game = chain'[j].game
                PROVE  /\ chain'[i].kind = "GameStarted" /\ chain'[j].kind \in Ends => i < j
                       /\ chain'[i].kind \in Ends /\ chain'[j].kind \in Ends => i = j
                       /\ chain'[i].kind = "GameInitialized" /\ chain'[j].kind \in Ends \cup {"GameStarted"}
                             => i < j
                       /\ chain'[i].kind = "GameInitialized" /\ chain'[j].kind = "GameInitialized" => i = j
    BY Zenon DEF ChainOK, Same
  <2>1. CASE i \in 1 .. tip /\ j \in 1 .. tip
    BY <1>1, <2>1, Zenon DEF ChainOK, Same
  <2>2. CASE i = tip + 1 /\ j \in 1 .. tip
    <3>1. chain'[i] = e /\ chain'[j] = chain[j] /\ chain[j].game = e.game
      BY <1>1, <2>2, Zenon
    <3>2. Past(chain[j].kind, e.game)
      BY <2>2, <3>1, Zenon DEF Past
    <3>3. chain[j].kind \in Ends \cup {"GameStarted"} => Past("GameInitialized", e.game)
      BY <2>2, <3>1, Zenon DEF Opened, Same, Past
    <3>. QED  BY <1>2, <3>1, <3>2, <3>3, Zenon DEF Ends
  <2>3. CASE i \in 1 .. tip /\ j = tip + 1
    <3>1. chain'[j] = e /\ chain'[i] = chain[i] /\ chain[i].game = e.game /\ i < j
      BY <1>1, <2>3
    <3>2. Past(chain[i].kind, e.game)
      BY <2>3, <3>1, Zenon DEF Past
    <3>. QED  BY <1>2, <3>1, <3>2, Zenon DEF Ends
  <2>4. CASE i = tip + 1 /\ j = tip + 1
    BY <1>1, <2>4, Zenon DEF Ends
  <2>. QED  BY <1>3, <2>1, <2>2, <2>3, <2>4, Zenon
<1>. QED  BY <1>4, <1>5, Zenon

\* What is known of the call that comes next.
LEMMA CallFacts ==
    ASSUME IInv, job # NoJob, job.plan # <<>>
    PROVE  /\ Op = job.plan[1] /\ Op \in Calls /\ OpFits(Op, job.event.kind)
           /\ Len(job.plan) \in Nat /\ Len(job.plan) > 0 /\ job.plan \in Seq(Calls)
           /\ Wrote(Effect, Op, job.event.game)
           /\ db.rows \subseteq Effect.rows /\ (Inserts => job.tx \in Effect.rows)
           /\ job.event \in Event /\ job.event.kind \in Kinds /\ job.event.game \in Games
<1>1. job \in Job /\ TypeOK
  BY DEF IInv, TypeOK
<1>2. job.plan \in Seq(Calls) /\ job.event \in Event
  BY <1>1, Zenon DEF Job
<1>3. /\ Op = job.plan[1] /\ Op \in Calls /\ Len(job.plan) \in Nat /\ Len(job.plan) > 0
  BY <1>2 DEF Op
<1>4. OpFits(Op, job.event.kind)
  BY <1>3 DEF IInv, JobOK, PlanFits
<1>5. Wrote(Effect, Op, job.event.game)
  BY <1>1, EffectWrote, Zenon
<1>6. db.rows \subseteq Effect.rows /\ (Inserts => job.tx \in Effect.rows)
  BY <1>1, EffectShape, Zenon
<1>7. job.event.kind \in Kinds /\ job.event.game \in Games
  BY <1>2 DEF Event
<1>. QED  BY <1>2, <1>3, <1>4, <1>5, <1>6, <1>7, Zenon

\* A plan that fits keeps fitting when the id is set.
LEMMA IdHelps ==
    ASSUME NEW plan, NEW k, NEW a, NEW b, PlanFits(plan, k, "id", Id(a)), a => b
    PROVE  PlanFits(plan, k, "id", Id(b))
<1>1. Id(a) \subseteq Id(b)
  BY DEF Id
<1>2. "id" \in Id(a) => "id" \in Id(b)
  BY <1>1, Zenon
<1>. HIDE DEF Id
<1>. QED  BY <1>2, Zenon DEF PlanFits

\* The handler changes a game only for an event it found new: kept by every step
\* of the handler.
LEMMA EarnedStep ==
    ASSUME IInv, Earned, UNCHANGED <<pollVars, chain>>,
           CallSucceeds \/ CallImpossible \/ CallFails \/ Retry \/ DeadLetter
    PROVE  Earned'
<1>0. TypeOK
  BY Zenon DEF IInv
<1>. SUFFICES ASSUME job' # NoJob, job'.plan # <<>>
              PROVE  PlanFits(job'.plan, job'.event.kind, "id", Id(job'.id))
  BY Zenon DEF Earned
<1>1. CASE CallSucceeds
  <2>1. /\ job # NoJob /\ job.plan # <<>> /\ SameCall
        /\ job'.plan = Tail(job.plan)
        /\ ~Inserts => job'.id = job.id
        /\ Inserts => job'.id
    BY <1>0, <1>1, SucceedsShape, Zenon
  <2>2. job.plan \in Seq(Calls)
    BY <2>1, CallFacts, Zenon
  <2>3. PlanFits(job.plan, job.event.kind, "id", Id(job.id))
    BY <2>1, Zenon DEF Earned
  <2>4. Id(job.id) \subseteq Id(job'.id) /\ (Inserts => "id" \in Id(job'.id))
    BY <2>1, Zenon DEF Id
  <2>5. Head(job.plan) \in {"upsert", "finish"} => "id" \in Id(job'.id)
    BY <2>4, Zenon DEF Inserts, Op
  <2>6. PlanFits(Tail(job.plan), job.event.kind, "id", Id(job'.id))
    BY <2>1, <2>2, <2>3, <2>4, <2>5, PlanTailFits, Zenon
  <2>. QED  BY <2>1, <2>6, Zenon DEF SameCall
<1>2. CASE CallImpossible \/ CallFails
  <2>1. /\ job # NoJob /\ job.plan # <<>> /\ SameCall /\ job'.plan = job.plan
        /\ job'.id = job.id \/ job'.id = Inserted
    BY <1>0, <1>2, FailsShape, Zenon
  <2>2. PlanFits(job.plan, job.event.kind, "id", Id(job.id))
    BY <2>1, Zenon DEF Earned
  <2>3. job.id => job'.id
    BY <2>1, Zenon DEF Inserted
  <2>4. PlanFits(job.plan, job.event.kind, "id", Id(job'.id))
    BY <2>2, <2>3, IdHelps
  <2>. QED  BY <2>1, <2>4, Zenon DEF SameCall
<1>3. CASE Retry
  <2>1. job # NoJob /\ SameCall /\ job'.plan = Plan[job.event.kind]
    BY <1>0, <1>3, RetryShape, Zenon
  <2>2. job.event.kind \in Kinds
    BY <1>0, <2>1, Zenon DEF TypeOK, Job, Event
  <2>. QED  BY <2>1, <2>2, WholePlanFits, Zenon DEF SameCall
<1>4. CASE DeadLetter
  BY <1>0, <1>4, DeadLetterShape, Zenon
<1>. QED  BY <1>1, <1>2, <1>3, <1>4, Zenon

\* A handler that finds its row new has found the latest row.
LEMMA NewRowIsLast ==
    ASSUME GInv, IInv, Seen \subseteq 1 .. tip, Ordered, job # NoJob,
           job.event.kind \in Stored, job.tx \notin db.rows
    PROVE  \A j \in db.rows : j <= job.tx
<1>1. job.tx = P!Oldest(batch) /\ batch # {} /\ chain[job.tx] = job.event
  BY Zenon DEF IInv, JobOK
<1>2. job.tx \in batch
  BY <1>1, OldestIsLeast, Zenon
<1>3. job.tx \in 1 .. tip /\ tip \in Nat
  BY <1>2, PollerTypes, Zenon DEF IInv, Fetched
<1>4. ~Done(job.tx) /\ ~OutOfReach(job.tx)
  BY <1>1, <1>2, Zenon DEF Done, OutOfReach
<1>. SUFFICES ASSUME NEW j \in db.rows PROVE j <= job.tx
  BY Zenon
<1>5. ~(job.tx < j)
  BY <1>3, <1>4, Zenon DEF Ordered, InOrder, Seen
<1>6. j \in 1 .. tip
  BY Zenon DEF Seen
<1>. QED  BY <1>3, <1>5, <1>6

\* What the handler found new is the latest row: kept by every step of the handler.
LEMMA NewIsLastStep ==
    ASSUME GInv, IInv, Seen \subseteq 1 .. tip, Ordered, NewIsLast,
           UNCHANGED <<pollVars, chain>>,
           CallSucceeds \/ CallImpossible \/ CallFails \/ Retry \/ DeadLetter
    PROVE  NewIsLast'
<1>0. TypeOK
  BY Zenon DEF IInv
<1>. SUFFICES ASSUME job'.id, NEW j \in db'.rows PROVE j <= job'.tx
  BY DEF NewIsLast
<1>1. job # NoJob /\ SameCall
  BY <1>0, SucceedsShape, FailsShape, RetryShape, DeadLetterShape, ZenonT(40)
<1>2. db'.rows \subseteq db.rows \cup {job.tx}
  <2>1. db' = db \/ (job.plan # <<>> /\ db' = Effect)
    BY <1>0, SucceedsShape, FailsShape, RetryShape, DeadLetterShape, Zenon
  <2>. QED  BY <1>1, <2>1, CallFacts DEF Wrote
<1>3. job.id \/ (job.plan # <<>> /\ Inserts /\ Inserted)
  <2>1. CASE CallSucceeds
    BY <1>0, <2>1, SucceedsShape, Zenon
  <2>2. CASE CallImpossible \/ CallFails
    BY <1>0, <2>2, FailsShape, Zenon DEF Inserts
  <2>3. CASE Retry
    BY <1>0, <2>3, RetryShape, Zenon
  <2>4. CASE DeadLetter
    BY <1>0, <2>4, DeadLetterShape, Zenon
  <2>. QED  BY <2>1, <2>2, <2>3, <2>4, Zenon
<1>4. \A r \in db.rows : r <= job.tx
  <2>1. CASE job.id
    BY <1>1, <2>1, Zenon DEF NewIsLast
  <2>2. CASE ~job.id
    <3>1. job.tx \notin db.rows /\ Op \in {"upsert", "finish"} /\ job.plan # <<>>
      BY <1>3, <2>2, Zenon DEF Inserted, Inserts
    <3>2. job.event.kind \in Stored
      BY <1>1, <3>1, CallFacts, Zenon DEF OpFits, Stored, Kinds, Plan
    <3>. QED  BY <1>1, <3>1, <3>2, NewRowIsLast, Zenon
  <2>. QED  BY <2>1, <2>2, Zenon
<1>5. job.tx \in Nat
  BY <1>0, <1>1, Zenon DEF TypeOK, Job
<1>. QED  BY <1>1, <1>2, <1>4, <1>5 DEF SameCall

\* The plans of HandleGameFinished and HandleGameInitialized, call by call.
LEMMA ShortPlans ==
    /\ Plan["GameFinished"] = <<"find", "finish">>
    /\ Head(<<"find", "finish">>) = "find" /\ Tail(<<"find", "finish">>) = <<"finish">>
    /\ Head(<<"finish">>) = "finish" /\ Tail(<<"finish">>) = <<>>
    /\ Plan["GameInitialized"] = <<"ensureOne", "create", "upsert">>
    /\ Head(<<"ensureOne", "create", "upsert">>) = "ensureOne"
    /\ Tail(<<"ensureOne", "create", "upsert">>) = <<"create", "upsert">>
    /\ Head(<<"create", "upsert">>) = "create" /\ Tail(<<"create", "upsert">>) = <<"upsert">>
    /\ Head(<<"upsert">>) = "upsert" /\ Tail(<<"upsert">>) = <<>>
<1>1. Plan["GameFinished"] = <<"find", "finish">>
  BY Zenon DEF Plan, FinishedCalls
<1>2. Plan["GameInitialized"] = <<"ensureOne", "create", "upsert">>
  BY DEF Plan, InitializedCalls
<1>3. Head(<<"find", "finish">>) = "find" /\ Tail(<<"find", "finish">>) = <<"finish">>
  OBVIOUS
<1>4. Head(<<"finish">>) = "finish" /\ Tail(<<"finish">>) = <<>>
  OBVIOUS
<1>5. /\ Head(<<"ensureOne", "create", "upsert">>) = "ensureOne"
      /\ Tail(<<"ensureOne", "create", "upsert">>) = <<"create", "upsert">>
  OBVIOUS
<1>6. Head(<<"create", "upsert">>) = "create" /\ Tail(<<"create", "upsert">>) = <<"upsert">>
  OBVIOUS
<1>7. Head(<<"upsert">>) = "upsert" /\ Tail(<<"upsert">>) = <<>>
  OBVIOUS
<1>. QED  BY <1>1, <1>2, <1>3, <1>4, <1>5, <1>6, <1>7, Zenon

\* HandleGameFinished has one insert, at its end: once it is made, the handler is
\* through, unless the reply of the commit is lost.
LEMMA FinishPlanStep ==
    ASSUME IInv, FinishPlan,
           CallSucceeds \/ CallImpossible \/ CallFails \/ Retry \/ DeadLetter
    PROVE  FinishPlan'
<1>0. TypeOK
  BY Zenon DEF IInv
<1>1. job # NoJob /\ SameCall
  BY <1>0, SucceedsShape, FailsShape, RetryShape, DeadLetterShape, Zenon
<1>. SUFFICES ASSUME job.event.kind = "GameFinished"
              PROVE  /\ job'.plan \in {<<"find", "finish">>, <<"finish">>, <<>>}
                     /\ ~lost' /\ job'.id /\ (job'.plan # <<>> \/ job'.failed) => job.tx \notin db'.rows
  BY <1>1, Zenon DEF FinishPlan, SameCall
<1>2. /\ job.plan \in {<<"find", "finish">>, <<"finish">>, <<>>}
      /\ ~lost /\ job.id /\ (job.plan # <<>> \/ job.failed) => job.tx \notin db.rows
  BY <1>1, Zenon DEF FinishPlan
<1>3. job.plan # <<>> => /\ Op \in {"find", "finish"}
                         /\ Op = "find" => job.plan = <<"find", "finish">>
                         /\ Op = "finish" => job.plan = <<"finish">>
  BY <1>2, ShortPlans, Zenon DEF Op
<1>4. job.plan # <<>> /\ Op = "find" => Effect.rows = db.rows
  BY <1>1, CallFacts, Zenon DEF Wrote
<1>5. CASE CallSucceeds
  <2>1. /\ job.plan # <<>> /\ db' = Effect /\ lost' = lost /\ ~job'.failed
        /\ ~Inserts => job'.plan = Tail(job.plan) /\ job'.id = job.id
        /\ Inserts /\ Inserted => job'.plan = Tail(job.plan) /\ job'.id
        /\ Inserts /\ ~Inserted => job'.plan = <<>> /\ ~job'.id
    BY <1>0, <1>5, SucceedsShape, Zenon
  <2>2. CASE Op = "find"
    <3>1. job'.plan = <<"finish">> /\ job'.id = job.id /\ db'.rows = db.rows
      BY <1>3, <1>4, <2>1, <2>2, ShortPlans, Zenon DEF Inserts
    <3>. QED  BY <1>2, <2>1, <3>1, Zenon
  <2>3. CASE Op = "finish"
    <3>1. job'.plan = <<>>
      BY <1>3, <2>1, <2>3, ShortPlans, Zenon DEF Inserts
    <3>. QED  BY <2>1, <3>1, Zenon
  <2>. QED  BY <1>3, <2>1, <2>2, <2>3, Zenon
<1>6. CASE CallImpossible \/ CallFails
  <2>1. /\ job.plan # <<>> /\ job'.failed /\ job'.plan = job.plan
        /\ job'.id = job.id \/ (Op = "finish" /\ job'.id = Inserted)
        /\ (db' = db /\ lost' = lost) \/ (db' = Effect /\ lost' = (lost \/ Op = "finish"))
    BY <1>0, <1>6, FailsShape, Zenon
  <2>. SUFFICES ASSUME ~lost', job'.id PROVE job.tx \notin db'.rows
    BY <1>2, <2>1, Zenon
  <2>2. ~lost /\ db'.rows = db.rows
    <3>1. CASE db' = db /\ lost' = lost
      BY <3>1, Zenon
    <3>2. CASE db' = Effect /\ lost' = (lost \/ Op = "finish")
      <4>1. ~lost /\ Op # "finish"
        BY <3>2, Zenon
      <4>. QED  BY <1>3, <1>4, <2>1, <3>2, <4>1, Zenon
    <3>. QED  BY <2>1, <3>1, <3>2, Zenon
  <2>3. CASE job.id
    BY <1>2, <2>1, <2>2, <2>3, Zenon
  <2>4. CASE ~job.id
    BY <2>1, <2>2, <2>4, Zenon DEF Inserted
  <2>. QED  BY <2>3, <2>4, Zenon
<1>7. CASE Retry
  <2>1. /\ job.failed /\ job'.plan = Plan["GameFinished"] /\ job'.id = job.id
        /\ db' = db /\ lost' = lost
    BY <1>0, <1>7, RetryShape, Zenon
  <2>2. job'.plan = <<"find", "finish">>
    BY <2>1, ShortPlans, Zenon
  <2>. QED  BY <1>2, <2>1, <2>2, Zenon
<1>8. CASE DeadLetter
  <2>1. job.plan = <<"deadLetter">>
    BY <1>0, <1>8, DeadLetterShape, Zenon
  <2>2. job.plan # <<>> /\ Op = "deadLetter"
    BY <2>1 DEF Op
  <2>. QED  BY <1>3, <2>2, Zenon
<1>. QED  BY <1>5, <1>6, <1>7, <1>8, Zenon

\* HandleGameInitialized has stored player one before it inserts its event.
LEMMA OpenPlanStep ==
    ASSUME IInv, OpenPlan,
           CallSucceeds \/ CallImpossible \/ CallFails \/ Retry \/ DeadLetter
    PROVE  OpenPlan'
<1>0. TypeOK
  BY DEF IInv
<1>1. job # NoJob /\ SameCall
  BY <1>0, SucceedsShape, FailsShape, RetryShape, DeadLetterShape
<1>. DEFINE g == job.event.game
            Plans == {<<"ensureOne", "create", "upsert">>, <<"create", "upsert">>, <<"upsert">>, <<>>}
            Later == {<<"create", "upsert">>, <<"upsert">>}
<1>. SUFFICES ASSUME job.event.kind = "GameInitialized"
              PROVE  job'.plan \in Plans /\ (job'.plan \in Later => "one" \in db'.users[g])
  BY <1>1, Zenon DEF OpenPlan, SameCall
<1>2. job.plan \in Plans /\ (job.plan \in Later => "one" \in db.users[g])
  BY <1>1, Zenon DEF OpenPlan
<1>3. job.plan # <<>> =>
         /\ Op \in {"ensureOne", "create", "upsert"}
         /\ Op = "ensureOne" => Tail(job.plan) = <<"create", "upsert">> /\ job.plan \notin Later
         /\ Op = "create" => Tail(job.plan) = <<"upsert">> /\ job.plan \in Later
         /\ Op = "upsert" => Tail(job.plan) = <<>> /\ job.plan \in Later
  BY <1>2, ShortPlans, ZenonT(40) DEF Op
<1>4. job.plan # <<>> => /\ db.users[g] \subseteq Effect.users[g]
                         /\ Op = "ensureOne" => "one" \in Effect.users[g]
  BY <1>1, CallFacts, Zenon DEF Wrote
<1>5. CASE CallSucceeds
  <2>1. /\ job.plan # <<>> /\ db' = Effect
        /\ ~Inserts => job'.plan = Tail(job.plan)
        /\ Inserts => job'.plan \in {Tail(job.plan), <<>>}
    BY <1>0, <1>5, SucceedsShape, Zenon
  <2>2. CASE Op = "ensureOne"
    BY <1>3, <1>4, <2>1, <2>2, Zenon DEF Inserts
  <2>3. CASE Op = "create"
    BY <1>2, <1>3, <1>4, <2>1, <2>3, Zenon DEF Inserts
  <2>4. CASE Op = "upsert"
    BY <1>3, <2>1, <2>4 DEF Inserts
  <2>. QED  BY <1>3, <2>1, <2>2, <2>3, <2>4, Zenon
<1>6. CASE CallImpossible \/ CallFails
  <2>1. job.plan # <<>> /\ job'.plan = job.plan /\ (db' = db \/ db' = Effect)
    BY <1>0, <1>6, FailsShape, Zenon
  <2>. QED  BY <1>2, <1>4, <2>1, Zenon
<1>7. CASE Retry
  <2>1. job'.plan = Plan["GameInitialized"]
    BY <1>0, <1>7, RetryShape, Zenon
  <2>2. job'.plan = <<"ensureOne", "create", "upsert">>
    BY <2>1, ShortPlans, Zenon
  <2>. QED  BY <2>2
<1>8. CASE DeadLetter
  <2>1. job.plan = <<"deadLetter">>
    BY <1>0, <1>8, DeadLetterShape, Zenon
  <2>2. job.plan # <<>> /\ Op = "deadLetter"
    BY <2>1 DEF Op
  <2>. QED  BY <1>3, <2>2, Zenon
<1>. QED  BY <1>5, <1>6, <1>7, <1>8, Zenon

(***************************************************************************)
(* The invariant of the whole pipeline: the poller's, the order of events, *)
(* the contract's, and where the handlers stand.                           *)
(***************************************************************************)
\* The inductive invariant of the pipeline.
HInv ==
    /\ GInv /\ IInv /\ Seen \subseteq 1 .. tip
    /\ ~skipped => Ordered /\ NewIsLast
    /\ ChainOK /\ Opened
    /\ Earned /\ FinishPlan /\ OpenPlan /\ Hosted /\ StatusOK

\* The transaction at hand is on the chain.
LEMMA JobOnChain ==
    ASSUME GInv, IInv, job # NoJob
    PROVE  /\ job.tx \in 1 .. tip /\ job.tx \in batch /\ job.tx \in DOMAIN chain /\ tip \in Nat
           /\ chain[job.tx] = job.event /\ DOMAIN chain = 1 .. tip
<1>1. job.tx = P!Oldest(batch) /\ batch # {} /\ chain[job.tx] = job.event
  BY Zenon DEF IInv, JobOK
<1>2. job.tx \in batch
  BY <1>1, OldestIsLeast, Zenon
<1>3. tip \in Nat /\ batch \in SUBSET (1 .. tip)
  BY PollerTypes, Zenon DEF IInv, Fetched
<1>4. DOMAIN chain = 1 .. tip
  BY <1>3 DEF IInv, TypeOK
<1>. QED  BY <1>1, <1>2, <1>3, <1>4, Zenon

\* A handler that changes a game works on the latest event of all.
LEMMA ChangesAreLatest ==
    ASSUME HInv, ~skipped, job # NoJob, job.plan # <<>>, Op \in Changes
    PROVE  \A j \in db.rows : j <= job.tx
<1>1. Op = job.plan[1] /\ Len(job.plan) \in Nat /\ Len(job.plan) > 0
  BY CallFacts, Zenon DEF HInv
<1>2. PlanFits(job.plan, job.event.kind, "id", Id(job.id))
  BY Zenon DEF HInv, Earned
<1>3. "id" \in Id(job.id)
  BY <1>1, <1>2 DEF PlanFits
<1>4. job.id
  BY <1>3, Zenon DEF Id
<1>. QED  BY <1>4, Zenon DEF HInv, NewIsLast

\* Nobody joins a game whose end is stored.
LEMMA JoinsOpenGame ==
    ASSUME HInv, ~skipped, job # NoJob, job.plan # <<>>, Op \in {"ensureTwo", "join"}
    PROVE  \A k \in Ends : ~Logged(job.event.game, k)
<1>1. job.event.kind = "GameStarted"
  BY CallFacts, Zenon DEF HInv, OpFits
<1>2. \A j \in db.rows : j <= job.tx
  BY ChangesAreLatest, Zenon DEF Changes
<1>3. job.tx \in 1 .. tip /\ tip \in Nat /\ chain[job.tx] = job.event /\ DOMAIN chain = 1 .. tip
  BY JobOnChain, Zenon DEF HInv
<1>. SUFFICES ASSUME NEW k \in Ends, NEW j \in 1 .. tip, chain[j].game = job.event.game,
                     chain[j].kind = k, j \in db.rows
              PROVE  FALSE
  BY <1>3, Zenon DEF Logged, TxOf
<1>4. job.tx < j
  BY <1>1, <1>3, Zenon DEF HInv, ChainOK, Same
<1>. QED  BY <1>2, <1>3, <1>4

\* A call never takes a game back to an earlier status.
LEMMA CallAdvances ==
    ASSUME HInv, job # NoJob, job.plan # <<>>, NEW h \in Games
    PROVE  /\ Effect.games[h].status \in {NotCreated, WaitingForOpponent, WaitingForOpenBids, Paid}
           /\ ~skipped => Effect.games[h].status >= db.games[h].status
<1>. DEFINE g == job.event.game
<1>0. /\ Op \in Calls /\ Wrote(Effect, Op, g) /\ g \in Games
  BY CallFacts, Zenon DEF HInv
<1>1. \A x \in Games :
         db.games[x].status \in {NotCreated, WaitingForOpponent, WaitingForOpenBids, Paid}
  BY Zenon DEF HInv, StatusOK
<1>. USE DEF NotCreated, WaitingForOpponent, WaitingForOpenBids, Paid
<1>2. CASE Effect.games[h] = db.games[h]
  BY <1>1, <1>2
<1>3. CASE Effect.games[h] # db.games[h]
  <2>1. h = g
    BY <1>0, <1>3, OtherWrote
  <2>. HIDE DEF g
  <2>2. Op \in {"create", "join", "reveal", "complete", "cancel", "finish"}
    BY <1>0, <1>3, <2>1, Zenon DEF Wrote, Calls
  <2>3. CASE Op = "create"
    BY <1>0, <1>3, <2>1, <2>3 DEF Wrote, Exists
  <2>4. CASE Op = "join"
    <3>1. Effect.games[h].status = WaitingForOpenBids
      BY <1>0, <2>1, <2>4, Zenon DEF Wrote
    <3>2. ~skipped => db.games[h].status # Paid
      <4>. SUFFICES ASSUME ~skipped PROVE db.games[h].status # Paid
        BY Zenon
      <4>1. \A k \in Ends : ~Logged(h, k)
        BY <2>1, <2>4, JoinsOpenGame, Zenon DEF g
      <4>2. EffectsLogged
        BY Zenon DEF HInv, IInv
      <4>. QED  BY <4>1, <4>2, Zenon DEF EffectsLogged, Ends
    <3>. QED  BY <1>1, <3>1, <3>2, SMTT(30)
  <2>5. CASE Op = "reveal"
    BY <1>0, <1>1, <2>1, <2>5 DEF Wrote
  <2>6. CASE Op \in {"complete", "cancel", "finish"}
    <3>1. Effect.games[h].status = Paid
      BY <1>0, <1>3, <2>1, <2>6, Zenon DEF Wrote
    <3>. QED  BY <1>1, <3>1, SMTT(30)
  <2>. QED  BY <2>2, <2>3, <2>4, <2>5, <2>6, Zenon
<1>. QED  BY <1>2, <1>3, Zenon

\* The player who opened a game has a users row by the time the event has one.
LEMMA CallHosts ==
    ASSUME HInv, job # NoJob, job.plan # <<>>, db' = Effect, UNCHANGED <<tip, chain>>
    PROVE  Hosted'
<1>. DEFINE g == job.event.game
<1>0. /\ Op \in Calls /\ Wrote(db', Op, g) /\ g \in Games /\ OpFits(Op, job.event.kind)
  BY CallFacts, Zenon DEF HInv
<1>1. chain[job.tx] = job.event /\ DOMAIN chain = 1 .. tip /\ chain \in Seq(Event)
  BY JobOnChain, Zenon DEF HInv, IInv, TypeOK
<1>. SUFFICES ASSUME NEW i \in 1 .. tip, chain[i].kind = "GameInitialized", i \in db'.rows
              PROVE  "one" \in db'.users[chain[i].game]
  BY Zenon DEF Hosted
<1>2. chain[i].game \in Games
  <2>1. chain[i] \in Event
    BY SMTT(30) DEF HInv, IInv, TypeOK
  <2>. QED  BY <2>1, Zenon DEF Event
<1>3. db.users[chain[i].game] \subseteq db'.users[chain[i].game]
  BY <1>0, <1>2, ZenonT(40) DEF Wrote
<1>4. CASE i \in db.rows
  BY <1>3, <1>4, Zenon DEF HInv, Hosted
<1>5. CASE i \notin db.rows
  <2>1. i = job.tx /\ Op \in {"upsert", "finish"}
    BY <1>0, <1>5, ZenonT(40) DEF Wrote
  <2>2. job.event.kind = "GameInitialized" /\ Op = "upsert"
    BY <1>0, <1>1, <2>1, Zenon DEF OpFits
  <2>3. /\ job.plan \in {<<"ensureOne", "create", "upsert">>, <<"create", "upsert">>, <<"upsert">>, <<>>}
        /\ job.plan \in {<<"create", "upsert">>, <<"upsert">>} => "one" \in db.users[g]
    BY <2>2, Zenon DEF HInv, OpenPlan
  <2>4. job.plan = <<"upsert">>
    BY <2>2, <2>3, ShortPlans, Zenon DEF Op
  <2>. QED  BY <1>1, <1>3, <2>1, <2>3, <2>4, Zenon
<1>. QED  BY <1>4, <1>5, Zenon

\* The part of the invariant that the poller and the end of a call leave alone.
LEMMA StoreKept ==
    ASSUME HInv, db' = db, chain' = chain, tip' = tip
    PROVE  ChainOK' /\ Opened' /\ Hosted' /\ StatusOK'
<1>1. ChainOK' /\ Opened'
  BY Zenon DEF HInv, ChainOK, Opened, Same
<1>2. Hosted' /\ StatusOK'
  BY Zenon DEF HInv, Hosted, StatusOK
<1>. QED  BY <1>1, <1>2, Zenon

\* No call runs after this step.
LEMMA NoCallLeft ==
    ASSUME job' = NoJob
    PROVE  Earned' /\ FinishPlan' /\ OpenPlan' /\ NewIsLast'
  BY Zenon DEF Earned, FinishPlan, OpenPlan, NewIsLast

\* The call does not move.
LEMMA CallKept ==
    ASSUME HInv, job' = job, db' = db, lost' = lost
    PROVE  /\ Earned' /\ FinishPlan' /\ OpenPlan'
           /\ ~skipped => NewIsLast'
<1>1. Earned' /\ OpenPlan'
  BY Zenon DEF HInv, Earned, OpenPlan
<1>2. FinishPlan'
  BY Zenon DEF HInv, FinishPlan
<1>3. ~skipped => NewIsLast'
  BY Zenon DEF HInv, NewIsLast
<1>. QED  BY <1>1, <1>2, <1>3, Zenon

\* The steps of a handler.
LEMMA HandlerKeeps ==
    ASSUME HInv, GInv', IInv', UNCHANGED <<pollVars, chain>>,
           CallSucceeds \/ CallImpossible \/ CallFails \/ Retry \/ DeadLetter
    PROVE  HInv'
<1>0. TypeOK /\ IInv /\ GInv
  BY Zenon DEF HInv, IInv
<1>1. job # NoJob /\ SameCall /\ (db' = db \/ (job.plan # <<>> /\ db' = Effect))
  BY <1>0, SucceedsShape, FailsShape, RetryShape, DeadLetterShape, Zenon
<1>2. tip' = tip /\ chain' = chain /\ accepted' = accepted /\ skipped' = skipped
  BY Zenon DEF pollVars
<1>3. db.rows \subseteq db'.rows /\ db'.rows \subseteq db.rows \cup {job.tx}
  BY <1>0, <1>1, CallFacts, ZenonT(40) DEF Wrote
<1>4. job.tx \in 1 .. tip /\ job.tx = P!Oldest(batch) /\ phase = "process" /\ batch # {}
  BY <1>0, <1>1, JobOnChain, Zenon DEF IInv, JobOK
<1>5. Seen' \subseteq 1 .. tip'
  BY <1>2, <1>3, <1>4, Zenon DEF HInv, Seen
<1>6. ASSUME ~skipped PROVE Ordered' /\ NewIsLast'
  <2>1. Ordered'
    BY <1>0, <1>3, <1>4, <1>6, InsertOrder, Zenon DEF HInv
  <2>2. NewIsLast'
    BY <1>0, <1>6, NewIsLastStep, Zenon DEF HInv
  <2>. QED  BY <2>1, <2>2, Zenon
<1>7. Earned' /\ FinishPlan' /\ OpenPlan'
  BY <1>0, EarnedStep, FinishPlanStep, OpenPlanStep, Zenon DEF HInv
<1>8. ChainOK' /\ Opened' /\ Hosted' /\ StatusOK'
  <2>1. CASE db' = db
    BY <1>2, <2>1, StoreKept, Zenon
  <2>2. CASE job.plan # <<>> /\ db' = Effect
    <3>1. Hosted'
      BY <1>1, <1>2, <2>2, CallHosts, Zenon
    <3>2. StatusOK'
      BY <1>1, <2>2, CallAdvances, Zenon DEF StatusOK
    <3>3. ChainOK' /\ Opened'
      BY <1>2 DEF HInv, ChainOK, Opened, Same
    <3>. QED  BY <3>1, <3>2, <3>3, Zenon
  <2>. QED  BY <1>1, <2>1, <2>2, Zenon
<1>. QED  BY <1>2, <1>5, <1>6, <1>7, <1>8, Zenon DEF HInv

\* The contract emits an event.
LEMMA EmitKeepsOrder ==
    ASSUME HInv, GInv', IInv', NEW e \in Event, Emit(e)
    PROVE  HInv'
<1>1. /\ db' = db /\ job' = job /\ lost' = lost /\ accepted' = accepted /\ skipped' = skipped
      /\ tip' = tip + 1 /\ tip \in Nat
      /\ \A i \in 1 .. tip : chain'[i] = chain[i]
  BY PollerTypes, EmitFrame, Zenon DEF HInv, IInv
<1>2. Seen' \subseteq 1 .. tip'
  BY <1>1 DEF HInv, Seen
<1>3. ~skipped' => Ordered' /\ NewIsLast'
  BY <1>1, EmitOrder, CallKept, Zenon DEF HInv
<1>4. ChainOK' /\ Opened'
  BY EmitChain, Zenon DEF HInv
<1>5. Hosted' /\ StatusOK'
  <2>1. \A i \in db.rows : i \in 1 .. tip
    BY Zenon DEF HInv, Seen
  <2>. QED  BY <1>1, <2>1, Zenon DEF HInv, Hosted, StatusOK
<1>6. Earned' /\ FinishPlan' /\ OpenPlan'
  BY <1>1, CallKept, Zenon
<1>. QED  BY <1>2, <1>3, <1>4, <1>5, <1>6, Zenon DEF HInv

\* The poller moves outside the handler.
LEMMA PollKeepsOrder ==
    ASSUME HInv, GInv', IInv', Poll \/ PollFails
    PROVE  HInv'
<1>1. /\ db' = db /\ job' = job /\ lost' = lost /\ chain' = chain /\ tip' = tip
      /\ accepted' = accepted
      /\ UNCHANGED <<persistenceVars, chain>> /\ (skipped => skipped')
  BY PollFrame, Zenon DEF persistenceVars
<1>2. Seen' \subseteq 1 .. tip'
  BY <1>1, Zenon DEF HInv, Seen
<1>3. ASSUME ~skipped' PROVE Ordered' /\ NewIsLast'
  <2>1. Poll \/ P!BackfillFails
    BY <1>3, Zenon DEF PollFails, P!BackfillEmpty
  <2>2. ~skipped
    BY <1>1, <1>3, Zenon
  <2>3. Ordered'
    BY <1>1, <2>1, <2>2, PollOrder, Zenon DEF HInv
  <2>. QED  BY <1>1, <2>2, <2>3, CallKept, Zenon
<1>. QED  BY <1>1, <1>2, <1>3, StoreKept, CallKept, Zenon DEF HInv

\* HandleTransaction begins.
LEMMA HandleNextKeepsOrder ==
    ASSUME HInv, GInv', IInv', HandleNext
    PROVE  HInv'
<1>1. /\ job' # NoJob /\ job'.event.kind \in Kinds
      /\ job'.plan = Plan[job'.event.kind] /\ ~job'.id /\ ~job'.failed
      /\ db' = db /\ lost' = lost /\ UNCHANGED <<pollVars, chain>>
  BY HandleShape, Zenon DEF HInv, IInv
<1>2. UNCHANGED <<tip, lt, saved, phase, batch, accepted, skipped, chain>>
  BY <1>1, Zenon DEF pollVars
<1>3. Seen' \subseteq 1 .. tip' /\ (Ordered => Ordered')
  BY Zenon, <1>1, <1>2
  DEF HInv, Seen, Ordered, InOrder, FirstPage, Newest, Done, OutOfReach
<1>4. NewIsLast'
  BY <1>1, Zenon DEF NewIsLast
<1>5. Earned'
  BY <1>1, WholePlanFits, Zenon DEF Earned
<1>6. FinishPlan'
  <2>1. job'.event.kind = "GameFinished" => job'.plan = <<"find", "finish">>
    BY <1>1, ShortPlans, Zenon
  <2>. QED  BY <1>1, <2>1, Zenon DEF FinishPlan
<1>7. OpenPlan'
  <2>1. job'.event.kind = "GameInitialized" => job'.plan = <<"ensureOne", "create", "upsert">>
    BY <1>1, ShortPlans, Zenon
  <2>2. <<"ensureOne", "create", "upsert">> \notin {<<"create", "upsert">>, <<"upsert">>}
    BY Zenon
  <2>. QED  BY <2>1, <2>2, Zenon DEF OpenPlan
<1>8. ChainOK' /\ Opened' /\ Hosted' /\ StatusOK'
  BY <1>1, <1>2, StoreKept, Zenon
<1>. QED  BY <1>2, <1>3, <1>4, <1>5, <1>6, <1>7, <1>8, Zenon DEF HInv

\* HandleTransaction returns, or the process ends in the middle of it.
LEMMA ReturnKeepsOrder ==
    ASSUME HInv, GInv', IInv', Handled \/ NotHandled \/ Restart
    PROVE  HInv'
<1>1. db' = db /\ job' = NoJob /\ chain' = chain /\ tip' = tip /\ (skipped => skipped')
  BY ReturnFrame, Zenon
<1>2. accepted' \subseteq accepted \cup batch
  <2>1. CASE Handled
    <3>1. batch # {} /\ accepted' = accepted \cup {P!Oldest(batch)}
      BY <2>1, Zenon DEF Handled, P!Accept
    <3>. QED  BY <3>1, OldestIsLeast, Zenon DEF HInv
  <2>2. CASE NotHandled \/ Restart
    BY <2>2, Zenon DEF NotHandled, Restart, P!Reject, P!Restart
  <2>. QED  BY <2>1, <2>2, Zenon
<1>3. Seen' \subseteq 1 .. tip'
  BY <1>1, <1>2, Zenon DEF HInv, IInv, Fetched, Seen
<1>4. ASSUME ~skipped' PROVE Ordered'
  <2>1. ~skipped
    BY <1>1, <1>4, Zenon
  <2>. QED  BY <1>4, <2>1, AcceptOrder, RejectOrder, RestartOrder, Zenon DEF HInv
<1>. QED  BY <1>1, <1>3, <1>4, StoreKept, NoCallLeft, Zenon DEF HInv

\* The pipeline keeps its order.
LEMMA NextHInv == HInv /\ [Next]_vars => HInv'
<1>. SUFFICES ASSUME HInv, [Next]_vars PROVE HInv'
  BY Zenon
<1>0. GInv' /\ IInv'
  BY StepIsPollers, GapStep, NextIInv, Zenon DEF HInv
<1>1. ASSUME NEW e \in Event, Emit(e) PROVE HInv'
  BY <1>0, <1>1, EmitKeepsOrder, Zenon
<1>2. CASE Poll \/ PollFails
  BY <1>0, <1>2, PollKeepsOrder, Zenon
<1>3. CASE HandleNext
  BY <1>0, <1>3, HandleNextKeepsOrder, Zenon
<1>4. CASE Handle \/ Fault
  BY <1>0, <1>4, HandlerKeeps, Zenon DEF Handle, Fault
<1>5. CASE Handled \/ NotHandled \/ Restart
  BY <1>0, <1>5, ReturnKeepsOrder, Zenon
<1>6. CASE UNCHANGED vars
  <2>1. /\ UNCHANGED <<db, job, lost, chain, tip, lt, saved, phase, batch, accepted, skipped>>
    BY <1>6, Zenon DEF vars, persistenceVars, pollVars
  <2>2. Seen' \subseteq 1 .. tip' /\ (Ordered => Ordered')
    BY <2>1, Zenon DEF HInv, Seen, Ordered, InOrder, FirstPage, Newest, Done, OutOfReach
  <2>. QED  BY <1>0, <2>1, <2>2, StoreKept, CallKept, Zenon DEF HInv
<1>. QED  BY <1>1, <1>2, <1>3, <1>4, <1>5, <1>6, Zenon DEF Next, Program

\* What a result depends on.
LEMMA SameOutcome ==
    ASSUME NEW d, NEW e, NEW g, NEW w, Outcome(d, g, w),
           e.games[g].winner = d.games[g].winner, e.games[g].status = d.games[g].status,
           e.games[g].two = d.games[g].two, e.stats[g] = d.stats[g], e.users[g] = d.users[g]
    PROVE  Outcome(e, g, w)
  BY Zenon DEF Outcome, Counted, InGame

\* Nothing is counted for a game before its end is stored.
LEMMA NothingCounted ==
    ASSUME HInv, NEW i \in 1 .. tip, chain[i].kind = "GameFinished", i \notin db.rows
    PROVE  \A p \in Players : db.stats[chain[i].game][p] = Zero
<1>1. DOMAIN chain = 1 .. tip /\ chain[i] \in Event
  BY PollerTypes DEF HInv, IInv, TypeOK
<1>2. chain[i].game \in Games
  BY <1>1, Zenon DEF Event
<1>3. ASSUME NEW k \in {"GameFinished", "Draw"}, Logged(chain[i].game, k) PROVE FALSE
  <2>1. PICK j \in 1 .. tip : chain[j].game = chain[i].game /\ chain[j].kind = k /\ j \in db.rows
    BY <1>1, <1>3, Zenon DEF Logged, TxOf
  <2>2. i = j
    BY <1>3, <2>1, Zenon DEF HInv, ChainOK, Same, Ends
  <2>. QED  BY <2>1, <2>2, Zenon
<1>4. EffectsLogged
  BY Zenon DEF HInv, IInv
<1>. QED  BY <1>2, <1>3, <1>4, Zenon DEF EffectsLogged

\* The call that ends a game stores its result.
LEMMA FinishCallCounts ==
    ASSUME HInv, job # NoJob, job.plan # <<>>, Op = "finish", job.tx \notin db.rows
    PROVE  Outcome(Effect, job.event.game, job.event.who)
<1>1. /\ job.event.kind = "GameFinished" /\ job.event \in Event
  BY CallFacts, Zenon DEF HInv, OpFits
<1>2. job.event.game \in Games /\ job.event.who \in Players
  BY <1>1, Zenon DEF Event
<1>3. job.tx \in 1 .. tip /\ chain[job.tx] = job.event
  BY JobOnChain, Zenon DEF HInv
<1>4. \A p \in Players : db.stats[job.event.game][p] = Zero
  BY <1>1, <1>3, NothingCounted, Zenon
<1>5. db \in Database /\ job.tx \in Nat
  BY <1>3 DEF HInv, IInv, TypeOK
<1>. DEFINE d == Upsert(db, job.tx)
<1>6. Effect = Finish(d, job.event.game, job.event.who)
  BY Zenon DEF Effect, Inserted
<1>7. d \in Database /\ d.stats = db.stats
  BY <1>5, Upserts, Zenon
<1>. HIDE DEF d
<1>. QED  BY <1>2, <1>4, <1>6, <1>7, FinishOutcome, ZenonT(40)

\* A call for a game whose end is stored leaves its result alone.
LEMMA CallAfterEnd ==
    ASSUME HInv, ~skipped, ~lost, job # NoJob, job.plan # <<>>,
           NEW i \in 1 .. tip, i \in db.rows, chain[i].kind = "GameFinished",
           chain[i].game = job.event.game, Outcome(db, chain[i].game, chain[i].who)
    PROVE  Outcome(Effect, chain[i].game, chain[i].who)
<1>0. PICK g \in Games : g = job.event.game
  BY CallFacts, ZenonT(40) DEF HInv
<1>1. /\ Op \in Calls /\ Wrote(Effect, Op, g) /\ OpFits(Op, job.event.kind)
  BY <1>0, CallFacts, Zenon DEF HInv
<1>2. job.tx \in 1 .. tip /\ chain[job.tx] = job.event /\ tip \in Nat
  BY JobOnChain, Zenon DEF HInv
<1>3. Same(job.tx, i) /\ Same(i, job.tx)
  BY <1>2, Zenon DEF Same
<1>4. Outcome(db, g, chain[i].who) /\ chain[i].game = g
  BY <1>0, Zenon
<1>5. CASE Op = "ensureOne"
  <2>1. job.event.kind = "GameInitialized"
    BY <1>1, <1>5, Zenon DEF OpFits
  <2>2. job.tx < i
    BY <1>2, <1>3, <2>1, Zenon DEF HInv, ChainOK, Ends
  <2>3. job.event.kind \in Stored
    BY <2>1, Zenon DEF Stored, Kinds, Plan
  <2>4. job.tx \in db.rows
    <3>1. job.tx \notin db.rows => i <= job.tx
      BY <2>3, NewRowIsLast, Zenon DEF HInv
    <3>. QED  BY <1>2, <2>2, <3>1, SMTT(30)
  <2>5. "one" \in db.users[g]
    BY <1>0, <1>2, <2>1, <2>4, Zenon DEF HInv, Hosted
  <2>6. Effect.users[g] = db.users[g]
    BY <1>1, <1>5, <2>5, ZenonT(40) DEF Wrote
  <2>7. Effect.games[g] = db.games[g] /\ Effect.stats[g] = db.stats[g]
    BY <1>1, <1>5, EnsureWrote, Zenon
  <2>. QED  BY <1>4, <2>6, <2>7, SameOutcome, Zenon
<1>6. CASE Op \in {"ensureTwo", "join"}
  <2>1. ~Logged(g, "GameFinished")
    BY <1>0, <1>6, JoinsOpenGame, Zenon DEF Ends
  <2>2. DOMAIN chain = 1 .. tip
    BY JobOnChain, Zenon DEF HInv
  <2>. QED  BY <1>4, <2>1, <2>2, ZenonT(40) DEF Logged, TxOf
<1>7. CASE Op = "create"
  <2>1. Exists(db, g)
    BY <1>4, OutcomeExists, Zenon
  <2>2. Effect.games[g] = db.games[g] /\ Effect.stats[g] = db.stats[g] /\ Effect.users[g] = db.users[g]
    BY <1>1, <1>7, <2>1, ZenonT(40) DEF Wrote
  <2>. QED  BY <1>4, <2>2, SameOutcome, Zenon
<1>8. CASE Op = "reveal"
  <2>1. /\ Effect.games[g].two = db.games[g].two /\ Effect.games[g].winner = db.games[g].winner
        /\ Effect.games[g].status = db.games[g].status
        /\ Effect.stats[g] = db.stats[g] /\ Effect.users[g] = db.users[g]
    BY <1>1, <1>8, ZenonT(40) DEF Wrote
  <2>. QED  BY <1>4, <2>1, SameOutcome, ZenonT(40)
<1>9. CASE Op \in {"complete", "cancel", "playedOne", "playedTwo"}
  <2>1. job.event.kind \in {"Draw", "GameCancelled"}
    BY <1>1, <1>9, Zenon DEF OpFits
  <2>2. job.tx = i
    BY <1>2, <1>3, <2>1, Zenon DEF HInv, ChainOK, Ends
  <2>. QED  BY <1>2, <2>1, <2>2, Zenon
<1>10. CASE Op = "finish"
  <2>1. job.event.kind = "GameFinished"
    BY <1>1, <1>10, Zenon DEF OpFits
  <2>2. job.tx = i
    BY <1>2, <1>3, <2>1, Zenon DEF HInv, ChainOK, Ends
  <2>3. ~job.id
    BY <2>1, <2>2, ZenonT(40) DEF HInv, FinishPlan
  <2>4. Effect = db
    BY <1>1, <1>10, <2>2, <2>3, ZenonT(40) DEF Wrote, Inserted
  <2>. QED  BY <2>4, Zenon
<1>11. CASE Op \in {"upsert", "find", "validate", "deadLetter"}
  <2>1. Effect.games[g] = db.games[g] /\ Effect.stats[g] = db.stats[g] /\ Effect.users[g] = db.users[g]
    BY <1>1, <1>11, ZenonT(40) DEF Wrote
  <2>. QED  BY <1>4, <2>1, SameOutcome
<1>. QED  BY <1>1, <1>5, <1>6, <1>7, <1>8, <1>9, <1>10, <1>11, Zenon DEF Calls

\* A call keeps the results of the games that ended.
LEMMA CallKeepsResults ==
    ASSUME HInv, ResultsOK, job # NoJob, job.plan # <<>>, db' = Effect,
           UNCHANGED <<tip, chain, skipped>>, lost => lost'
    PROVE  ResultsOK'
<1>. SUFFICES ASSUME ~skipped, ~lost, NEW i \in 1 .. tip, chain[i].kind = "GameFinished",
                     i \in Effect.rows
              PROVE  Outcome(Effect, chain[i].game, chain[i].who)
  BY ZenonT(40) DEF ResultsOK, Outcome, InGame
<1>0. PICK g \in Games : g = job.event.game
  BY CallFacts, ZenonT(40) DEF HInv
<1>1. /\ Wrote(Effect, Op, g) /\ OpFits(Op, job.event.kind)
  BY <1>0, CallFacts, Zenon DEF HInv
<1>2. chain[job.tx] = job.event
  BY JobOnChain, Zenon DEF HInv
<1>3. CASE i \in db.rows
  <2>1. Outcome(db, chain[i].game, chain[i].who)
    BY <1>3, Zenon DEF ResultsOK
  <2>2. CASE chain[i].game = g
    BY <1>0, <1>3, <2>1, <2>2, CallAfterEnd, Zenon
  <2>3. CASE chain[i].game # g
    <3>1. chain[i] \in Event
      BY DEF HInv, IInv, TypeOK
    <3>2. PICK h \in Games : h = chain[i].game
      BY <3>1, Zenon DEF Event
    <3>3. Effect.games[h] = db.games[h] /\ Effect.stats[h] = db.stats[h] /\ Effect.users[h] = db.users[h]
      BY <1>1, <2>3, <3>2, ZenonT(40) DEF Wrote
    <3>. QED  BY <2>1, <3>2, <3>3, SameOutcome, Zenon
  <2>. QED  BY <2>2, <2>3, Zenon
<1>4. CASE i \notin db.rows
  <2>1. i = job.tx /\ Op \in {"upsert", "finish"}
    BY <1>1, <1>4, RowWrote, Zenon
  <2>2. Op = "finish"
    BY <1>1, <1>2, <2>1, Zenon DEF OpFits
  <2>. QED  BY <1>2, <1>4, <2>1, <2>2, FinishCallCounts, ZenonT(40)
<1>. QED  BY <1>3, <1>4, Zenon

\* So does every other step.
LEMMA NextResults == HInv /\ ResultsOK /\ [Next]_vars => ResultsOK'
<1>. SUFFICES ASSUME HInv, ResultsOK, [Next]_vars PROVE ResultsOK'
  BY Zenon
<1>0. TypeOK
  BY Zenon DEF HInv, IInv
<1>1. CASE Handle \/ Fault
  <2>1. UNCHANGED <<tip, chain, skipped>>
    BY <1>1, Zenon DEF Handle, Fault, pollVars
  <2>2. \/ db' = db /\ lost' = lost
        \/ job # NoJob /\ job.plan # <<>> /\ db' = Effect /\ (lost => lost')
    BY <1>0, <1>1, SucceedsShape, FailsShape, RetryShape, DeadLetterShape, ZenonT(40) DEF Handle, Fault
  <2>3. CASE db' = db /\ lost' = lost
    BY <2>1, <2>3, ZenonT(40) DEF ResultsOK, Outcome, InGame
  <2>. QED  BY <2>1, <2>2, <2>3, CallKeepsResults, Zenon
<1>2. ASSUME NEW e \in Event, Emit(e) PROVE ResultsOK'
  <2>1. /\ db' = db /\ lost' = lost /\ skipped' = skipped /\ tip' = tip + 1 /\ tip \in Nat
        /\ \A i \in 1 .. tip : chain'[i] = chain[i]
    BY <1>0, <1>2, PollerTypes, EmitFrame, Zenon DEF HInv
  <2>2. \A i \in db.rows : i \in 1 .. tip
    BY Zenon DEF HInv, Seen
  <2>3. \A i \in db.rows : i \in 1 .. tip /\ chain'[i] = chain[i]
    BY <2>1, <2>2, Zenon
  <2>. SUFFICES ASSUME ~skipped, ~lost, NEW i \in 1 .. tip', chain'[i].kind = "GameFinished",
                       i \in db.rows
                PROVE  Outcome(db, chain'[i].game, chain'[i].who)
    BY <2>1, Zenon DEF ResultsOK, Outcome, InGame
  <2>. QED  BY <2>2, <2>3, Zenon DEF ResultsOK
<1>3. CASE ~(Handle \/ Fault) /\ ~(\E e \in Event : Emit(e))
  <2>1. /\ db' = db /\ lost' = lost /\ chain' = chain /\ tip' = tip /\ (skipped => skipped')
    <3>1. CASE Poll \/ PollFails
      BY <3>1, PollFrame, Zenon
    <3>2. CASE HandleNext
      BY <3>2, ZenonT(40) DEF HandleNext, HandleTransaction, pollVars
    <3>3. CASE Handled \/ NotHandled \/ Restart
      BY <3>3, ReturnFrame, Zenon
    <3>4. CASE UNCHANGED vars
      BY <3>4, Zenon DEF vars, persistenceVars, pollVars
    <3>. QED  BY <1>3, <3>1, <3>2, <3>3, <3>4, Zenon DEF Next, Program
  <2>. QED  BY <2>1, Zenon DEF ResultsOK, Outcome, InGame
<1>. QED  BY <1>1, <1>2, <1>3, Zenon

\* The pipeline starts in order.
LEMMA InitHInv == Init => HInv
<1>. SUFFICES ASSUME Init PROVE HInv
  OBVIOUS
<1>1. GInv /\ IInv
  BY InitOK, InitIInv, Zenon DEF Init
<1>. USE DEF Init, PersistenceInit, P!Init
<1>2. /\ db = EmptyDatabase /\ db.rows = {} /\ accepted = {} /\ job = NoJob /\ tip = 0
      /\ batch = {} /\ phase = "idle"
      /\ \A g \in Games : db.games[g].status = NotCreated
  BY Zenon DEF EmptyDatabase, NoGame
<1>. HIDE DEF Init, PersistenceInit, P!Init
<1>3. Seen = {}
  BY <1>2, Zenon DEF Seen
<1>4. Ordered /\ NewIsLast
  BY <1>2, <1>3, Zenon DEF Ordered, InOrder, FirstPage, Newest, NewIsLast
<1>5. ChainOK /\ Opened /\ Hosted /\ StatusOK
  BY <1>2, SMTT(30) DEF ChainOK, Opened, Hosted, StatusOK
<1>6. Earned /\ FinishPlan /\ OpenPlan
  BY <1>2, Zenon DEF Earned, FinishPlan, OpenPlan
<1>. QED  BY <1>1, <1>3, <1>4, <1>5, <1>6, Zenon DEF HInv

\* No step takes a game back to an earlier status.
LEMMA StatusStep ==
    ASSUME HInv, Next, ~skipped, NEW g \in Games
    PROVE  db'.games[g].status >= db.games[g].status
<1>0. TypeOK
  BY Zenon DEF HInv, IInv
<1>1. db' = db \/ (job # NoJob /\ job.plan # <<>> /\ db' = Effect)
  <2>1. CASE Handle \/ Fault
    BY <1>0, <2>1, SucceedsShape, FailsShape, RetryShape, DeadLetterShape, Zenon DEF Handle, Fault
  <2>2. CASE HandleNext
    BY <2>2, Zenon DEF HandleNext, HandleTransaction
  <2>3. CASE Handled \/ NotHandled \/ Restart
    BY <2>3, Zenon DEF Handled, NotHandled, Restart, ReturnNil, ReturnError
  <2>4. CASE Poll \/ PollFails \/ \E e \in Event : Emit(e)
    BY <2>4, Zenon DEF Poll, PollFails, Emit, persistenceVars
  <2>. QED  BY <2>1, <2>2, <2>3, <2>4, Zenon DEF Next, Program
<1>2. CASE db' = db
  BY <1>2 DEF HInv, StatusOK, NotCreated, WaitingForOpponent, WaitingForOpenBids, Paid
<1>3. CASE job # NoJob /\ job.plan # <<>> /\ db' = Effect
  BY <1>3, CallAdvances, Zenon
<1>. QED  BY <1>1, <1>2, <1>3, Zenon

\* The results of the finished games and the counters of the others.
LEMMA ResultsAreOnce ==
    ASSUME HInv, ResultsOK
    PROVE  FinishedOnce
<1>. SUFFICES ASSUME ~skipped, ~lost, NEW g \in Games,
                     NEW i \in TxOf(g, "GameFinished")
              PROVE  IF i \in db.rows
                       THEN Outcome(db, g, chain[i].who)
                       ELSE \A p \in Players : db.stats[g][p] = Zero
  BY ZenonT(40) DEF FinishedOnce, Outcome, Counted
<1>1. DOMAIN chain = 1 .. tip
  BY PollerTypes DEF HInv, IInv, TypeOK
<1>2. i \in 1 .. tip /\ chain[i].game = g /\ chain[i].kind = "GameFinished"
  BY <1>1, Zenon DEF TxOf
<1>. QED  BY <1>2, NothingCounted, Zenon DEF ResultsOK

\* Every reachable state of the pipeline satisfies the invariant.
THEOREM OrderInvariance == Spec => []HInv
<1>. QED  BY InitHInv, NextHInv, PTL DEF Spec

\* A game never goes back to an earlier status while the poller keeps the order of
\* the chain, for any number of games, retries, faults, crashes and redeliveries.
THEOREM StatusAdvancesHolds == Spec => StatusAdvances
<1>1. HInv /\ [Next]_vars
      => [~skipped => \A g \in Games : db'.games[g].status >= db.games[g].status]_vars
  BY StatusStep, Zenon
<1>. QED  BY <1>1, OrderInvariance, PTL DEF Spec, StatusAdvances

\* The result and the counters of every finished game agree with its event, once,
\* for any number of games, players' retries, faults, crashes and redeliveries.
THEOREM FinishedOnceHolds == Spec => []FinishedOnce
<1>1. Init => ResultsOK
  BY DEF Init, P!Init, ResultsOK
<1>2. HInv /\ ResultsOK => FinishedOnce
  BY ResultsAreOnce
<1>. QED  BY <1>1, <1>2, NextResults, OrderInvariance, PTL DEF Spec
=============================================================================
