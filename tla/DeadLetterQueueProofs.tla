------------------------ MODULE DeadLetterQueueProofs ------------------------
(***************************************************************************)
(* The dead letter queue for any number of transactions, callers and rows: *)
(* type correctness, one open entry per transaction, the retry budget,     *)
(* that late writes cannot keep an entry in the queue for good, and that   *)
(* no message of the game that is let pass disappears.                     *)
(***************************************************************************)
EXTENDS TransactionIntake, FiniteSetTheorems, TLAPS

\* OneOpenEntry without the counting.
Distinct ==
    \A i, j \in Stored :
        /\ queue[i].status \in Open /\ queue[j].status \in Open
        /\ queue[i].tx = queue[j].tx
        => i = j

\* RetryBudget is not inductive: a worker adds one to the count of the copy it
\* read earlier, whatever the row has by then, so the copies need room, too.
CopiesHaveRoom == \A w \in Workers : copies[w] # Idle => copies[w].entry.retries < MaxRetries

IInv == TypeOK /\ Distinct /\ RetryBudget /\ CopiesHaveRoom

\* What is stored is an entry and no other entry is NoEntry or Idle.
LEMMA Values ==
    /\ \A e \in Entry : e # NoEntry
    /\ \A c \in [at : {"read"}, id : Ids, entry : Entry] : c # Idle
    /\ \A c \in [at : {"conflict"}, tx : Transactions] : c # Idle
<1>1. \A e \in Entry : e.status # NoEntry.status
  BY DEF Entry, NoEntry, DLQStatus
<1>2. \A c \in [at : {"read"}, id : Ids, entry : Entry] : c.at # Idle.at
  BY DEF Idle
<1>3. \A c \in [at : {"conflict"}, tx : Transactions] : c.at # Idle.at
  BY DEF Idle
<1>. QED  BY <1>1, <1>2, <1>3

\* The wait never exceeds the cap.
LEMMA ScheduleType ==
    ASSUME NEW n \in 0 .. MaxRetries
    PROVE  ScheduleNextRetry(n) \in Nat /\ ScheduleNextRetry(n) <= MaxBackoff
<1>1. PICK p \in Nat : p = 2 ^ n
  BY FactorAssumption
<1>2. ScheduleNextRetry(n) = IF p > MaxBackoff THEN MaxBackoff ELSE p
  BY <1>1 DEF ScheduleNextRetry
<1>. QED  BY <1>2, QueueAssumption

\* How a step may change the table: one row is written with an entry that the
\* unique index admits, or rows are closed or age.
Writes(id, e) ==
    /\ e \in Entry /\ e.wait <= MaxBackoff /\ e.retries <= MaxRetries
    /\ e.status \in Open => OpenOf(e.tx) \ {id} = {}
    /\ queue' = [queue EXCEPT ![id] = e]

Ages ==
    /\ Stored' = Stored
    /\ \A id \in Stored : /\ queue'[id] \in Entry
                          /\ queue'[id].tx = queue[id].tx
                          /\ queue'[id].retries = queue[id].retries
                          /\ queue'[id].wait <= queue[id].wait
                          /\ queue'[id].status \in Open => queue[id].status \in Open
    /\ queue' \in [Ids -> {NoEntry} \cup Entry]

TableStep == (\E id \in Ids, e \in Entry : Writes(id, e)) \/ Ages

\* A stored row is an entry.
LEMMA StoredEntry == ASSUME TypeOK, NEW id \in Stored PROVE id \in Ids /\ queue[id] \in Entry
BY DEF TypeOK, Stored

\* The table keeps its type, its budget and the distinct open entries.
LEMMA TableKept ==
    ASSUME IInv, TableStep
    PROVE  /\ queue' \in [Ids -> {NoEntry} \cup Entry]
           /\ \A id \in Stored' : queue'[id].wait <= MaxBackoff
           /\ Distinct' /\ RetryBudget'
<1> USE QueueAssumption DEF IInv
<1>0. queue \in [Ids -> {NoEntry} \cup Entry] /\ \A id \in Stored : queue[id].wait <= MaxBackoff
  BY DEF TypeOK
<1>1. ASSUME NEW id \in Ids, NEW e \in Entry, Writes(id, e)
      PROVE  /\ queue' \in [Ids -> {NoEntry} \cup Entry]
             /\ \A k \in Stored' : queue'[k].wait <= MaxBackoff
             /\ Distinct' /\ RetryBudget'
  <2>1. queue'[id] = e /\ \A k \in Ids : k # id => queue'[k] = queue[k]
    BY <1>0, <1>1 DEF Writes
  <2>2. Stored' = Stored \cup {id}
    BY <2>1, Values DEF Stored
  <2>3. queue' \in [Ids -> {NoEntry} \cup Entry]
    BY <1>0, <1>1 DEF Writes
  <2>4. Stored \subseteq Ids
    BY DEF Stored
  <2>5. \A k \in Stored' : queue'[k].wait <= MaxBackoff
    BY <1>0, <1>1, <2>1, <2>2, <2>4 DEF Writes
  <2>6. RetryBudget'
    BY <1>1, <2>1, <2>2, <2>4 DEF Writes, RetryBudget
  <2>7. Distinct'
    <3>1. ASSUME NEW i \in Stored, i # id, queue[i].status \in Open, e.status \in Open
          PROVE  queue[i].tx # e.tx
      BY <1>1, <3>1 DEF Writes, OpenOf
    <3>. QED  BY <2>1, <2>2, <2>4, <3>1 DEF Distinct
  <2>. QED  BY <2>3, <2>5, <2>6, <2>7
<1>2. CASE Ages
  <2>1. \A id \in Stored : queue'[id].wait <= MaxBackoff
    <3>1. ASSUME NEW id \in Stored PROVE queue'[id].wait <= MaxBackoff
      <4>1. queue[id].wait \in Nat /\ queue'[id].wait \in Nat
        BY <1>2, StoredEntry DEF Ages, Entry
      <4>. QED  BY <1>0, <1>2, <4>1 DEF Ages
    <3>. QED  BY <3>1
  <2>2. Distinct' /\ RetryBudget'
    BY <1>2 DEF Ages, Distinct, RetryBudget
  <2>. QED  BY <1>2, <2>1, <2>2 DEF Ages
<1>. QED  BY <1>1, <1>2 DEF TableStep

\* The rest of the state.
CallsOK ==
    /\ stores' \in [Stores -> {Idle} \cup [at : {"conflict"}, tx : Transactions]]
    /\ copies' \in [Workers -> {Idle} \cup [at : {"read"}, id : Ids, entry : Entry]]
    /\ CopiesHaveRoom'

\* A step that leaves the table alone.
LEMMA Unchanged == ASSUME IInv, queue' = queue PROVE TableStep
<1>1. \A id \in Stored : queue[id] \in Entry /\ queue[id].wait \in Nat
  BY StoredEntry DEF IInv, Entry
<1>2. Stored' = Stored
  BY DEF Stored
<1>. QED  BY <1>1, <1>2 DEF TableStep, Ages, IInv, TypeOK

\* What a worker has in hand.
LEMMA CopyType ==
    ASSUME IInv, NEW w \in Workers, copies[w] # Idle
    PROVE  /\ copies[w].id \in Ids /\ copies[w].entry \in Entry
           /\ copies[w].entry.retries \in Nat /\ copies[w].entry.retries < MaxRetries
BY DEF IInv, TypeOK, CopiesHaveRoom, Entry

\* A retry is recorded with the next count.
LEMMA RetriedType ==
    ASSUME NEW e \in Entry, e.retries < MaxRetries
    PROVE  /\ Retried(e) \in Entry /\ Retried(e).wait <= MaxBackoff
           /\ Retried(e).retries = e.retries + 1 /\ Retried(e).retries <= MaxRetries
<1>1. e.retries \in Nat /\ e.retries + 1 \in 0 .. MaxRetries
  BY QueueAssumption DEF Entry
<1>2. ScheduleNextRetry(e.retries + 1) \in Nat /\ ScheduleNextRetry(e.retries + 1) <= MaxBackoff
  BY <1>1, ScheduleType
<1>3. PICK s \in Nat : s = ScheduleNextRetry(e.retries + 1)
  BY <1>2
<1>4. PICK r \in Nat : r = e.retries + 1
  BY <1>1
<1>5. Retried(e) = [e EXCEPT !.status = "retrying", !.retries = r, !.wait = s]
  BY <1>3, <1>4 DEF Retried
<1>6. ASSUME NEW d \in Entry PROVE [d EXCEPT !.status = "retrying"] \in Entry
  BY DEF Entry, DLQStatus
<1>7. ASSUME NEW d \in Entry PROVE [d EXCEPT !.retries = r] \in Entry
  BY DEF Entry
<1>8. ASSUME NEW d \in Entry PROVE [d EXCEPT !.wait = s] \in Entry
  BY DEF Entry
<1>9. /\ [e EXCEPT !.status = "retrying", !.retries = r, !.wait = s] \in Entry
      /\ [e EXCEPT !.status = "retrying", !.retries = r, !.wait = s].retries = r
      /\ [e EXCEPT !.status = "retrying", !.retries = r, !.wait = s].wait = s
  BY <1>6, <1>7, <1>8 DEF Entry, DLQStatus
<1>. QED  BY <1>1, <1>2, <1>3, <1>4, <1>5, <1>9, SMTT(30)

\* Closing a row and the passing of time only age rows.
LEMMA MarkOrTickAges == ASSUME IInv, Mark \/ Tick PROVE Ages /\ UNCHANGED <<stores, copies>>
<1> USE DEF IInv, TypeOK
<1>1. ASSUME NEW id \in Stored, NEW st \in {"resolved", "failed"}, UpdateStatus(id, st)
      PROVE  Ages
  <2>1. queue[id] \in Entry /\ id \in Ids /\ [queue[id] EXCEPT !.status = st] \in Entry
    BY StoredEntry DEF Entry, DLQStatus
  <2>2. /\ queue'[id] = [queue[id] EXCEPT !.status = st]
        /\ \A k \in Ids : k # id => queue'[k] = queue[k]
        /\ queue' \in [Ids -> {NoEntry} \cup Entry]
    BY <1>1, <2>1 DEF UpdateStatus
  <2>3. Stored' = Stored
    BY <2>1, <2>2, Values DEF Stored
  <2>4. \A k \in Stored : k \in Ids /\ queue[k] \in Entry /\ queue[k].wait \in Nat
    BY StoredEntry DEF Entry
  <2>5. queue'[id].status \notin Open /\ queue'[id].tx = queue[id].tx
        /\ queue'[id].retries = queue[id].retries /\ queue'[id].wait = queue[id].wait
    BY <2>1, <2>2 DEF Open, Entry
  <2>6. ASSUME NEW k \in Stored
        PROVE  /\ queue'[k] \in Entry /\ queue'[k].tx = queue[k].tx
               /\ queue'[k].retries = queue[k].retries /\ queue'[k].wait <= queue[k].wait
               /\ queue'[k].status \in Open => queue[k].status \in Open
    <3>1. CASE k = id
      <4>1. queue'[id] \in Entry /\ queue[id].wait <= queue[id].wait
        BY <2>1, <2>2, <2>4
      <4>. QED  BY <2>5, <3>1, <4>1
    <3>2. CASE k # id
      BY <2>2, <2>4, <3>2
    <3>. QED  BY <3>1, <3>2
  <2>. QED  BY <2>2, <2>3, <2>6 DEF Ages
<1>2. ASSUME Tick PROVE Ages
  <2>1. \A k \in Stored : k \in Ids /\ queue[k] \in Entry /\ queue[k].wait \in Nat
    BY StoredEntry DEF Entry
  <2>2. \A k \in Ids : queue'[k] = IF k \in Stored /\ queue[k].wait > 0
                                     THEN [queue[k] EXCEPT !.wait = @ - 1] ELSE queue[k]
    BY <1>2 DEF Tick
  <2>3. ASSUME NEW k \in Stored
        PROVE  /\ queue'[k] \in Entry /\ queue'[k].tx = queue[k].tx
               /\ queue'[k].retries = queue[k].retries /\ queue'[k].wait <= queue[k].wait
               /\ queue'[k].status = queue[k].status
    <3>1. CASE queue[k].wait > 0
      <4>1. queue'[k] = [tx |-> queue[k].tx, status |-> queue[k].status,
                         retries |-> queue[k].retries, wait |-> queue[k].wait - 1]
        BY <2>1, <2>2, <3>1 DEF Entry
      <4>2. queue[k].wait - 1 \in Nat /\ queue[k].wait - 1 <= queue[k].wait
        BY <2>1, <3>1
      <4>. QED  BY <2>1, <4>1, <4>2 DEF Entry
    <3>2. CASE ~ (queue[k].wait > 0)
      <4>1. queue'[k] = queue[k]
        BY <2>1, <2>2, <3>2
      <4>2. queue[k] \in Entry /\ queue[k].wait <= queue[k].wait
        BY <2>1
      <4>. QED  BY <4>1, <4>2
    <3>. QED  BY <3>1, <3>2
  <2>4. Stored' = Stored
    BY <2>2, <2>3, Values DEF Stored
  <2>5. queue' \in [Ids -> {NoEntry} \cup Entry]
    BY <1>2, <2>2, <2>3 DEF Tick, Stored
  <2>. QED  BY <2>3, <2>4, <2>5 DEF Ages
<1>3. UNCHANGED <<stores, copies>>
  BY DEF Mark, UpdateStatus, Tick
<1>. QED  BY <1>1, <1>2, <1>3 DEF Mark

\* Every action is a step of the table in that sense.
LEMMA StepShape ==
    ASSUME IInv, Next
    PROVE  TableStep /\ CallsOK
<1> USE DEF IInv, TypeOK
<1>1. ASSUME NEW s \in Stores, NEW t \in Transactions, StoreFailedTransaction(s, t)
      PROVE  TableStep /\ CallsOK
  <2>1. CallsOK
    BY <1>1 DEF StoreFailedTransaction, Create, CallsOK, CopiesHaveRoom
  <2>2. ASSUME OpenOf(t) = {}, NEW id \in Ids, queue' = [queue EXCEPT ![id] = NewEntry(t)]
        PROVE  TableStep
    <3>1. ScheduleNextRetry(0) \in Nat /\ ScheduleNextRetry(0) <= MaxBackoff
      BY ScheduleType, QueueAssumption
    <3>2. /\ NewEntry(t) \in Entry /\ NewEntry(t).tx = t /\ NewEntry(t).retries = 0
          /\ NewEntry(t).wait <= MaxBackoff
      BY <3>1 DEF NewEntry, Entry, DLQStatus
    <3>3. Writes(id, NewEntry(t))
      BY <2>2, <3>2, QueueAssumption DEF Writes
    <3>. QED  BY <3>2, <3>3 DEF TableStep
  <2>. QED  BY <1>1, <2>1, <2>2, Unchanged, SMTT(30) DEF StoreFailedTransaction, Create
<1>2. ASSUME NEW s \in Stores, ReadExisting(s)
      PROVE  TableStep /\ CallsOK
  BY <1>2, Unchanged DEF ReadExisting, CallsOK, CopiesHaveRoom
<1>3. ASSUME NEW w \in Workers, GetPendingForRetry(w)
      PROVE  TableStep /\ CallsOK
  <2>1. PICK id \in Stored : /\ Ready(id)
                             /\ copies' = [copies EXCEPT ![w] =
                                              [at |-> "read", id |-> id, entry |-> queue[id]]]
    BY <1>3 DEF GetPendingForRetry
  <2>2. id \in Ids /\ queue[id] \in Entry /\ queue[id].retries < MaxRetries
    BY <2>1, StoredEntry DEF Ready
  <2>3. [at |-> "read", id |-> id, entry |-> queue[id]] \in [at : {"read"}, id : Ids, entry : Entry]
    BY <2>2
  <2>4. CallsOK
    BY <1>3, <2>1, <2>2, <2>3 DEF GetPendingForRetry, CallsOK, CopiesHaveRoom
  <2>. QED  BY <1>3, <2>4, Unchanged DEF GetPendingForRetry
<1>4. ASSUME NEW w \in Workers, MarkRetryAttempt(w)
      PROVE  TableStep /\ CallsOK
  <2>1. CallsOK
    BY <1>4 DEF MarkRetryAttempt, CallsOK, CopiesHaveRoom
  <2>2. /\ copies[w].id \in Ids /\ copies[w].entry \in Entry
        /\ copies[w].entry.retries < MaxRetries
    BY <1>4, CopyType DEF MarkRetryAttempt
  <2> DEFINE id == copies[w].id
             e == Retried(copies[w].entry)
  <2>3. e \in Entry /\ e.wait <= MaxBackoff /\ e.retries <= MaxRetries
    BY <2>2, RetriedType
  <2>4. UNCHANGED queue \/ Writes(id, e)
    BY <1>4, <2>3 DEF MarkRetryAttempt, Update, Writes
  <2> HIDE DEF id, e
  <2>5. TableStep
    BY <2>2, <2>3, <2>4, Unchanged DEF TableStep, id
  <2>. QED  BY <2>1, <2>5
<1>5. ASSUME NEW w \in Workers, Abandon(w)
      PROVE  TableStep /\ CallsOK
  BY <1>5, Unchanged DEF Abandon, CallsOK, CopiesHaveRoom
<1>6. CASE Mark \/ Tick
  <2>1. CallsOK
    BY <1>6 DEF Mark, UpdateStatus, Tick, CallsOK, CopiesHaveRoom
  <2>. QED  BY <1>6, <2>1, MarkOrTickAges DEF TableStep
<1>. QED  BY <1>1, <1>2, <1>3, <1>4, <1>5, <1>6, SMTT(30) DEF Next, Store, Worker
-----------------------------------------------------------------------------
\* An empty queue satisfies the invariant.
LEMMA InitInv == ASSUME Init PROVE IInv
<1>1. Stored = {}
  BY DEF Init, Stored
<1>. QED  BY <1>1 DEF Init, IInv, TypeOK, Distinct, RetryBudget, CopiesHaveRoom

\* Every step keeps it.
LEMMA NextInv == ASSUME IInv, [Next]_vars PROVE IInv'
<1>1. CASE Next
  <2>1. TableStep /\ CallsOK
    BY <1>1, StepShape
  <2>2. /\ queue' \in [Ids -> {NoEntry} \cup Entry]
        /\ \A id \in Stored' : queue'[id].wait <= MaxBackoff
        /\ Distinct' /\ RetryBudget'
    BY <2>1, TableKept
  <2>. QED  BY <2>1, <2>2 DEF CallsOK, IInv, TypeOK
<1>2. CASE UNCHANGED vars
  BY <1>2 DEF vars, IInv, TypeOK, Distinct, RetryBudget, CopiesHaveRoom, Stored
<1>. QED  BY <1>1, <1>2

\* The inductive invariant holds in every state of the queue.
THEOREM Invariance == Spec => []IInv
<1>1. Init => IInv
  BY InitInv
<1>2. IInv /\ [Next]_vars => IInv'
  BY NextInv
<1>. QED  BY <1>1, <1>2, PTL DEF Spec

\* RetryBudget and the types, for every retry limit, cap and number of workers.
THEOREM RetryBudgetHolds == Spec => [](TypeOK /\ RetryBudget)
<1>1. IInv => TypeOK /\ RetryBudget
  BY DEF IInv
<1>. QED  BY <1>1, Invariance, PTL

\* OneOpenEntry: the partial unique index and the insert that does nothing on
\* a conflict keep one open entry per transaction in every interleaving.
THEOREM OneOpenEntryHolds == Spec => []OneOpenEntry
<1>1. ASSUME IInv PROVE OneOpenEntry
  <2>1. SUFFICES ASSUME NEW t \in Transactions PROVE Cardinality(OpenOf(t)) <= 1
    BY DEF OneOpenEntry
  <2>2. CASE OpenOf(t) = {}
    BY <2>2, FS_EmptySet
  <2>3. CASE OpenOf(t) # {}
    <3>1. PICK id \in OpenOf(t) : TRUE
      BY <2>3
    <3>2. OpenOf(t) = {id}
      BY <1>1, <3>1 DEF IInv, Distinct, OpenOf
    <3>. QED  BY <3>2, FS_Singleton
  <2>. QED  BY <2>2, <2>3
<1>. QED  BY <1>1, Invariance, PTL
-----------------------------------------------------------------------------
\* The counts of an entry are all at least n.
AtLeast(id, n) ==
    /\ n <= queue[id].retries
    /\ \A w \in Workers : copies[w] # Idle /\ copies[w].id = id => n <= copies[w].entry.retries

\* A bound on Counts is a bound on the row and on the copies.
LEMMA CountsBound ==
    ASSUME NEW id, NEW n
    PROVE  (\A k \in Counts(id) : n <= k) <=> AtLeast(id, n)
BY DEF Counts, AtLeast

\* The same of the next state.
LEMMA CountsBoundNext ==
    ASSUME NEW id, NEW n
    PROVE  (\A k \in Counts(id)' : n <= k) <=> AtLeast(id, n)'
BY DEF Counts, AtLeast

\* A step that leaves the row's count alone, does not put it off and gives
\* workers nothing but the row keeps every bound.
LEMMA BoundKept ==
    ASSUME NEW id, NEW n, AtLeast(id, n),
           queue'[id].retries = queue[id].retries,
           queue[id].wait \in Nat, queue'[id].wait \in Nat,
           queue'[id].wait <= queue[id].wait,
           \A w \in Workers : \/ copies'[w] = copies[w]
                              \/ copies'[w] = Idle
                              \/ copies'[w].id = id => copies'[w].entry.retries = queue[id].retries
    PROVE  AtLeast(id, n)' /\ (queue'[id].wait > queue[id].wait => queue'[id].retries > n)
<1>1. ~ (queue'[id].wait > queue[id].wait)
  OBVIOUS
<1>. QED  BY <1>1 DEF AtLeast

\* LeastCountGrows of one step, row and bound.
LEMMA BoundStep ==
    ASSUME IInv, Next, NEW id \in Stored, NEW n \in 0 .. MaxRetries, AtLeast(id, n)
    PROVE  AtLeast(id, n)' /\ (queue'[id].wait > queue[id].wait => queue'[id].retries > n)
<1> USE DEF IInv, TypeOK
<1>0. id \in Ids /\ queue[id] \in Entry /\ queue[id].wait \in Nat /\ queue[id].retries \in Nat
  BY StoredEntry DEF Entry
<1>1. CASE queue' = queue /\ copies' = copies
  BY <1>0, <1>1, BoundKept
<1>2. ASSUME NEW s \in Stores, NEW t \in Transactions, StoreFailedTransaction(s, t)
      PROVE  AtLeast(id, n)' /\ (queue'[id].wait > queue[id].wait => queue'[id].retries > n)
  <2>1. queue'[id] = queue[id] /\ copies' = copies
    BY <1>0, <1>2 DEF StoreFailedTransaction, Create
  <2>. QED  BY <1>0, <2>1, BoundKept
<1>3. ASSUME NEW s \in Stores, ReadExisting(s)
      PROVE  queue' = queue /\ copies' = copies
  BY <1>3 DEF ReadExisting
<1>4. ASSUME NEW w \in Workers, GetPendingForRetry(w)
      PROVE  AtLeast(id, n)' /\ (queue'[id].wait > queue[id].wait => queue'[id].retries > n)
  <2>1. PICK k \in Stored : copies' = [copies EXCEPT ![w] =
                                          [at |-> "read", id |-> k, entry |-> queue[k]]]
    BY <1>4 DEF GetPendingForRetry
  <2>2. queue' = queue
    BY <1>4 DEF GetPendingForRetry
  <2>3. \A v \in Workers : \/ copies'[v] = copies[v]
                           \/ copies'[v].id = id => copies'[v].entry.retries = queue[id].retries
    BY <2>1
  <2>. QED  BY <1>0, <2>2, <2>3, BoundKept, SMTT(30)
<1>5. ASSUME NEW w \in Workers, MarkRetryAttempt(w)
      PROVE  AtLeast(id, n)' /\ (queue'[id].wait > queue[id].wait => queue'[id].retries > n)
  <2>1. \A v \in Workers : copies'[v] = copies[v] \/ copies'[v] = Idle
    BY <1>5 DEF MarkRetryAttempt
  <2>2. CASE queue'[id] = queue[id]
    BY <1>0, <2>1, <2>2, BoundKept, SMTT(30)
  <2>3. CASE queue'[id] # queue[id]
    <3>1. copies[w] # Idle /\ copies[w].id \in Ids /\ copies[w].entry \in Entry
          /\ copies[w].entry.retries \in Nat /\ copies[w].entry.retries < MaxRetries
      BY <1>5, CopyType, SMTT(30) DEF MarkRetryAttempt
    <3>2. copies[w].id = id /\ queue'[id] = Retried(copies[w].entry)
      BY <1>0, <1>5, <2>3, <3>1, SMTT(30) DEF MarkRetryAttempt, Update
    <3>3. queue'[id].retries = copies[w].entry.retries + 1
      BY <3>1, <3>2, RetriedType
    <3>4. n <= copies[w].entry.retries
      BY <3>1, <3>2 DEF AtLeast
    <3>5. queue'[id].retries > n /\ n <= queue'[id].retries
      BY <3>1, <3>3, <3>4, SMTT(30)
    <3>. QED  BY <2>1, <3>5 DEF AtLeast
  <2>. QED  BY <2>2, <2>3
<1>6. ASSUME NEW w \in Workers, Abandon(w)
      PROVE  AtLeast(id, n)' /\ (queue'[id].wait > queue[id].wait => queue'[id].retries > n)
  <2>1. queue' = queue /\ \A v \in Workers : copies'[v] = copies[v] \/ copies'[v] = Idle
    BY <1>6 DEF Abandon
  <2>. QED  BY <1>0, <2>1, BoundKept, SMTT(30)
<1>7. ASSUME Ages, copies' = copies
      PROVE  AtLeast(id, n)' /\ (queue'[id].wait > queue[id].wait => queue'[id].retries > n)
  <2>1. queue'[id] \in Entry /\ queue'[id].wait \in Nat
    BY <1>7 DEF Ages, Entry
  <2>. QED  BY <1>0, <1>7, <2>1, BoundKept, SMTT(30) DEF Ages
<1>8. CASE Mark \/ Tick
  BY <1>7, <1>8, MarkOrTickAges
<1>. QED  BY <1>1, <1>2, <1>3, <1>4, <1>5, <1>6, <1>8, SMTT(30) DEF Next, Store, Worker

\* LeastCountGrows, for every retry limit and number of workers: the least count
\* an entry is known by never falls, and putting the entry off raises it.
THEOREM LeastCountGrowsHolds == Spec => LeastCountGrows
<1>1. ASSUME IInv, [Next]_vars
      PROVE  [\A id \in Stored : \A n \in 0 .. MaxRetries :
                (\A k \in Counts(id) : n <= k) =>
                   /\ \A k \in Counts(id)' : n <= k
                   /\ queue'[id].wait > queue[id].wait => queue'[id].retries > n]_vars
  <2>1. CASE Next
    <3>1. SUFFICES ASSUME NEW id \in Stored, NEW n \in 0 .. MaxRetries,
                          \A k \in Counts(id) : n <= k
                   PROVE  /\ \A k \in Counts(id)' : n <= k
                          /\ queue'[id].wait > queue[id].wait => queue'[id].retries > n
      OBVIOUS
    <3>2. AtLeast(id, n)
      BY <3>1, CountsBound
    <3>3. AtLeast(id, n)' /\ (queue'[id].wait > queue[id].wait => queue'[id].retries > n)
      BY <1>1, <2>1, <3>2, BoundStep
    <3>. QED  BY <3>3, CountsBoundNext
  <2>2. CASE UNCHANGED vars
    BY <2>2
  <2>. QED  BY <1>1, <2>1, <2>2
<1>. QED  BY <1>1, Invariance, PTL DEF Spec, LeastCountGrows
-----------------------------------------------------------------------------
\* A step of the composition is a step of the queue or leaves it alone.
LEMMA QueueStep == ASSUME [IntakeNext]_intakeVars PROVE [Next]_vars
<1>1. ASSUME NEW s \in Stores, NEW t \in Transactions, HandleTransaction(s, t)
      PROVE  [Next]_vars
  <2>1. StoreFailedTransaction(s, t) \/ UNCHANGED vars
    BY <1>1 DEF HandleTransaction, Handled, NotHandled, Rejected, Skipped, QueueFailed
  <2>. QED  BY <2>1 DEF Next, Store
<1>2. CASE UNCHANGED intakeVars
  BY <1>2 DEF intakeVars, vars
<1>. QED  BY <1>1, <1>2 DEF IntakeNext, Next, Store

\* HandleTransaction uses the queue as the queue allows, so what is proved of the
\* queue holds in the composition with the parser, too.
THEOREM IntakeUsesQueue == IntakeSpec => Spec
<1>1. IntakeInit => Init
  BY DEF IntakeInit
<1>. QED  BY <1>1, QueueStep, PTL DEF IntakeSpec, Spec

\* The properties of the queue in the composition that is model-checked.
THEOREM QueueKept ==
    IntakeSpec => [](TypeOK /\ RetryBudget /\ OneOpenEntry) /\ LeastCountGrows
BY IntakeUsesQueue, RetryBudgetHolds, OneOpenEntryHolds, LeastCountGrowsHolds, PTL
-----------------------------------------------------------------------------
(***************************************************************************)
(* No game traffic disappears.  Two parts: a transaction with a message of *)
(* the game never parses to "no game events", and no write to the queue    *)
(* takes the place of another transaction's entry.                         *)
(***************************************************************************)
\* The first of a nonempty set of positions is one of them.
LEMMA FirstIn == ASSUME NEW S \in SUBSET Nat, S # {} PROVE First(S) \in S
<1>1. \E i \in S : \A j \in S : ~(<<j, i>> \in OpToRel(<, Nat))
  BY WFMin, NatLessThanWellFounded, Zenon
<1>2. ASSUME NEW i \in Nat, NEW j \in Nat, j < i
      PROVE  <<j, i>> \in OpToRel(<, Nat)
  BY <1>2, Zenon DEF OpToRel
<1>3. \E i \in S : \A j \in S : ~(j < i)
  BY <1>1, <1>2, Zenon
<1>4. \E i \in S : \A j \in S : i <= j
  BY <1>3, SMT
<1>. QED  BY <1>4, Zenon DEF First

\* A failure has its reason and is no success.
LEMMA FailsWhy == \A why : Fails(why).ok = FALSE /\ Fails(why).why = why
BY DEF Fails

\* Why a message of the game is refused.
FieldReasons == {"field missing", "game id overflow", "config field missing", "timestamp missing"}

\* The parse functions of the events succeed or name what is missing.
LEMMA DataParsed ==
    ASSUME NEW op, NEW slice, NEW refs
    PROVE  \/ ParseMessageData(op, slice, refs).ok = TRUE
           \/ \E why \in FieldReasons : ParseMessageData(op, slice, refs) = Fails(why)
BY DEF ParseMessageData, FieldReasons

\* Every message is parsed or refused for a reason of its own; one of the game
\* for a reason that counts.
LEMMA MessageParsed ==
    ASSUME NEW m \in Message
    PROVE  \/ ParseInMsg(m).ok = TRUE
           \/ \E why : /\ ParseInMsg(m) = Fails(why) /\ Observable(why)
                       /\ IsGame(m) => ~Ignorable(why)
<1>0. m.form \in Forms
  BY DEF Message
<1>1. CASE m.form \in {"null", "bodyless", "garbled", "short", "empty cell"}
  <2>1. ~IsGame(m)
    BY <1>1 DEF IsGame
  <2>2. \E why \in {"empty in_msg", "no event_type", "not base64", "message too short",
                    "opcode missing"} : ParseInMsg(m) = Fails(why)
    BY <1>1 DEF ParseInMsg
  <2>. QED  BY <2>1, <2>2 DEF Observable
<1>2. CASE m.form = "json"
  BY <1>2 DEF ParseInMsg
<1>3. CASE m.form \in {"boc", "raw"} /\ m.op \notin Opcodes
  <2>1. ParseInMsg(m) = Fails("unknown opcode")
    BY <1>3 DEF ParseInMsg
  <2>. QED  BY <1>3, <2>1 DEF IsGame, Observable
<1>4. CASE m.form \in {"boc", "raw"} /\ m.op \in Opcodes
  <2>1. PICK refs : ParseInMsg(m) = ParseMessageData(m.op, m.slice, refs)
    BY <1>4 DEF ParseInMsg
  <2>. QED  BY <2>1, DataParsed DEF FieldReasons, Observable, Ignorable
<1>. QED  BY <1>0, <1>1, <1>2, <1>3, <1>4 DEF Forms

\* The messages of a transaction are those at its positions.
LEMMA Positions ==
    ASSUME NEW tx \in Contents
    PROVE  /\ DOMAIN Payloads(tx) \in SUBSET Nat
           /\ \A i \in DOMAIN Payloads(tx) : Payloads(tx)[i] \in Message
           /\ \A m \in Messages(tx) : \E i \in DOMAIN Payloads(tx) : Payloads(tx)[i] = m
<1>0. tx.in \in Seq(Message) /\ tx.out \in Seq(Message)
  BY ContentsAssumption
<1>1. PICK a \in Seq(Message), b \in Seq(Message) : a = tx.in /\ b = tx.out
  BY <1>0
<1>2. Payloads(tx) = a \o b /\ Messages(tx) = Range(a) \cup Range(b)
  BY <1>1 DEF Payloads, Messages
<1>3. a \o b \in Seq(Message) /\ DOMAIN (a \o b) = 1 .. Len(a) + Len(b) /\ Len(a) \in Nat /\ Len(b) \in Nat
  OBVIOUS
<1>4. ASSUME NEW i \in DOMAIN a PROVE i \in DOMAIN (a \o b) /\ (a \o b)[i] = a[i]
  OBVIOUS
<1>5. ASSUME NEW i \in DOMAIN b PROVE Len(a) + i \in DOMAIN (a \o b) /\ (a \o b)[Len(a) + i] = b[i]
  OBVIOUS
<1>6. \A m \in Range(a) \cup Range(b) : \E i \in DOMAIN (a \o b) : (a \o b)[i] = m
  BY <1>4, <1>5 DEF Range
<1>7. \A i \in DOMAIN (a \o b) : (a \o b)[i] \in Message
  BY <1>3
<1>8. DOMAIN (a \o b) \in SUBSET Nat
  BY <1>3
<1>. QED  BY <1>2, <1>6, <1>7, <1>8

\* A transaction with a message of the game is applied or reported: what one
\* message lacks is never covered up by another that is none of the game's.
LEMMA TransactionParsed ==
    ASSUME NEW tx \in Contents, NEW g \in Messages(tx), IsGame(g)
    PROVE  \/ ParseTransactionMessage(tx).ok = TRUE
           \/ \E why : ParseTransactionMessage(tx) = Fails(why) /\ Observable(why)
<1> DEFINE parsed == [i \in Candidates(tx) |-> ParseInMsg(Payloads(tx)[i])]
           good == {i \in Candidates(tx) : parsed[i].ok}
           bad == {i \in Candidates(tx) : ~parsed[i].ok /\ ~Ignorable(parsed[i].why)}
<1>1. PICK k \in DOMAIN Payloads(tx) : Payloads(tx)[k] = g
  BY Positions
<1>2. k \in Candidates(tx)
  BY <1>1 DEF Candidates, IsGame
<1>3. \A i \in Candidates(tx) : i \in Nat /\ Payloads(tx)[i] \in Message
  BY Positions DEF Candidates
<1>4. \A i \in Candidates(tx) :
          \/ parsed[i].ok = TRUE
          \/ \E why : /\ parsed[i] = Fails(why) /\ Observable(why)
                      /\ IsGame(Payloads(tx)[i]) => ~Ignorable(why)
  BY <1>3, MessageParsed
<1>5. ParseTransactionMessage(tx) =
         CASE ~tx.envelope -> Fails("out_msgs unreadable")
           [] tx.envelope /\ good # {} -> parsed[First(good)]
           [] tx.envelope /\ good = {} /\ bad # {} -> parsed[First(bad)]
           [] OTHER -> Fails("no game events")
  BY DEF ParseTransactionMessage
<1> HIDE DEF parsed
<1>6. good # {} \/ bad # {}
  BY <1>1, <1>2, <1>4, FailsWhy
<1>7. CASE ~tx.envelope
  <2>1. ParseTransactionMessage(tx) = Fails("out_msgs unreadable")
    BY <1>5, <1>7
  <2>2. Observable("out_msgs unreadable")
    BY DEF Observable
  <2>. QED  BY <2>1, <2>2, Zenon
<1>8. CASE tx.envelope /\ good # {}
  <2>1. First(good) \in good
    BY <1>3, <1>8, FirstIn
  <2>. QED  BY <1>4, <1>5, <1>8, <2>1, FailsWhy
<1>9. CASE tx.envelope /\ good = {} /\ bad # {}
  <2>1. First(bad) \in bad
    BY <1>3, <1>9, FirstIn
  <2>2. ParseTransactionMessage(tx) = parsed[First(bad)]
    BY <1>5, <1>9
  <2>. QED  BY <1>4, <2>1, <2>2
<1>. QED  BY <1>6, <1>7, <1>8, <1>9

\* So HandleTransaction does not skip it.
LEMMA GameNotSkipped ==
    ASSUME NEW tx \in Contents, NEW g \in Messages(tx), IsGame(g)
    PROVE  ParseTransaction(tx).ok \/ Observable(ParseTransaction(tx).why)
<1>1. CASE ParseTransactionMessage(tx).ok = TRUE /\ Valid(ParseTransactionMessage(tx))
  BY <1>1 DEF ParseTransaction
<1>2. CASE ParseTransactionMessage(tx).ok = TRUE /\ ~Valid(ParseTransactionMessage(tx))
  <2>1. ParseTransaction(tx) = Fails("event validation failed")
    BY <1>2 DEF ParseTransaction
  <2>. QED  BY <2>1, FailsWhy DEF Observable
<1>3. ASSUME NEW why, ParseTransactionMessage(tx) = Fails(why), Observable(why)
      PROVE  Observable(ParseTransaction(tx).why)
  <2>1. ParseTransaction(tx) = Fails(why)
    BY <1>3, FailsWhy DEF ParseTransaction
  <2>. QED  BY <1>3, <2>1, FailsWhy
<1>. QED  BY <1>1, <1>2, <1>3, TransactionParsed

\* A worker has an entry of the table in hand, under its id.
CopiesMatch ==
    \A w \in Workers : copies[w] # Idle =>
        copies[w].id \in Stored /\ queue[copies[w].id].tx = copies[w].entry.tx

\* Rows stay, and stay those of their transaction.
RowsStay == \A id \in Stored : id \in Stored' /\ queue'[id].tx = queue[id].tx

\* Nothing to do for a step that hands out no copy.
LEMMA MatchKept ==
    ASSUME CopiesMatch, RowsStay, \A w \in Workers : copies'[w] = copies[w] \/ copies'[w] = Idle
    PROVE  CopiesMatch'
<1>. SUFFICES ASSUME NEW w \in Workers, copies'[w] # Idle
              PROVE  copies'[w].id \in Stored' /\ queue'[copies'[w].id].tx = copies'[w].entry.tx
  BY Zenon DEF CopiesMatch
<1>1. copies'[w] = copies[w]
  OBVIOUS
<1>2. copies[w].id \in Stored /\ queue[copies[w].id].tx = copies[w].entry.tx
  BY <1>1 DEF CopiesMatch
<1>3. copies[w].id \in Stored' /\ queue'[copies[w].id].tx = queue[copies[w].id].tx
  BY <1>2 DEF RowsStay
<1>. QED  BY <1>1, <1>2, <1>3

\* An untouched table keeps its rows.
LEMMA RowsUntouched == ASSUME queue' = queue PROVE RowsStay /\ Stored' = Stored
BY DEF RowsStay, Stored

\* Inserting under a new id, and a late write of the row a worker once read,
\* leave every row with its transaction.
LEMMA RowsStayStep == ASSUME IInv, CopiesMatch, Next PROVE RowsStay /\ CopiesMatch'
<1>0. queue \in [Ids -> {NoEntry} \cup Entry]
      /\ copies \in [Workers -> {Idle} \cup [at : {"read"}, id : Ids, entry : Entry]]
  BY DEF IInv, TypeOK
<1>w. ASSUME NEW id \in Ids, NEW e \in Entry, queue' = [queue EXCEPT ![id] = e],
             id \in Stored => queue[id].tx = e.tx
      PROVE  RowsStay
  <2>1. queue'[id] = e /\ \A k \in Ids : k # id => queue'[k] = queue[k]
    BY <1>0, <1>w
  <2>. QED  BY <1>w, <2>1, Values DEF RowsStay, Stored
<1>1. ASSUME NEW s \in Stores, NEW t \in Transactions, StoreFailedTransaction(s, t)
      PROVE  RowsStay /\ CopiesMatch'
  <2>1. copies' = copies
    BY <1>1 DEF StoreFailedTransaction
  <2>2. ASSUME NEW id \in Ids \ Stored, queue' = [queue EXCEPT ![id] = NewEntry(t)]
        PROVE  RowsStay
    <3>1. NewEntry(t) \in Entry
      BY ScheduleType, QueueAssumption DEF NewEntry, Entry, DLQStatus
    <3>. QED  BY <1>w, <2>2, <3>1
  <2>3. RowsStay
    BY <1>1, <2>2, RowsUntouched DEF StoreFailedTransaction, Create
  <2>. QED  BY <2>1, <2>3, MatchKept
<1>2. ASSUME NEW s \in Stores, ReadExisting(s)
      PROVE  RowsStay /\ CopiesMatch'
  BY <1>2, RowsUntouched, MatchKept DEF ReadExisting
<1>3. ASSUME NEW w \in Workers, GetPendingForRetry(w)
      PROVE  RowsStay /\ CopiesMatch'
  <2>1. PICK id \in Stored : copies' = [copies EXCEPT ![w] =
                                          [at |-> "read", id |-> id, entry |-> queue[id]]]
    BY <1>3 DEF GetPendingForRetry
  <2>2. queue' = queue /\ RowsStay /\ Stored' = Stored
    BY <1>3, RowsUntouched DEF GetPendingForRetry
  <2>3. /\ copies'[w].id = id /\ copies'[w].entry = queue[id]
        /\ \A v \in Workers : v # w => copies'[v] = copies[v]
    BY <1>0, <2>1
  <2>. QED  BY <2>2, <2>3 DEF CopiesMatch
<1>4. ASSUME NEW w \in Workers, MarkRetryAttempt(w)
      PROVE  RowsStay /\ CopiesMatch'
  <2>1. copies[w] # Idle /\ \A v \in Workers : copies'[v] = copies[v] \/ copies'[v] = Idle
    BY <1>0, <1>4 DEF MarkRetryAttempt
  <2>2. /\ copies[w].id \in Ids /\ copies[w].entry \in Entry
        /\ copies[w].entry.retries < MaxRetries
    BY <2>1, CopyType
  <2>3. PICK id \in Ids, c \in Entry : id = copies[w].id /\ c = copies[w].entry
    BY <2>2
  <2>4. id \in Stored /\ queue[id].tx = c.tx
    BY <2>1, <2>3 DEF CopiesMatch
  <2>5. Retried(c) \in Entry
    BY <2>2, <2>3, RetriedType
  <2>6. Retried(c).tx = c.tx
    BY DEF Retried, Entry
  <2>7. queue' = queue \/ queue' = [queue EXCEPT ![id] = Retried(c)]
    BY <1>4, <2>3 DEF MarkRetryAttempt, Update
  <2>8. RowsStay
    BY <1>w, <2>4, <2>5, <2>6, <2>7, RowsUntouched
  <2>. QED  BY <2>1, <2>8, MatchKept
<1>5. ASSUME NEW w \in Workers, Abandon(w)
      PROVE  RowsStay /\ CopiesMatch'
  <2>1. queue' = queue /\ \A v \in Workers : copies'[v] = copies[v] \/ copies'[v] = Idle
    BY <1>0, <1>5 DEF Abandon
  <2>. QED  BY <2>1, RowsUntouched, MatchKept
<1>6. CASE Mark \/ Tick
  <2>1. Ages /\ copies' = copies
    BY <1>6, MarkOrTickAges
  <2>2. RowsStay
    BY <2>1 DEF Ages, RowsStay
  <2>. QED  BY <2>1, <2>2, MatchKept
<1>. QED  BY <1>1, <1>2, <1>3, <1>4, <1>5, <1>6 DEF Next, Store, Worker

\* GameTrafficKept with what it needs of the queue.
KeptInv ==
    /\ IInv /\ CopiesMatch
    /\ content \in [Transactions -> Contents] /\ passed \subseteq Transactions
    /\ GameTrafficKept

\* What GameTrafficKept asks of one transaction.
Accounted(t) == t \in applied \cup unstored \/ \E id \in Stored : queue[id].tx = t

\* An account is never closed again.
LEMMA AccountStays ==
    ASSUME RowsStay, applied \subseteq applied', unstored \subseteq unstored', NEW t, Accounted(t)
    PROVE  Accounted(t)'
BY DEF RowsStay, Accounted

\* A transaction handed to the queue is in it, or the queue was down.
LEMMA QueuedOrLost ==
    ASSUME IInv, NEW s \in Stores, NEW t \in Transactions, QueueFailed(s, t)
    PROVE  unstored \subseteq unstored' /\ (t \in unstored' \/ \E id \in Stored' : queue'[id].tx = t)
<1>1. CASE t \in unstored' /\ unstored' = unstored \cup {t}
  BY <1>1
<1>2. CASE StoreFailedTransaction(s, t) /\ unstored' = unstored
  <2>1. ASSUME NEW id \in Ids \ Stored, queue' = [queue EXCEPT ![id] = NewEntry(t)]
        PROVE  id \in Stored' /\ queue'[id].tx = t
    <3>1. queue'[id] = NewEntry(t)
      BY <2>1 DEF IInv, TypeOK
    <3>2. NewEntry(t).tx = t /\ NewEntry(t).status # NoEntry.status
      BY DEF NewEntry, NoEntry
    <3>. QED  BY <3>1, <3>2 DEF Stored
  <2>2. ASSUME OpenOf(t) # {}, queue' = queue
        PROVE  \E id \in Stored' : queue'[id].tx = t
    BY <2>2, RowsUntouched DEF OpenOf
  <2>. QED  BY <1>2, <2>1, <2>2 DEF StoreFailedTransaction, Create
<1>. QED  BY <1>1, <1>2 DEF QueueFailed

\* Every step keeps the account of what was let pass.
LEMMA KeptStep == ASSUME KeptInv, [IntakeNext]_intakeVars PROVE KeptInv'
<1>0. [Next]_vars /\ RowsStay /\ CopiesMatch'
  <2>1. [Next]_vars
    BY QueueStep DEF KeptInv
  <2>2. CASE Next
    BY <2>2, RowsStayStep DEF KeptInv
  <2>3. CASE UNCHANGED vars
    BY <2>3, RowsUntouched, MatchKept DEF KeptInv, vars
  <2>. QED  BY <2>1, <2>2, <2>3
<1>1. IInv'
  BY <1>0, NextInv DEF KeptInv
<1>2. content' = content
  BY DEF IntakeNext, HandleTransaction, intakeVars
<1>3. ASSUME applied \subseteq applied', unstored \subseteq unstored',
             \A t \in passed' \ passed :
                 t \in Transactions /\ ((\E m \in Messages(content[t]) : IsGame(m)) => Accounted(t)')
      PROVE  KeptInv'
  <2>1. passed' \subseteq Transactions /\ content' \in [Transactions -> Contents]
    BY <1>2, <1>3 DEF KeptInv
  <2>2. ASSUME NEW t \in passed', NEW m \in Messages(content[t]), IsGame(m)
        PROVE  Accounted(t)'
    <3>1. CASE t \in passed
      <4>1. Accounted(t)
        BY <2>2, <3>1 DEF KeptInv, GameTrafficKept, Accounted
      <4>. QED  BY <1>0, <1>3, <4>1, AccountStays
    <3>2. CASE t \in passed' \ passed
      BY <1>3, <2>2, <3>2
    <3>. QED  BY <1>3, <3>1, <3>2
  <2>3. GameTrafficKept'
    BY <1>2, <2>2 DEF GameTrafficKept, Accounted, Messages
  <2>. QED  BY <1>0, <1>1, <2>1, <2>3 DEF KeptInv
<1>4. ASSUME NEW s \in Stores, NEW t \in Transactions, HandleTransaction(s, t)
      PROVE  KeptInv'
  <2>1. CASE Handled(s, t)
    <3>1. Accounted(t)'
      BY <2>1 DEF Handled, Accounted
    <3>. QED  BY <1>3, <2>1, <3>1 DEF Handled
  <2>2. CASE NotHandled(s, t)
    <3>1. unstored \subseteq unstored' /\ applied' = applied /\ passed' = passed
      BY <2>2, QueuedOrLost DEF NotHandled, KeptInv
    <3>. QED  BY <1>3, <3>1
  <2>3. CASE Rejected(s, t)
    <3>1. unstored \subseteq unstored' /\ applied' = applied /\ passed' = passed \cup {t} /\ Accounted(t)'
      BY <2>3, QueuedOrLost DEF Rejected, KeptInv, Accounted
    <3>. QED  BY <1>3, <3>1
  <2>4. CASE Skipped(s, t)
    <3>1. content[t] \in Contents
      BY DEF KeptInv
    <3>2. ~ \E m \in Messages(content[t]) : IsGame(m)
      BY <2>4, <3>1, GameNotSkipped DEF Skipped
    <3>3. unstored' = unstored /\ applied' = applied /\ passed' = passed \cup {t}
      BY <2>4 DEF Skipped
    <3>. QED  BY <1>3, <3>2, <3>3
  <2>. QED  BY <1>4, <2>1, <2>2, <2>3, <2>4 DEF HandleTransaction
<1>5. CASE UNCHANGED <<content, applied, passed, unstored>>
  <2>1. applied' = applied /\ unstored' = unstored /\ passed' = passed
    BY <1>5
  <2>. QED  BY <1>3, <2>1
<1>. QED  BY <1>4, <1>5 DEF IntakeNext, intakeVars

\* GameTrafficKept, for any messages a transaction may carry and any number of
\* callers, workers and rows: HandleTransaction lets no game traffic disappear.
THEOREM GameTrafficKeptHolds == IntakeSpec => []GameTrafficKept
<1>1. IntakeInit => KeptInv
  <2>. SUFFICES ASSUME IntakeInit PROVE KeptInv
    OBVIOUS
  <2>1. IInv
    BY InitInv DEF IntakeInit
  <2>2. CopiesMatch
    BY DEF IntakeInit, Init, CopiesMatch
  <2>. QED  BY <2>1, <2>2 DEF IntakeInit, KeptInv, GameTrafficKept
<1>2. KeptInv => GameTrafficKept
  BY DEF KeptInv
<1>. QED  BY <1>1, <1>2, KeptStep, PTL DEF IntakeSpec
=============================================================================
