-------------------------- MODULE DeadLetterQueue ---------------------------
(***************************************************************************)
(* The dead letter queue (internal/usecase/dead_letter_queue.go and its    *)
(* repository).  The ingestion stores transactions it gave up on; the      *)
(* other operations are there for a retry worker and for operators and are *)
(* called here in every order: a worker retries an entry it read earlier,  *)
(* an operator closes one at any time.                                     *)
(*                                                                         *)
(* A row of the table is kept under its id.  Its time of next retry is the *)
(* number of ticks until then, in units of the base backoff.               *)
(***************************************************************************)
EXTENDS Integers, FiniteSets

CONSTANTS
    Transactions,
    Stores,        \* concurrent StoreFailedTransaction calls
    Workers,       \* callers of GetPendingForRetry
    MaxRetries,    \* defaultDLQMaxRetries
    MaxBackoff,    \* the cap of one hour, in units of the base backoff
    MaxEntries     \* bound: rows ever stored

ASSUME QueueAssumption ==
    /\ MaxRetries \in Nat /\ MaxBackoff \in Nat /\ MaxEntries \in Nat

\* Arithmetic the proofs use: the backoff factors are numbers.
ASSUME FactorAssumption == \A n \in 0 .. MaxRetries : 2 ^ n \in Nat

Ids == 1 .. MaxEntries

DLQStatus == {"pending", "retrying", "resolved", "failed"}

Open == {"pending", "retrying"}

Entry == [tx : Transactions, status : DLQStatus, retries : Nat, wait : Nat]

NoEntry == [status |-> "absent"]

Idle == [at |-> "idle"]

VARIABLES
    queue,     \* [Ids -> Entry or NoEntry]
    stores,    \* [Stores -> Idle or the call that met a conflict]
    copies     \* [Workers -> Idle or the entry as the worker read it]

vars == <<queue, stores, copies>>

Stored == {id \in Ids : queue[id] # NoEntry}

OpenOf(t) == {id \in Stored : queue[id].tx = t /\ queue[id].status \in Open}

Init ==
    /\ queue = [id \in Ids |-> NoEntry]
    /\ stores = [s \in Stores |-> Idle]
    /\ copies = [w \in Workers |-> Idle]

\* The wait after n retries: base * 2^n, capped.
ScheduleNextRetry(n) == IF 2 ^ n > MaxBackoff THEN MaxBackoff ELSE 2 ^ n
-----------------------------------------------------------------------------
NewEntry(t) ==
    [tx |-> t, status |-> "pending", retries |-> 0, wait |-> ScheduleNextRetry(0)]

\* The insert does nothing when the transaction has an open entry; ids grow.
Create(s, t) ==
    \/ /\ OpenOf(t) = {}
       /\ \E id \in Ids \ Stored :
             /\ \A other \in Ids \ Stored : id <= other
             /\ queue' = [queue EXCEPT ![id] = NewEntry(t)]
       /\ UNCHANGED stores
    \/ /\ OpenOf(t) # {}
       /\ stores' = [stores EXCEPT ![s] = [at |-> "conflict", tx |-> t]]
       /\ UNCHANGED queue

StoreFailedTransaction(s, t) ==
    /\ stores[s] = Idle
    /\ Create(s, t)
    /\ UNCHANGED copies

\* After a conflict the call reads the open entry, which may be closed by now,
\* and answers "already pending" either way.
ReadExisting(s) ==
    /\ stores[s] # Idle
    /\ stores' = [stores EXCEPT ![s] = Idle]
    /\ UNCHANGED <<queue, copies>>

\* Mutant: the query forgets the retry limit.
ReadyOnce(id) ==
    queue[id].status \in Open /\ queue[id].wait = 0

Ready(id) ==
    queue[id].status \in Open /\ queue[id].wait = 0 /\ queue[id].retries < MaxRetries

\* A worker goes through the entries GetPendingForRetry returned one by one.
GetPendingForRetry(w) ==
    /\ copies[w] = Idle
    /\ \E id \in Stored :
          /\ Ready(id)
          /\ copies' = [copies EXCEPT ![w] = [at |-> "read", id |-> id, entry |-> queue[id]]]
    /\ UNCHANGED <<queue, stores>>

\* Mutant: the count starts over.
RetriedAnew(e) ==
    [e EXCEPT !.status = "retrying", !.retries = 1, !.wait = ScheduleNextRetry(1)]

\* MarkRetrying and ScheduleNextRetry on the copy.
Retried(e) ==
    [e EXCEPT !.status = "retrying", !.retries = @ + 1, !.wait = ScheduleNextRetry(e.retries + 1)]

\* Mutant: no unique index over the open entries.
UpdateAlways(id, e) == queue' = [queue EXCEPT ![id] = e]

\* Writes the whole row; the unique index over open entries refuses a second one.
Update(id, e) ==
    IF e.status \in Open /\ OpenOf(e.tx) \ {id} # {}
    THEN UNCHANGED queue
    ELSE queue' = [queue EXCEPT ![id] = e]

MarkRetryAttempt(w) ==
    /\ copies[w] # Idle
    /\ Update(copies[w].id, Retried(copies[w].entry))
    /\ copies' = [copies EXCEPT ![w] = Idle]
    /\ UNCHANGED stores

\* The worker gives up on the rest of its list.
Abandon(w) ==
    /\ copies[w] # Idle
    /\ copies' = [copies EXCEPT ![w] = Idle]
    /\ UNCHANGED <<queue, stores>>

\* MarkResolved and MarkFailed write the status of any entry, open or not.
UpdateStatus(id, status) ==
    /\ queue' = [queue EXCEPT ![id].status = status]
    /\ UNCHANGED <<stores, copies>>

Mark == \E id \in Stored, status \in {"resolved", "failed"} : UpdateStatus(id, status)

Tick ==
    /\ \E id \in Stored : queue[id].wait > 0
    /\ queue' = [id \in Ids |-> IF id \in Stored /\ queue[id].wait > 0
                                THEN [queue[id] EXCEPT !.wait = @ - 1] ELSE queue[id]]
    /\ UNCHANGED <<stores, copies>>

Store(s) == ReadExisting(s) \/ \E t \in Transactions : StoreFailedTransaction(s, t)

Worker(w) == GetPendingForRetry(w) \/ MarkRetryAttempt(w) \/ Abandon(w)

Next ==
    \/ \E s \in Stores : Store(s)
    \/ \E w \in Workers : Worker(w)
    \/ Mark
    \/ Tick

Spec == Init /\ [][Next]_vars
-----------------------------------------------------------------------------
\* Every variable holds values of the kind the program keeps in it; no entry
\* waits longer than the cap.
TypeOK ==
    /\ queue \in [Ids -> {NoEntry} \cup Entry]
    /\ \A id \in Stored : queue[id].wait <= MaxBackoff
    /\ stores \in [Stores -> {Idle} \cup [at : {"conflict"}, tx : Transactions]]
    /\ copies \in [Workers -> {Idle} \cup [at : {"read"}, id : Ids, entry : Entry]]

\* A transaction is queued once: concurrent stores, an operator who closes an
\* entry and a late retry that reopens it never leave two open entries.
OneOpenEntry == \A t \in Transactions : Cardinality(OpenOf(t)) <= 1

\* No entry is recorded with more retries than it may have, although workers
\* read, count and write back an entry without a lock.
RetryBudget == \A id \in Stored : queue[id].retries <= MaxRetries

\* The retry counts of an entry that the table and the workers hold.
Counts(id) ==
    {queue[id].retries} \cup {copies[w].entry.retries : w \in {v \in Workers :
                                copies[v] # Idle /\ copies[v].id = id}}

\* A late write may lower the count in the table, but never to what every copy
\* of the entry shows, or below: an entry is scheduled again only with a count
\* above the least, so two workers that overwrite each other cannot keep it in
\* the queue for good.
LeastCountGrows ==
    [][\A id \in Stored : \A n \in 0 .. MaxRetries :
          (\A k \in Counts(id) : n <= k) =>
              /\ \A k \in Counts(id)' : n <= k
              /\ queue'[id].wait > queue[id].wait => queue'[id].retries > n]_vars
=============================================================================
