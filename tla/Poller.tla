------------------------------- MODULE Poller -------------------------------
(***************************************************************************)
(* The HTTP poller of TON Center and its resumable checkpoint.  The        *)
(* contract's transactions are numbered 1, 2, ...: the number stands for   *)
(* the logical time (lt), the link prev_trans_lt of transaction i is       *)
(* i - 1, and 0 is the initial checkpoint "0".  The list of new            *)
(* transactions is deduplicated and sorted before it is used, so it is a   *)
(* set here and the oldest element is handled first.  Poll intervals and   *)
(* backoff only delay the steps: a poll may start whenever none is         *)
(* running.  What HandleTransaction does is left open: it accepts the      *)
(* transaction or returns an error.                                        *)
(***************************************************************************)
EXTENDS Integers

CONSTANTS PageSize,     \* PollBatchSize
          MaxTx,        \* bound: length of the chain
          MaxRestarts   \* bound: process restarts

ASSUME PollerAssumption ==
    /\ PageSize \in Nat \ {0}
    /\ MaxTx \in Nat /\ MaxRestarts \in Nat

VARIABLES tip,        \* newest transaction of the contract
          lt,         \* Poller.lastProcessedLt
          saved,      \* blockchain_sync_state.last_processed_lt
          phase,      \* where poll() is
          batch,      \* newTxs that are still to be handled
          advanced,   \* lastSuccessfulLt # "" in the running poll()
          restarts,   \* restarts so far
          base,       \* history: the first checkpoint ever stored, 0 before
          accepted,   \* history: transactions HandleTransaction accepted
          skipped     \* history: a backfill came back empty or a checkpoint
                      \* could not be loaded

pollerVars ==
    <<tip, lt, saved, phase, batch, advanced, restarts, base, accepted, skipped>>

Tx == 1 .. MaxTx

Init ==
    /\ tip \in 0 .. MaxTx
    /\ lt = 0 /\ saved = 0
    /\ phase = "idle" /\ batch = {} /\ advanced = FALSE
    /\ restarts = 0 /\ base = 0 /\ accepted = {} /\ skipped = FALSE

Oldest(S) == CHOOSE i \in S : \A j \in S : i <= j

\* getTransactions: up to PageSize transactions, the given one and older.
Page(newest) == {i \in Tx : newest - PageSize < i /\ i <= newest}

\* "lt > lastProcessedLt"
NewerThan(S, l) == {i \in S : i > l}

\* Mutant: no backfill.
GapIgnored(S, l) == FALSE

\* The loop condition of the backfill: the oldest new transaction follows one
\* that is newer than the checkpoint.  Without a checkpoint there is no loop.
Gap(S, l) == l # 0 /\ Oldest(S) - 1 # 0 /\ Oldest(S) - 1 > l

After(S, l) == IF Gap(S, l) THEN "backfill" ELSE "process"

\* The contract executes one more transaction.
NewTx ==
    /\ tip < MaxTx
    /\ tip' = tip + 1
    /\ UNCHANGED <<lt, saved, phase, batch, advanced, restarts, base, accepted, skipped>>

\* poll: the newest page.  A failed request or a page without news changes
\* nothing but the pace.
PollFetch ==
    /\ phase = "idle"
    /\ LET new == NewerThan(Page(tip), lt)
       IN batch' = new /\ phase' = IF new = {} THEN "idle" ELSE After(new, lt)
    /\ UNCHANGED <<tip, lt, saved, advanced, restarts, base, accepted, skipped>>

\* One more page of the backfill.
Backfill ==
    /\ phase = "backfill"
    /\ LET more == batch \cup NewerThan(Page(Oldest(batch) - 1), lt)
       IN batch' = more /\ phase' = After(more, lt)
    /\ UNCHANGED <<tip, lt, saved, advanced, restarts, base, accepted, skipped>>

\* Mutant: what was collected is handled although a page is missing.
BackfillFailsPartly ==
    /\ phase = "backfill"
    /\ phase' = "process"
    /\ UNCHANGED <<tip, lt, saved, batch, advanced, restarts, base, accepted, skipped>>

\* A failed request abandons the poll.
BackfillFails ==
    /\ phase = "backfill"
    /\ phase' = "idle" /\ batch' = {}
    /\ UNCHANGED <<tip, lt, saved, advanced, restarts, base, accepted, skipped>>

\* An empty page ends the loop; what was collected is handled.
BackfillEmpty ==
    /\ phase = "backfill"
    /\ phase' = "process"
    /\ skipped' = TRUE
    /\ UNCHANGED <<tip, lt, saved, batch, advanced, restarts, base, accepted>>

\* HandleTransaction succeeds for the oldest transaction of the batch.
Accept ==
    /\ phase = "process" /\ batch # {}
    /\ lt' = IF Oldest(batch) > lt THEN Oldest(batch) ELSE lt
    /\ advanced' = (advanced \/ Oldest(batch) > lt)
    /\ batch' = batch \ {Oldest(batch)}
    /\ accepted' = accepted \cup {Oldest(batch)}
    /\ UNCHANGED <<tip, saved, phase, restarts, base, skipped>>

\* Mutant: the checkpoint passes the failed transaction.
RejectSkipping ==
    /\ phase = "process" /\ batch # {}
    /\ lt' = Oldest(batch)
    /\ batch' = batch \ {Oldest(batch)}
    /\ UNCHANGED <<tip, saved, phase, advanced, restarts, base, accepted, skipped>>

\* HandleTransaction fails: the rest of the batch is dropped.
Reject ==
    /\ phase = "process" /\ batch # {}
    /\ batch' = {}
    /\ UNCHANGED <<tip, lt, saved, phase, advanced, restarts, base, accepted, skipped>>

\* PersistCheckpoint never moves the stored lt back.
Persist(l) ==
    /\ saved' = IF saved <= l THEN l ELSE saved
    /\ base' = IF base = 0 THEN saved' ELSE base

\* The end of poll: the checkpoint is written if it moved; a failed write is
\* only logged.
Finish ==
    /\ phase = "process" /\ batch = {}
    /\ \/ advanced /\ Persist(lt)
       \/ UNCHANGED <<saved, base>>
    /\ phase' = "idle" /\ advanced' = FALSE
    /\ UNCHANGED <<tip, lt, batch, restarts, accepted, skipped>>

\* The process ends and comes back with the stored checkpoint: either it
\* crashed, or Stop wrote the checkpoint before.  When the checkpoint cannot be
\* loaded, the new process starts from "0".
Restart ==
    /\ restarts < MaxRestarts
    /\ restarts' = restarts + 1
    /\ Persist(lt) \/ UNCHANGED <<saved, base>>
    /\ \/ lt' = saved' /\ UNCHANGED skipped
       \/ lt' = 0 /\ skipped' = TRUE
    /\ phase' = "idle" /\ batch' = {} /\ advanced' = FALSE
    /\ UNCHANGED <<tip, accepted>>

Next ==
    \/ NewTx \/ PollFetch
    \/ Backfill \/ BackfillFails \/ BackfillEmpty
    \/ Accept \/ Reject \/ Finish
    \/ Restart

Spec == Init /\ [][Next]_pollerVars

(***************************************************************************)
(* The ticker keeps polling and a running poll goes on; a transaction that *)
(* is handled again and again is accepted in the end; and an outage of the *)
(* API ends.  (Weaker fairness on the requests is not enough: a gap of     *)
(* several pages is only closed by one poll in which all of them succeed.) *)
(***************************************************************************)
FairSpec ==
    /\ Spec
    /\ WF_pollerVars(PollFetch) /\ WF_pollerVars(Finish) /\ WF_pollerVars(Backfill)
    /\ SF_pollerVars(Accept)
    /\ <>[][~BackfillFails]_pollerVars
-----------------------------------------------------------------------------
\* Every variable holds values of the kind the program keeps in it.
TypeOK ==
    /\ tip \in 0 .. MaxTx
    /\ lt \in 0 .. MaxTx /\ saved \in 0 .. MaxTx
    /\ phase \in {"idle", "backfill", "process"}
    /\ batch \in SUBSET Tx
    /\ advanced \in BOOLEAN
    /\ restarts \in 0 .. MaxRestarts
    /\ base \in 0 .. MaxTx
    /\ accepted \in SUBSET Tx
    /\ skipped \in BOOLEAN

\* US-003: from the first stored checkpoint on no transaction is left out,
\* however many polls, backfills, failures and restarts it takes, as long as no
\* backfill comes back empty and every restart finds its checkpoint.
NoGap == ~skipped /\ base # 0 => \A i \in Tx : base <= i /\ i <= lt => i \in accepted

\* The checkpoint, in memory and stored, is a transaction that was handled, and
\* the stored one is ahead of the one in memory only after a failed load.
CheckpointHandled ==
    /\ lt # 0 => lt \in accepted
    /\ saved # 0 => saved \in accepted
    /\ skipped \/ saved <= lt

\* The stored checkpoint only moves forward, and only past transactions that
\* were handled before.
CheckpointAdvances ==
    [][saved' >= saved /\ (saved' # saved => saved' \in accepted)]_pollerVars

\* Once a checkpoint is stored the poller catches up with the contract: every
\* later transaction is handled, whatever fails or restarts on the way, unless
\* a backfill came back empty or a checkpoint was not found.
CatchesUp ==
    \A i \in Tx : (saved # 0 /\ i > saved /\ i <= tip) ~> (i \in accepted \/ skipped)
=============================================================================
