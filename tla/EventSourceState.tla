-------------------------- MODULE EventSourceState ---------------------------
(***************************************************************************)
(* The state of the chain event source: the WebSocket client with its read *)
(* and ping goroutines, the subscriber on top of it, the poller it may be  *)
(* replaced by, and the checkpoint row.  Transactions are numbered by      *)
(* their logical time, 1 .. chain.                                         *)
(***************************************************************************)
EXTENDS Naturals, Sequences, Functions

CONSTANTS MaxTx,               \* bound: transactions of the contract
          MaxReconnect,        \* config: failed dials in a row before the fallback
          EventSourceType,     \* config: BLOCKCHAIN_EVENT_SOURCE
          ResumeEventSource,   \* config: BLOCKCHAIN_RESUME_EVENT_SOURCE
          MaxWire,             \* bound: notifications on their way
          MaxRestarts          \* bound: crashes

SourceType == {"websocket", "http"}

ASSUME EventSourceAssumption ==
    /\ MaxTx \in Nat /\ MaxReconnect \in Nat \ {0}
    /\ MaxWire \in Nat /\ MaxRestarts \in Nat
    /\ EventSourceType \in SourceType /\ ResumeEventSource \in BOOLEAN

VARIABLES chain,     \* transactions the contract has made
          conn,      \* the connection: "none", "open" or "broken" (the peer is gone)
          listening, \* the peer got the subscription of this connection
          wire,      \* notifications sent on it and not read
          attempt,   \* reconnectAttempt
          disconnecting,  \* the goroutine that has the flag, or "nobody"
          reader,    \* where the goroutine that starts and reads is
          pinger,    \* where pingLoop is
          msg,       \* the notification the reader has in hand
          stopped,   \* why the source was stopped (context cancelled, stopCh closed), or "no"
          source,    \* type of the factory's current source
          poller,    \* handler of the running poller, or "none"
          pollCtx,   \* the context of the poller
          lt,        \* lastProcessedLt of the current source
          notify,    \* the fallback callback has still to run
          snapshot,  \* the checkpoint Start reads and then writes
          stored,    \* the checkpoint row: lt and source type
          handled,   \* transactions the event handler accepted
          failed,    \* transactions the event handler refused
          missed,    \* transactions no connection told the client of
          times,     \* how often this process had each transaction accepted
          restarts

clientVars == <<conn, listening, wire, attempt, disconnecting, reader, pinger, msg>>
factoryVars == <<source, poller, pollCtx, notify, snapshot>>
resultVars == <<handled, failed, times>>
wireVars == <<listening, wire, missed>>
sourceVars == <<chain, clientVars, missed, stopped, factoryVars, lt, stored, resultVars, restarts>>

Tx == 1 .. MaxTx
SetMax(a, b) == IF a > b THEN a ELSE b

\* A connection ends, or a new one begins: what was on its way is lost.
WireCut == listening' = FALSE /\ wire' = <<>> /\ missed' = missed \cup Range(wire)

Running == stopped = "no"

Goroutine == {"reader", "pinger"}
Checkpoint == [lt : 0 .. MaxTx, type : SourceType]

\* Before Start has read a checkpoint, and after it has written it.
Unread == [lt |-> 0, type |-> "unread"]
Written == [lt |-> 0, type |-> "written"]

\* Mutant: the row takes whatever is written.
PersistedBlindly(c) == c

\* PersistCheckpoint: the lt only grows, the type is overwritten.
Persisted(c) == [lt |-> SetMax(stored.lt, c.lt), type |-> c.type]

\* The write may fail; the callers log that and go on.
Persist(c) == stored' = Persisted(c) \/ UNCHANGED stored

\* The event handler accepts the transaction.
Accepts(n) ==
    /\ handled' = handled \cup {n}
    /\ times' = [times EXCEPT ![n] = @ + 1]
    /\ UNCHANGED failed

\* The event handler gives up on it after its retries.
Refuses(n) == failed' = failed \cup {n} /\ UNCHANGED <<handled, times>>
=============================================================================
