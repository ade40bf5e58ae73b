-------------------------- MODULE TransactionIntake --------------------------
(***************************************************************************)
(* BlockchainSubscriberUseCase.HandleTransaction between the parser and    *)
(* the dead letter queue: what becomes of a transaction, whatever messages *)
(* it carries, while retry workers and operators use the queue.  Storing   *)
(* the event itself is in module Ingestion.                                *)
(***************************************************************************)
EXTENDS DeadLetterQueue, MessageParser

CONSTANTS Contents    \* the messages a transaction may carry

ASSUME ContentsAssumption ==
    \A tx \in Contents : tx.in \in Seq(Message) /\ tx.out \in Seq(Message)

VARIABLES
    content,      \* [Transactions -> Contents]
    applied,      \* transactions whose event a handler stored
    passed,       \* transactions HandleTransaction returned nil for
    unstored      \* transactions the queue could not take

intakeVars == <<queue, stores, copies, content, applied, passed, unstored>>

IntakeInit ==
    /\ Init
    /\ content \in [Transactions -> Contents]
    /\ applied = {} /\ passed = {} /\ unstored = {}

\* storeFailedTransaction: an error of the queue is only logged.
QueueFailed(s, t) ==
    \/ StoreFailedTransaction(s, t) /\ UNCHANGED unstored
    \/ unstored' = unstored \cup {t} /\ UNCHANGED vars

\* The event is parsed and stored.
Handled(s, t) ==
    /\ ParseTransaction(content[t]).ok
    /\ applied' = applied \cup {t}
    /\ passed' = passed \cup {t}
    /\ UNCHANGED <<vars, unstored>>

\* All retries failed: queued, and the error goes back to the event source.
NotHandled(s, t) ==
    /\ ParseTransaction(content[t]).ok
    /\ QueueFailed(s, t)
    /\ UNCHANGED <<applied, passed>>

\* The parser refused it.
Rejected(s, t) ==
    /\ LET p == ParseTransaction(content[t]) IN ~p.ok /\ Observable(p.why)
    /\ QueueFailed(s, t)
    /\ passed' = passed \cup {t}
    /\ UNCHANGED applied

\* "Most transactions won't be game events, so this is normal".
Skipped(s, t) ==
    /\ LET p == ParseTransaction(content[t]) IN ~p.ok /\ ~Observable(p.why)
    /\ passed' = passed \cup {t}
    /\ UNCHANGED <<vars, applied, unstored>>

HandleTransaction(s, t) ==
    /\ stores[s] = Idle
    /\ Handled(s, t) \/ NotHandled(s, t) \/ Rejected(s, t) \/ Skipped(s, t)
    /\ UNCHANGED content

IntakeNext ==
    \/ \E s \in Stores, t \in Transactions : HandleTransaction(s, t)
    \/ /\ \/ \E s \in Stores : ReadExisting(s)
          \/ \E w \in Workers : Worker(w)
          \/ Mark
          \/ Tick
       /\ UNCHANGED <<content, applied, passed, unstored>>

IntakeSpec == IntakeInit /\ [][IntakeNext]_intakeVars
-----------------------------------------------------------------------------
Messages(tx) == Range(tx.in) \cup Range(tx.out)

\* The message has an opcode of the game, well-formed or not.
IsGame(m) == m.form \in {"boc", "raw"} /\ m.op \in Opcodes

\* No game traffic disappears: a transaction that was let pass with a message of
\* the game in it was applied, is or was in the queue, or the queue was down.
GameTrafficKept ==
    \A t \in passed :
        (\E m \in Messages(content[t]) : IsGame(m)) =>
            t \in applied \cup unstored \/ \E id \in Stored : queue[id].tx = t

\* What the contracts write: every layout the parser has to know.
Whole(m) ==
    /\ IsGame(m) /\ m.form = "boc"
    /\ \/ /\ m.slice = Body(m.op.event) \o (IF m.op.emitted THEN Timestamp ELSE <<>>)
          /\ m.refs = <<>>
       \/ /\ m.op.event = "GameInitialized"
          /\ m.slice = Body(m.op.event) \o ConfigSnapshot
          /\ m.refs = <<ConfigRef \o (IF m.op.emitted THEN Timestamp ELSE <<>>)>>

Names(layout) == {layout[i].holds : i \in DOMAIN layout}

\* Legacy and remediated messages are told apart by their length alone: a whole
\* message is decoded; a decoded one has each field under its own name, a game
\* id that fits, all fields of its event, and all of the configuration or none.
DecodesExactly ==
    \A t \in Transactions : \A m \in Messages(content[t]) :
        LET p == ParseInMsg(m)
        IN  /\ Whole(m) => p.ok
            /\ p.ok /\ m.form # "json" =>
                  /\ \A f \in p.fields : f[1] = f[2] \/ f = <<"gameId", "zero">>
                  /\ LET names == {f[1] : f \in p.fields}
                         config == Names(ConfigSnapshot) \cup Names(ConfigRef)
                     IN  /\ Names(Body(p.event)) \subseteq names
                         /\ config \subseteq names \/ config \cap names = {}
=============================================================================
