-------------------------- MODULE GamePersistence ---------------------------
(***************************************************************************)
(* HandleTransaction: a transaction is parsed into a game event, the event *)
(* is routed to its handler, a handler that fails is retried with the same *)
(* event object, and a transaction that cannot be stored goes to the dead  *)
(* letter queue.  A handler is a sequence of database calls, each of which *)
(* may fail; only HandleGameFinished runs them in one database             *)
(* transaction.  Releases and broadcasts come last, never fail the handler *)
(* and are not part of this module.                                        *)
(***************************************************************************)
EXTENDS GameStore, Sequences

CONSTANTS MaxRetries,   \* retryConfig.MaxRetries
          MaxFaults,    \* bound: failing database calls
          LostReplies   \* may a call fail after it took effect?

ASSUME PersistenceAssumption ==
    MaxRetries \in Nat /\ MaxFaults \in Nat /\ LostReplies \in BOOLEAN

VARIABLES db,       \* games, game_events and users
          job,      \* the HandleTransaction call that is running
          dlq,      \* transactions in dead_letter_queue
          faults,   \* failed calls so far
          lost      \* a commit took effect and its reply was lost

persistenceVars == <<db, job, dlq, faults, lost>>

\* Mutant: the game is updated before the event is inserted.
StartedCallsJoinFirst == <<"find", "ensureTwo", "join", "upsert">>

\* HandleGameStarted.
StartedCalls == <<"find", "upsert", "ensureTwo", "join">>

\* The calls of the other handlers, HandleGameInitialized to
\* HandleInsufficientBalance; "finish" is a whole database transaction.
InitializedCalls == <<"ensureOne", "create", "upsert">>
FinishedCalls == <<"find", "finish">>
DrawCalls == <<"find", "upsert", "complete", "find", "playedOne", "playedTwo">>
CancelledCalls == <<"find", "upsert", "cancel">>
SecretOpenedCalls == <<"find", "upsert", "reveal">>
InsufficientBalanceCalls == <<"find", "upsert">>

\* routeEvent.  An "unstorable" event passes the parser but not the handler's own
\* validation; "noise" is no game event; "malformed" is one that does not parse.
Plan ==
    [GameInitialized     |-> InitializedCalls,
     GameStarted         |-> StartedCalls,
     GameFinished        |-> FinishedCalls,
     Draw                |-> DrawCalls,
     GameCancelled       |-> CancelledCalls,
     SecretOpened        |-> SecretOpenedCalls,
     InsufficientBalance |-> InsufficientBalanceCalls,
     unstorable          |-> <<"validate">>,
     noise               |-> <<>>,
     malformed           |-> <<"deadLetter">>]

Kinds == DOMAIN Plan
Stored == Kinds \ {"unstorable", "noise", "malformed"}
Event == [kind : Kinds, game : Games, who : Players]

\* The database calls, the failing validation and the store of a message that
\* does not parse.
Calls == {"find", "ensureOne", "ensureTwo", "create", "upsert", "join", "reveal", "complete",
          "playedOne", "playedTwo", "cancel", "finish", "validate", "deadLetter"}

NoJob == [tx |-> 0]
Job == [tx : Nat \ {0}, event : Event, plan : Seq(Calls), id : BOOLEAN,
        attempt : 0 .. MaxRetries, failed : BOOLEAN]

PersistenceInit == db = EmptyDatabase /\ job = NoJob /\ dlq = {} /\ faults = 0 /\ lost = FALSE

\* HandleTransaction(tx) is called: parseTransaction, event.ID = 0.
HandleTransaction(tx, e) ==
    /\ job = NoJob
    /\ job' = [tx |-> tx, event |-> e, plan |-> Plan[e.kind], id |-> FALSE,
               attempt |-> 0, failed |-> FALSE]
    /\ UNCHANGED <<db, dlq, faults, lost>>

Op == Head(job.plan)

\* Conditions under which a call fails whatever the state of the connection.
Possible ==
    CASE Op = "find"     -> Exists(db, job.event.game)
      [] Op = "reveal"   -> InGame(db, job.event.game, job.event.who)
      [] Op = "validate" -> FALSE
      [] OTHER           -> TRUE

\* Mutant: a duplicate is not recognised.
InsertedAlways == TRUE

\* event.ID # 0 after the insert: a conflict leaves the old value.
Inserted == job.id \/ job.tx \notin db.rows

\* The loser is the other player, if the row has one.
Finish(d, g, winner) ==
    LET won == IncrementWins(
                 IncrementGamesPlayed(CompleteGame(d, g, winner), g, winner), g, winner)
        loser == IF winner = "one" THEN "two" ELSE "one"
    IN IF InGame(d, g, loser)
         THEN IncrementLosses(IncrementGamesPlayed(won, g, loser), g, loser)
         ELSE won

\* What a call does to the database.
Effect ==
    LET g == job.event.game
    IN CASE Op = "ensureOne" -> EnsureUserByWallet(db, g, "one")
         [] Op = "ensureTwo" -> EnsureUserByWallet(db, g, "two")
         [] Op = "create"    -> CreateOrIgnore(db, g)
         [] Op = "upsert"    -> Upsert(db, job.tx)
         [] Op = "join"      -> JoinGame(db, g)
         [] Op = "reveal"    -> RevealChoice(db, g, job.event.who)
         [] Op = "complete"  -> CompleteGame(db, g, Nobody)
         [] Op = "cancel"    -> CancelGame(db, g)
         [] Op = "playedOne" -> IncrementGamesPlayed(db, g, "one")
         [] Op = "playedTwo" -> IF InGame(db, g, "two")
                                  THEN IncrementGamesPlayed(db, g, "two") ELSE db
         [] Op = "finish"    -> IF Inserted THEN Finish(Upsert(db, job.tx), g, job.event.who)
                                            ELSE db
         [] OTHER            -> db

Inserts == Op \in {"upsert", "finish"}

\* Mutant: a duplicate is an error.
CallSucceedsOnce ==
    /\ job # NoJob /\ ~job.failed /\ job.plan # <<>>
    /\ Op # "deadLetter" /\ Possible
    /\ db' = Effect
    /\ job' = [job EXCEPT !.id = IF Inserts THEN Inserted ELSE @,
                          !.failed = Inserts /\ ~Inserted,
                          !.plan = Tail(@)]
    /\ UNCHANGED <<dlq, faults, lost>>

\* A call succeeds.  An event that was stored before ends the handler.
CallSucceeds ==
    /\ job # NoJob /\ ~job.failed /\ job.plan # <<>>
    /\ Op # "deadLetter" /\ Possible
    /\ db' = Effect
    /\ job' = IF Inserts
                THEN [job EXCEPT !.id = Inserted,
                                 !.plan = IF Inserted THEN Tail(@) ELSE <<>>]
                ELSE [job EXCEPT !.plan = Tail(@)]
    /\ UNCHANGED <<dlq, faults, lost>>

\* The data forbids the call.
CallImpossible ==
    /\ job # NoJob /\ ~job.failed /\ job.plan # <<>>
    /\ ~Possible
    /\ job' = [job EXCEPT !.failed = TRUE]
    /\ UNCHANGED <<db, dlq, faults, lost>>

(***************************************************************************)
(* The database fails the call.  The insert of "finish" may have set       *)
(* event.ID before its transaction was rolled back.  With LostReplies the  *)
(* statement, or the commit, took effect and only its reply was lost; a    *)
(* plain insert then leaves event.ID as it was.                            *)
(***************************************************************************)
CallFails ==
    /\ job # NoJob /\ ~job.failed /\ job.plan # <<>>
    /\ Op # "deadLetter" /\ Possible
    /\ faults < MaxFaults
    /\ faults' = faults + 1
    /\ \/ /\ UNCHANGED <<db, lost>>
          /\ \/ job' = [job EXCEPT !.failed = TRUE]
             \/ Op = "finish" /\ job' = [job EXCEPT !.failed = TRUE, !.id = Inserted]
       \/ /\ LostReplies
          /\ db' = Effect
          /\ lost' = (lost \/ Op = "finish")
          /\ job' = [job EXCEPT !.failed = TRUE,
                                !.id = IF Op = "finish" THEN Inserted ELSE @]
    /\ UNCHANGED dlq

\* routeEventWithRetry: the handler starts again with the same event object.
Retry ==
    /\ job # NoJob /\ job.failed /\ job.attempt < MaxRetries
    /\ job' = [job EXCEPT !.attempt = @ + 1, !.failed = FALSE, !.plan = Plan[job.event.kind]]
    /\ UNCHANGED <<db, dlq, faults, lost>>

\* storeFailedTransaction: a failure is only logged.
StoreFailedTransaction(tx) ==
    \/ dlq' = dlq \cup {tx} /\ UNCHANGED faults
    \/ faults < MaxFaults /\ faults' = faults + 1 /\ UNCHANGED dlq

\* A transaction that does not parse is stored and counts as handled.
DeadLetter ==
    /\ job # NoJob /\ job.plan = <<"deadLetter">>
    /\ StoreFailedTransaction(job.tx)
    /\ job' = [job EXCEPT !.plan = <<>>]
    /\ UNCHANGED <<db, lost>>

\* HandleTransaction returns nil.
ReturnNil ==
    /\ job # NoJob /\ ~job.failed /\ job.plan = <<>>
    /\ job' = NoJob
    /\ UNCHANGED <<db, dlq, faults, lost>>

\* All retries failed: dead letter queue and an error.
ReturnError ==
    /\ job # NoJob /\ job.failed /\ job.attempt = MaxRetries
    /\ StoreFailedTransaction(job.tx)
    /\ job' = NoJob
    /\ UNCHANGED <<db, lost>>
=============================================================================
