----------------------------- MODULE Ingestion ------------------------------
(***************************************************************************)
(* The HTTP ingestion pipeline: the contract executes transactions, the    *)
(* poller fetches them and calls HandleTransaction for one after the       *)
(* other, and the checkpoint follows what HandleTransaction returns.       *)
(***************************************************************************)
EXTENDS GamePersistence

CONSTANTS PageSize, MaxTx, MaxRestarts,
          Emitted   \* the kinds of event the contract emits in this instance

ASSUME IngestionAssumption ==
    PageSize \in Nat \ {0} /\ MaxTx \in Nat /\ MaxRestarts \in Nat

VARIABLES tip, lt, saved, phase, batch, advanced, restarts, base, accepted, skipped,
          chain     \* the game event of every transaction

pollVars ==
    <<tip, lt, saved, phase, batch, advanced, restarts, base, accepted, skipped>>
vars == <<persistenceVars, pollVars, chain>>

P == INSTANCE Poller

Init ==
    /\ P!Init /\ tip = 0
    /\ PersistenceInit
    /\ chain = <<>>

(***************************************************************************)
(* The contract: a game is initialized, joined or cancelled, both players  *)
(* open their secrets in any order, and it is finished or drawn.           *)
(***************************************************************************)
Happened(g) == {<<chain[i].kind, chain[i].who>> : i \in {j \in DOMAIN chain : chain[j].game = g}}

Legal(e) ==
    LET past(k) == \E p \in Players : <<k, p>> \in Happened(e.game)
        over == past("GameFinished") \/ past("Draw") \/ past("GameCancelled")
    IN CASE e.kind = "GameInitialized" -> ~past("GameInitialized") /\ e.who = "one"
         [] e.kind = "GameStarted" ->
              past("GameInitialized") /\ ~past("GameStarted") /\ ~over /\ e.who = "two"
         [] e.kind = "GameCancelled" ->
              past("GameInitialized") /\ ~past("GameStarted") /\ ~over /\ e.who = "one"
         [] e.kind = "SecretOpened" ->
              past("GameStarted") /\ ~over /\ <<e.kind, e.who>> \notin Happened(e.game)
         [] e.kind = "GameFinished" -> past("GameStarted") /\ ~over
         [] e.kind = "Draw" -> past("GameStarted") /\ ~over /\ e.who = "one"
         [] e.kind = "InsufficientBalance" -> past("GameInitialized") /\ ~over /\ e.who = "one"
         [] OTHER -> e.who = "one"

Emit(e) ==
    /\ e.kind \in Emitted /\ Legal(e)
    /\ P!NewTx
    /\ chain' = Append(chain, e)
    /\ UNCHANGED persistenceVars

\* The steps of the poller around the handler.
Poll ==
    /\ P!PollFetch \/ P!Backfill \/ P!Finish
    /\ UNCHANGED <<persistenceVars, chain>>

PollFails ==
    /\ P!BackfillFails \/ P!BackfillEmpty
    /\ UNCHANGED <<persistenceVars, chain>>

\* for _, tx := range newTxs { handler.HandleTransaction(ctx, tx) ... }
HandleNext ==
    /\ phase = "process" /\ batch # {}
    /\ HandleTransaction(P!Oldest(batch), chain[P!Oldest(batch)])
    /\ UNCHANGED <<pollVars, chain>>

Handle ==
    /\ CallSucceeds \/ CallImpossible \/ Retry \/ DeadLetter
    /\ UNCHANGED <<pollVars, chain>>

Fault == CallFails /\ UNCHANGED <<pollVars, chain>>

Handled == ReturnNil /\ P!Accept /\ UNCHANGED chain

\* Mutant: the poller goes on after an error.
NotHandledGoOn == ReturnError /\ P!Accept /\ UNCHANGED chain

NotHandled == ReturnError /\ P!Reject /\ UNCHANGED chain

\* The database survives the process.
Restart ==
    /\ P!Restart
    /\ job' = NoJob
    /\ UNCHANGED <<db, dlq, faults, lost, chain>>

Program == Poll \/ HandleNext \/ Handle \/ Handled \/ NotHandled

Next ==
    \/ \E e \in Event : Emit(e)
    \/ Program
    \/ PollFails \/ Fault
    \/ Restart

Spec == Init /\ [][Next]_vars

\* The program runs on, database calls fail finitely often (MaxFaults) and an
\* outage of the API ends.
FairSpec == Spec /\ WF_vars(Program) /\ <>[][~P!BackfillFails]_vars
-----------------------------------------------------------------------------
TxOf(g, k) == {i \in DOMAIN chain : chain[i].game = g /\ chain[i].kind = k}
Logged(g, k) == TxOf(g, k) \cap db.rows # {}

\* Every variable of the handlers holds values of its kind.
TypeOK ==
    /\ db \in Database
    /\ job = NoJob \/ job \in Job
    /\ dlq \in SUBSET (1 .. MaxTx)
    /\ faults \in 0 .. MaxFaults /\ lost \in BOOLEAN
    /\ chain \in Seq(Event) /\ Len(chain) = tip

\* A transaction the checkpoint passed left its event in game_events, however
\* often its handler failed, was retried or was interrupted by a crash.
Recorded ==
    \A i \in accepted : chain[i].kind \in Stored => i \in db.rows

\* Nothing is derived from an event that is not in game_events: player two, the
\* revealed choices, the result and the counters all have their event row.
EffectsLogged ==
    \A g \in Games :
        LET ended == Logged(g, "GameFinished") \/ Logged(g, "Draw")
        IN /\ db.games[g].two => Logged(g, "GameStarted")
           /\ db.games[g].revealed # {} => Logged(g, "SecretOpened")
           /\ db.games[g].winner # Nobody => Logged(g, "GameFinished")
           /\ db.games[g].status = Paid => ended \/ Logged(g, "GameCancelled")
           /\ \A p \in Players : db.stats[g][p] # Zero => ended

\* A game never goes back to an earlier status, although JoinGame writes the
\* status without a look at the old one: a redelivered GameStarted is
\* recognised by its event row, and the poller keeps the order of the chain
\* until a backfill comes back empty or a checkpoint is not found.
StatusAdvances ==
    [][~skipped => \A g \in Games : db'.games[g].status >= db.games[g].status]_vars

\* "Uses database transaction to ensure atomicity of game completion and stats
\* updates": the result and the counters of a game with a GameFinished row
\* agree, however the handler was interrupted, retried and redelivered, as long
\* as the poller keeps the order of the chain and no commit's reply is lost: a
\* retry after that takes the insert's conflict for its own row and counts again.
FinishedOnce ==
    ~skipped /\ ~lost => \A g \in Games : \A i \in TxOf(g, "GameFinished") :
        LET winner == chain[i].who
            counted(p) == IF p \notin db.users[g] THEN Zero
                          ELSE [played |-> 1, wins |-> IF p = winner THEN 1 ELSE 0,
                                              losses |-> IF p = winner THEN 0 ELSE 1]
        IN IF i \in db.rows
             THEN /\ db.games[g].winner = winner /\ db.games[g].status = Paid
                  /\ db.stats[g][winner] = counted(winner)
                  /\ \A p \in Players \ {winner} :
                        InGame(db, g, p) => db.stats[g][p] = counted(p)
             ELSE \A p \in Players : db.stats[g][p] = Zero

\* Once a checkpoint is stored and nothing before it is missing, what the contract
\* executes is handled in the end, whatever fails, crashes or was lost on the way,
\* as long as the poller keeps the order of the chain; only an event the store can
\* never accept holds up itself and those behind it.
EventuallyHandled ==
    \A i \in 1 .. MaxTx :
        (/\ saved # 0 /\ 1 .. saved \subseteq accepted
         /\ i <= tip /\ \A j \in 1 .. i : chain[j].kind # "unstorable")
            ~> (i \in accepted \/ skipped)

\* "This ensures we don't skip ahead and lose the failed transaction": a handled
\* GameStarted has stored player two.
JoinNotLost ==
    \A i \in accepted : chain[i].kind = "GameStarted" => db.games[chain[i].game].two
=============================================================================
