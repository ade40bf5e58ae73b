------------------------------- MODULE Lobby --------------------------------
(***************************************************************************)
(* The lobby: join and cancel reservations of games that wait for an       *)
(* opponent, driven by REST calls, by the two cleanup loops, by the clock, *)
(* and by the chain events the persistence handlers apply.  Broadcasts     *)
(* change neither table and are not part of this module.                   *)
(***************************************************************************)
EXTENDS JoinReservation, CancelReservation

Init ==
    /\ status = [g \in Games |-> NotCreated]
    /\ joins = EmptyTable
    /\ joinCalls = [c \in JoinCalls |-> Idle]
    /\ cancels = EmptyTable
    /\ cancelCalls = [c \in CancelCalls |-> Idle]
    /\ releases = <<>>

(***************************************************************************)
(* One goroutine applies the chain events in order: it stores the new      *)
(* status and then calls the releases of that handler one after the other. *)
(***************************************************************************)
ReleaseCancel(g) == [table |-> "cancel", game |-> g]
ReleaseJoin(g) == [table |-> "join", game |-> g]

Apply(g, from, to, todo) ==
    /\ releases = <<>>
    /\ status[g] \in from
    /\ status' = [status EXCEPT ![g] = to]
    /\ releases' = todo
    /\ UNCHANGED <<joins, joinCalls, cancels, cancelCalls>>

\* The handlers of a started game do not look at the status: a GameStarted whose
\* update was lost leaves the game waiting when the later events arrive.
Started == {WaitingForOpponent, WaitingForOpenBids}

GameInitialized(g) == Apply(g, {NotCreated}, WaitingForOpponent, <<>>)

GameStarted(g) ==
    Apply(g, {WaitingForOpponent}, WaitingForOpenBids, <<ReleaseJoin(g), ReleaseCancel(g)>>)

\* A cancelled game keeps its join reservation until it expires.
GameCancelled(g) == Apply(g, {WaitingForOpponent}, Paid, <<ReleaseCancel(g)>>)

SecretOpened(g) == Apply(g, Started, status[g], <<ReleaseCancel(g)>>)

\* HandleGameFinished and HandleDraw agree on status and on the lobby releases.
GameFinished(g) == Apply(g, Started, Paid, <<ReleaseCancel(g)>>)

HandlerRelease ==
    /\ releases # <<>>
    /\ \/ /\ Head(releases).table = "join"
          /\ ReleaseOnJoin(Head(releases).game)
          /\ UNCHANGED cancels
       \/ /\ Head(releases).table = "cancel"
          /\ ReleaseOnUnavailable(Head(releases).game)
          /\ UNCHANGED joins
    /\ releases' = Tail(releases)
    /\ UNCHANGED <<status, joinCalls, cancelCalls>>

Tick ==
    /\ joins' = Aged(joins)
    /\ cancels' = Aged(cancels)
    /\ UNCHANGED <<status, joinCalls, cancelCalls, releases>>

\* A crash: reservations and calls live in memory, the database survives.
Restart ==
    /\ joins' = EmptyTable
    /\ joinCalls' = [c \in JoinCalls |-> Idle]
    /\ cancels' = EmptyTable
    /\ cancelCalls' = [c \in CancelCalls |-> Idle]
    /\ releases' = <<>>
    /\ UNCHANGED status

JoinStep ==
    \/ \E c \in JoinCalls, g \in Games, w \in Wallets :
          JoinReserveRead(c, g, w) \/ JoinListSnapshot(c, g, w)
    \/ \E c \in JoinCalls :
          JoinReserveCheckCancel(c) \/ JoinReserveCommit(c) \/ JoinListVisit(c)
    \/ \E g \in Games, w \in Wallets : JoinCancel(g, w)

CancelStep ==
    \/ \E c \in CancelCalls, g \in Games, w \in Wallets :
          CancelReserveRead(c, g, w) \/ CancelListSnapshot(c, g, w)
    \/ \E c \in CancelCalls :
          CancelReserveCheckJoin(c) \/ CancelReserveCommit(c) \/ CancelListVisit(c)
    \/ \E g \in Games, w \in Wallets : CancelCancel(g, w)

EventStep ==
    \/ \E g \in Games :
          \/ GameInitialized(g) \/ GameStarted(g) \/ GameCancelled(g)
          \/ SecretOpened(g) \/ GameFinished(g)
    \/ HandlerRelease

Next ==
    \/ JoinStep
    \/ CancelStep
    \/ EventStep
    \/ JoinCleanup
    \/ CancelCleanup
    \/ Tick
    \/ Restart

Spec == Init /\ [][Next]_lobbyVars

(***************************************************************************)
(* The clock advances, both cleanup tickers fire again and again (app.go   *)
(* starts both loops), and a handler that applied an event finishes.       *)
(***************************************************************************)
FairSpec ==
    /\ Spec
    /\ WF_lobbyVars(Tick)
    /\ WF_lobbyVars(JoinCleanup) /\ WF_lobbyVars(CancelCleanup)
    /\ WF_lobbyVars(HandlerRelease)
-----------------------------------------------------------------------------
\* Every variable holds values of the kind the program keeps in it.
TypeOK ==
    /\ status \in [Games -> GameStatus]
    /\ joins \in Table
    /\ joinCalls \in [JoinCalls -> {Idle} \cup Call]
    /\ cancels \in Table
    /\ cancelCalls \in [CancelCalls -> {Idle} \cup Call]
    /\ releases \in Seq(LobbyRelease)

\* FR-010: however Reserve, Cancel, ListByWallet, expiry and the cleanup pass
\* interleave, no wallet holds more than MaxPerWallet active reservations,
\* although Reserve counts through an index that may be out of date.
WalletLimit == Limited(joins, MaxJoins) /\ Limited(cancels, MaxCancels)

\* ListByWallet never misses a reservation the wallet holds: the index of the
\* holder has an entry for every active reservation.
HeldIsListed ==
    \A w \in Wallets :
        /\ HeldBy(joins, w) \subseteq Listed(joins, w)
        /\ HeldBy(cancels, w) \subseteq Listed(cancels, w)

\* FR-011: the creator of a game never holds its join reservation and nobody
\* but the creator holds its cancel reservation.
RolesSeparated ==
    \A g \in Games :
        /\ g \in ActiveGames(joins) => joins.res[g].holder # Creator[g]
        /\ g \in ActiveGames(cancels) => cancels.res[g].holder = Creator[g]

\* A join reservation is an exclusive, limited lease.
JoinLease == INSTANCE ExclusiveLease WITH
    Quota <- {S \in SUBSET Games : Cardinality(S) <= MaxJoins},
    holder <- [g \in Games |-> IF IsActive(joins.res[g]) THEN joins.res[g].holder
                                                         ELSE NoWallet]

\* The join table implements the lease: no step hands an active reservation
\* to another wallet or takes one for a game that is already reserved.
JoinIsLease == JoinLease!Spec

CancelLease == INSTANCE ExclusiveLease WITH
    Quota <- {S \in SUBSET Games : Cardinality(S) <= MaxCancels},
    holder <- [g \in Games |-> IF IsActive(cancels.res[g]) THEN cancels.res[g].holder
                                                           ELSE NoWallet]

\* The cancel table implements the lease.
CancelIsLease == CancelLease!Spec

\* A reservation that outlived the lobby phase of its game (Reserve read the
\* status before the join was stored, or the game was cancelled) goes away by
\* itself: expiry bounds what the releases miss.
StaleReservationsLapse ==
    \A g \in Games :
        /\ (g \in ActiveGames(joins) /\ status[g] # WaitingForOpponent)
               ~> g \notin ActiveGames(joins)
        /\ (g \in ActiveGames(cancels) /\ status[g] # WaitingForOpponent)
               ~> g \notin ActiveGames(cancels)

\* The cleanup loops reclaim memory: an entry that is not active any more
\* leaves the map or is replaced by an active one.
DeadEntriesReclaimed ==
    \A g \in Games :
        /\ (joins.res[g].status # "absent" /\ ~IsActive(joins.res[g]))
               ~> (joins.res[g].status = "absent" \/ IsActive(joins.res[g]))
        /\ (cancels.res[g].status # "absent" /\ ~IsActive(cancels.res[g]))
               ~> (cancels.res[g].status = "absent" \/ IsActive(cancels.res[g]))

\* "the flow is blocked if a competing join reservation already exists": a
\* game never has an active join and an active cancel reservation at once.
JoinExcludesCancel == ActiveGames(joins) \cap ActiveGames(cancels) = {}
=============================================================================
