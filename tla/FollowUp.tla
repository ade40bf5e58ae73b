------------------------------- MODULE FollowUp ------------------------------
(***************************************************************************)
(* Reveal reservations and expired-follow-up claims driven by REST calls,  *)
(* the cleanup loops, the clock, crashes, and the chain events the         *)
(* persistence handlers apply.                                             *)
(***************************************************************************)
EXTENDS RevealReservation, ExpiredClaim

Init ==
    /\ kind \in {"reveal", "claim"}
    /\ status = [g \in Games |-> WaitingForOpponent]
    /\ locks = EmptyTable
    /\ calls = [c \in Calls |-> Idle]
    /\ releases = <<>>

\* A handler stores the new status and then makes its releases.
Apply(g, from, to, todo) ==
    /\ releases = <<>>
    /\ status[g] \in from
    /\ status' = [status EXCEPT ![g] = to]
    /\ releases' = todo
    /\ UNCHANGED <<kind, locks, calls>>

ReleaseClaim(g) == IF kind = "claim" THEN <<g>> ELSE <<>>
ReleaseReveal(g) == IF kind = "reveal" THEN <<g>> ELSE <<>>

GameStarted(g) == Apply(g, {WaitingForOpponent}, WaitingForOpenBids, ReleaseClaim(g))

SecretOpened(g) == Apply(g, {WaitingForOpenBids}, status[g], ReleaseClaim(g))

\* HandleGameFinished and HandleDraw agree on status and releases.
GameFinished(g) ==
    Apply(g, {WaitingForOpenBids, Ended}, Paid, ReleaseReveal(g) \o ReleaseClaim(g))

GameCancelled(g) == Apply(g, {WaitingForOpponent}, Paid, ReleaseReveal(g))

\* GameRepository.UpdateStatus.  No handler calls it: rows with status ENDED,
\* which claims are about, come from outside the event handlers.
UpdateStatus(g) ==
    /\ status[g] = WaitingForOpenBids
    /\ status' = [status EXCEPT ![g] = Ended]
    /\ UNCHANGED <<kind, locks, calls, releases>>

HandlerRelease ==
    /\ releases # <<>>
    /\ \/ kind = "reveal" /\ ReleaseOnTerminal(Head(releases))
       \/ kind = "claim" /\ ReleaseOnResolved(Head(releases))
    /\ releases' = Tail(releases)
    /\ UNCHANGED <<kind, status, calls>>

Tick ==
    /\ locks' = Aged(locks)
    /\ UNCHANGED <<kind, status, calls, releases>>

\* A crash: reservations and calls live in memory, the database survives.
Restart ==
    /\ locks' = EmptyTable
    /\ calls' = [c \in Calls |-> Idle]
    /\ releases' = <<>>
    /\ UNCHANGED <<kind, status>>

RevealStep ==
    \/ \E c \in RevealCalls, b \in [Games -> 0 .. MaxBatch], w \in Wallets :
          RevealReserve(c, b, w)
    \/ \E c \in RevealCalls : RevealPreflight(c) \/ RevealCommit(c)
    \/ \E g \in Games, w \in Wallets : RevealCancel(g, w)

ClaimStep ==
    \/ \E c \in ClaimCalls, g \in Games :
          ClaimPeek(c, g) \/ \E w \in Wallets : ClaimRead(c, g, w)
    \/ \E c \in ClaimCalls : ClaimCommit(c) \/ ClaimVisit(c) \/ ClaimResolve(c)
    \/ \E g \in Games, w \in Wallets : ClaimRelease(g, w)

EventStep ==
    \/ \E g \in Games :
          \/ GameStarted(g) \/ SecretOpened(g) \/ GameFinished(g) \/ GameCancelled(g)
          \/ UpdateStatus(g)
    \/ HandlerRelease

Cleanup == RevealCleanupExpired \/ ClaimCleanupExpired

Next == RevealStep \/ ClaimStep \/ EventStep \/ Cleanup \/ Tick \/ Restart

Spec == Init /\ [][Next]_followUpVars
-----------------------------------------------------------------------------
\* Every variable holds values of the kind the program keeps in it.
TypeOK ==
    /\ kind \in {"reveal", "claim"}
    /\ status \in [Games -> GameStatus]
    /\ locks \in Table
    /\ calls \in [Calls -> {Idle} \cup Call]
    /\ releases \in Seq(Games)

\* FR-004 and the claim limit: batches with repeated ids, expired entries that
\* are overwritten and cleanup passes that leave index entries behind never let
\* a wallet hold more than MaxPerWallet games.
WithinLimit == Limited(locks, MaxPerWallet)

\* Only players of a game hold its reservation, although the row is read
\* before the lock is taken.
HeldByPlayers ==
    \A g \in ActiveGames(locks) : locks.res[g].holder \in Players[g]

\* Who holds each game in the table of kind k.
Holder(k) == [g \in Games |-> IF kind = k /\ IsActive(locks.res[g]) THEN locks.res[g].holder
                                                                 ELSE NoWallet]

RevealLease == INSTANCE ExclusiveLease WITH
    Quota <- {S \in SUBSET Games : Cardinality(S) <= MaxReveals}, holder <- Holder("reveal")

\* The reveal table implements the lease: a batch is taken as a whole and only
\* of free games, and no reservation passes from one wallet to another.
RevealIsLease == RevealLease!Spec

ClaimLease == INSTANCE ExclusiveLease WITH
    Quota <- {S \in SUBSET Games : Cardinality(S) <= MaxClaims}, holder <- Holder("claim")

\* The claim table implements the lease.
ClaimIsLease == ClaimLease!Spec

\* A reservation that is still running, of a game still in its phase, ends
\* only with its time, by its holder's own call or with the process: no release
\* meant for an earlier holder, no Get or ListByWallet with an old row takes it
\* away.  The handler of an event applied just before the game ended may still
\* release a claim.
EndsForCause ==
    [][\A g \in ActiveGames(locks) \ ActiveGames(locks') :
          \/ locks.res[g].ttl = 1 /\ (Tick \/ Cleanup)
          \/ status[g] # Phase
          \/ kind = "claim" /\ HandlerRelease
          \/ RevealCancel(g, locks.res[g].holder) \/ ClaimRelease(g, locks.res[g].holder)
          \/ Restart]_followUpVars
=============================================================================
