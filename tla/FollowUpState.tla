---------------------------- MODULE FollowUpState ----------------------------
(***************************************************************************)
(* The state of the two reservation tables of games that left the lobby:   *)
(* reveal reservations (RevealReservationUseCase) and expired-follow-up    *)
(* claims (ExpiredClaimUseCase).  Both have a map and a wallet index like  *)
(* the lobby tables and share nothing with each other but the game rows,   *)
(* so a behaviour follows one of the two; kind says which.                 *)
(***************************************************************************)
EXTENDS ReservationTable, GameEntity, Sequences

CONSTANTS Players,      \* the wallets stored as the two players of a game
          RevealTimeout, MaxReveals,   \* config of the reveal reservations
          ClaimTimeout, MaxClaims,     \* config of the expired-follow-up claims
          RevealCalls, ClaimCalls,     \* identities of concurrent REST calls
          MaxBatch,                    \* bound: ids in one request
          IndexBound                   \* bound: occurrences of a game in an index

ASSUME FollowUpAssumption ==
    /\ Players \in [Games -> SUBSET Wallets]
    /\ RevealTimeout \in Nat \ {0} /\ MaxReveals \in Nat \ {0}
    /\ ClaimTimeout \in Nat \ {0} /\ MaxClaims \in Nat \ {0}
    /\ MaxBatch \in Nat /\ IndexBound \in Nat

VARIABLES kind,     \* the table of this behaviour: "reveal" or "claim"
          status,   \* games.status as stored in the database
          locks,    \* the table: reservations and wallet index
          calls,    \* REST calls in flight on it
          releases  \* releases left in the running event handler

followUpVars == <<kind, status, locks, calls, releases>>

Calls == RevealCalls \cup ClaimCalls

\* A list of game ids: g occurs b[g] times.
Batch == [Games -> Nat]
BatchLen(b) == Cardinality(Slots(b, Games))

\* A call in flight: how far it got, for which ids and wallet, and the ids
\* whose games it still has to read; while there are any it is reading.
Idle == [pc |-> "idle"]
CallRecord == [pc : {"reading", "checked", "visiting", "resolved"},
               batch : Batch, todo : SUBSET Games, wallet : Wallets]
Call == {r \in CallRecord : r.pc = "reading" <=> r.todo # {}}

\* The status in which a game may be reserved.
Phase == IF kind = "reveal" THEN WaitingForOpenBids ELSE Ended

MaxPerWallet == IF kind = "reveal" THEN MaxReveals ELSE MaxClaims

IndexHasRoom(t, w, b) == \A g \in Games : t.idx[w][g] + b[g] <= IndexBound

Returns(c) == calls' = [calls EXCEPT ![c] = Idle]
=============================================================================
