----------------------------- MODULE LobbyState -----------------------------
(***************************************************************************)
(* The state the lobby coordination works on: the stored status of every   *)
(* game, the join and the cancel reservation table, the REST calls in      *)
(* flight on each, and the releases the event handler still has to make.   *)
(* The two tables have a mutex each; a call that looks at the database or  *)
(* at the other table does so before it takes its own mutex.               *)
(***************************************************************************)
EXTENDS ReservationTable, GameEntity, Sequences

CONSTANTS Creator,        \* player one of every game
          JoinTimeout, MaxJoins,       \* config of the join reservations
          CancelTimeout, MaxCancels,   \* config of the cancel reservations
          JoinCalls, CancelCalls,      \* identities of concurrent REST calls
          IndexBound                   \* bound: occurrences of a game in an index

ASSUME LobbyAssumption ==
    /\ Creator \in [Games -> Wallets]
    /\ JoinTimeout \in Nat \ {0} /\ MaxJoins \in Nat \ {0}
    /\ CancelTimeout \in Nat \ {0} /\ MaxCancels \in Nat \ {0}
    /\ IndexBound \in Nat

VARIABLES status,       \* games.status as stored in the database
          joins,        \* ReservationUseCase: reservations and wallet index
          joinCalls,    \* Reserve / ListByWallet calls on joins
          cancels,      \* CancelReservationUseCase
          cancelCalls,  \* Reserve / ListByWallet calls on cancels
          releases      \* releases left in the running event handler

lobbyVars == <<status, joins, joinCalls, cancels, cancelCalls, releases>>

\* A call in flight: how far it got, for which game and wallet.
Idle == [pc |-> "idle"]
Call == [pc : {"gameRead", "peerChecked", "listed"}, game : Games, wallet : Wallets]
InFlight(pc, g, w) == [pc |-> pc, game |-> g, wallet |-> w]

\* A release the event handler calls on one of the tables.
LobbyRelease == [table : {"join", "cancel"}, game : Games]

\* The bound on the wallet index, which the code lets grow.
IndexHasRoom(t, w, g) == t.idx[w][g] < IndexBound
=============================================================================
