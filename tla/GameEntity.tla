----------------------------- MODULE GameEntity -----------------------------
(***************************************************************************)
(* entity.Game: the status of a game row.                                  *)
(***************************************************************************)
EXTENDS Naturals

\* entity.GameStatus*: 0 is "no row yet"; 3 (ended) is written by no handler.
NotCreated == 0
WaitingForOpponent == 1
WaitingForOpenBids == 2
Ended == 3
Paid == 4
GameStatus == {NotCreated, WaitingForOpponent, WaitingForOpenBids, Ended, Paid}
=============================================================================
