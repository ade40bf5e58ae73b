----------------------------- MODULE GameStore ------------------------------
(***************************************************************************)
(* The tables games, game_events and users, and the statements the event   *)
(* handlers run on them.  The two players of a game are called one and     *)
(* two; what a game adds to the counters of its players is kept per game.  *)
(* An event row is identified by its transaction, the event type and the   *)
(* game being functions of it.  Amounts, hashes and times are left out;    *)
(* referrers are never stored by any handler.                              *)
(***************************************************************************)
EXTENDS GameEntity

CONSTANT Games

Players == {"one", "two"}
Nobody == "nobody"

Counters == [played : Nat, wins : Nat, losses : Nat]

Game == [status   : GameStatus,
         two      : BOOLEAN,              \* player_two_address is set
         revealed : SUBSET Players,       \* choices other than CLOSED
         winner   : Players \cup {Nobody}]

NoGame == [status |-> NotCreated, two |-> FALSE, revealed |-> {}, winner |-> Nobody]

Database == [games : [Games -> Game],
             rows  : SUBSET Nat,                       \* game_events
             users : [Games -> SUBSET Players],        \* players with a users row
             stats : [Games -> [Players -> Counters]]]

Zero == [played |-> 0, wins |-> 0, losses |-> 0]

EmptyDatabase ==
    [games |-> [g \in Games |-> NoGame],
     rows  |-> {},
     users |-> [g \in Games |-> {}],
     stats |-> [g \in Games |-> [p \in Players |-> Zero]]]

Exists(db, g) == db.games[g].status # NotCreated

\* ON CONFLICT (wallet_address) DO NOTHING
EnsureUserByWallet(db, g, p) == [db EXCEPT !.users[g] = @ \cup {p}]

\* Mutant: ON CONFLICT DO UPDATE.
CreateOrReplace(db, g) == [db EXCEPT !.games[g].status = WaitingForOpponent]

\* ON CONFLICT (game_id) DO NOTHING
CreateOrIgnore(db, g) ==
    IF Exists(db, g) THEN db ELSE [db EXCEPT !.games[g].status = WaitingForOpponent]

\* ON CONFLICT ON CONSTRAINT unique_event_per_tx DO NOTHING
Upsert(db, tx) == [db EXCEPT !.rows = @ \cup {tx}]

\* No look at the current status; both choices are closed again.
JoinGame(db, g) ==
    [db EXCEPT !.games[g].two = TRUE,
               !.games[g].status = WaitingForOpenBids,
               !.games[g].revealed = {}]

InGame(db, g, p) == p = "one" \/ db.games[g].two

RevealChoice(db, g, p) == [db EXCEPT !.games[g].revealed = @ \cup {p}]

CompleteGame(db, g, winner) ==
    [db EXCEPT !.games[g].winner = winner, !.games[g].status = Paid]

CancelGame(db, g) ==
    [db EXCEPT !.games[g].winner = Nobody, !.games[g].status = Paid]

\* One UPDATE of users; a player without a row is updated by none.
Increment(db, g, p, counter) ==
    IF p \in db.users[g] THEN [db EXCEPT !.stats[g][p][counter] = @ + 1] ELSE db

IncrementGamesPlayed(db, g, p) == Increment(db, g, p, "played")
IncrementWins(db, g, p) == Increment(db, g, p, "wins")
IncrementLosses(db, g, p) == Increment(db, g, p, "losses")
=============================================================================
