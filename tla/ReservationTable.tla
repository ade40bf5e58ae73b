-------------------------- MODULE ReservationTable --------------------------
(***************************************************************************)
(* The in-memory lock table shared by the four advisory reservations of    *)
(* the backend (join, cancel, reveal, expired-claim): a map from game to   *)
(* reservation and an index from wallet to the games it reserved.          *)
(*                                                                         *)
(* A reservation keeps the number of clock ticks left until                *)
(* time.Now().After(ExpiresAt) instead of the two timestamps: ttl = 0 is   *)
(* "expired".  The wallet index is a Go slice; its order is never          *)
(* observable (lists are sorted by creation time, counting and removal of  *)
(* the first occurrence do not depend on it), so it is kept as the number  *)
(* of occurrences of every game.  Wallets are compared after               *)
(* normalisation everywhere, so a Wallet stands for a normalised address.  *)
(***************************************************************************)
EXTENDS Naturals, FiniteSets

CONSTANTS Games,     \* game identifiers
          Wallets,   \* normalised wallet addresses
          NoWallet   \* holder of an entry that is not in the map

ASSUME NoWalletAssumption == NoWallet \notin Wallets
ASSUME GamesAssumption == IsFiniteSet(Games)

ReservationStatus == {"absent", "active", "released", "expired"}

Reservation == [status : ReservationStatus,
                holder : Wallets \cup {NoWallet},
                ttl    : Nat]

Absent == [status |-> "absent", holder |-> NoWallet, ttl |-> 0]

Table == [res : [Games -> Reservation],
          idx : [Wallets -> [Games -> Nat]]]

EmptyTable == [res |-> [g \in Games |-> Absent],
               idx |-> [w \in Wallets |-> [g \in Games |-> 0]]]

\* Mutant: reservations never expire.
NeverExpires(r) == FALSE

IsExpired(r) == r.ttl = 0

IsActive(r) == r.status = "active" /\ ~IsExpired(r)

ActiveGames(t) == {g \in Games : IsActive(t.res[g])}

\* The games a wallet really holds, whatever its index says.
HeldBy(t, w) == {g \in ActiveGames(t) : t.res[g].holder = w}

\* The occurrences of the games of S in a list that holds g count[g] times.
Slots(count, S) == UNION {{g} \X (1 .. count[g]) : g \in S}

\* What the Reserve loops count against the limit: every index entry whose
\* game has an active reservation; the holder is not looked at.
ActiveCount(t, w) == Cardinality(Slots(t.idx[w], ActiveGames(t)))

\* What ListByWallet collects under the read lock.
Listed(t, w) == {g \in ActiveGames(t) : t.idx[w][g] > 0}

\* One occurrence fewer of every game of S in the index of its holder.
RemoveFromWalletIndex(t, S) ==
    [w \in Wallets |-> [g \in Games |->
        IF g \in S /\ t.res[g].holder = w /\ t.idx[w][g] > 0
          THEN t.idx[w][g] - 1
          ELSE t.idx[w][g]]]

\* The list of games of one request: g occurs b[g] times in it.
Requested(b) == {g \in Games : b[g] > 0}

Once(g) == [h \in Games |-> IF h = g THEN 1 ELSE 0]

\* Mutant: the wallet index is forgotten.
StoreUnindexed(t, b, w, timeout) ==
    [res |-> [g \in Games |->
                IF g \in Requested(b)
                  THEN [status |-> "active", holder |-> w, ttl |-> timeout]
                  ELSE t.res[g]],
     idx |-> t.idx]

\* A fresh reservation for every requested game; what the map held before is
\* lost, its index entry is not.
Store(t, b, w, timeout) ==
    [res |-> [g \in Games |->
                IF g \in Requested(b)
                  THEN [status |-> "active", holder |-> w, ttl |-> timeout]
                  ELSE t.res[g]],
     idx |-> [t.idx EXCEPT ![w] = [g \in Games |-> @[g] + b[g]]]]

\* The entry stays in the map with status released until the next cleanup.
Release(t, g) ==
    [res |-> [t.res EXCEPT ![g].status = "released"],
     idx |-> RemoveFromWalletIndex(t, {g})]

\* The entry leaves the map.
Delete(t, g) ==
    [res |-> [t.res EXCEPT ![g] = Absent],
     idx |-> RemoveFromWalletIndex(t, {g})]

\* A clock tick.
Aged(t) ==
    [res |-> [g \in Games |-> [t.res[g] EXCEPT !.ttl = IF @ > 0 THEN @ - 1 ELSE 0]],
     idx |-> t.idx]

\* Entries that stop being active with the next tick.
Expiring(t) == {g \in ActiveGames(t) : t.res[g].ttl = 1}

\* Entries the cleanup loop sees as active-but-expired.
Overdue(t) == {g \in Games : t.res[g].status = "active" /\ IsExpired(t.res[g])}

\* Mutant: cleanup forgets the released entries.
SettledExpiredOnly(t) == {g \in Games : t.res[g].status = "expired"}

\* Entries that were released and are still in the map.
Settled(t) == {g \in Games : t.res[g].status \in {"released", "expired"}}

\* The effect of a cleanup pass: the games of expired leave the index and the
\* map, the games of dropped leave the map only.
Swept(t, expired, dropped) ==
    [res |-> [g \in Games |->
                IF g \in expired \cup dropped THEN Absent ELSE t.res[g]],
     idx |-> RemoveFromWalletIndex(t, expired)]
-----------------------------------------------------------------------------
\* What the operations above preserve: an entry of the map has a holder, and an
\* active one is in the index of its holder.
Sound(t) ==
    \A g \in Games :
        t.res[g].status # "absent" =>
            /\ t.res[g].holder \in Wallets
            /\ IsActive(t.res[g]) => t.idx[t.res[g].holder][g] > 0

Limited(t, max) == \A w \in Wallets : Cardinality(HeldBy(t, w)) <= max

\* From t to u reservations only end; none is created or changes hands.
Shrinks(t, u) ==
    \A g \in ActiveGames(u) : g \in ActiveGames(t) /\ u.res[g].holder = t.res[g].holder
=============================================================================
