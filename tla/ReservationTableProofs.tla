----------------------- MODULE ReservationTableProofs -----------------------
(***************************************************************************)
(* Lemmas about the operations of a reservation table, for tables of any   *)
(* size: each keeps the table well-typed and sound, and all but Store only *)
(* end reservations.                                                       *)
(***************************************************************************)
EXTENDS ReservationTable, FiniteSetTheorems, TLAPS

\* The index of a wallet is a finite list.
LEMMA SlotsFinite ==
    ASSUME NEW count \in [Games -> Nat], NEW S \in SUBSET Games
    PROVE  IsFiniteSet(Slots(count, S))
<1> DEFINE F == {{g} \X (1 .. count[g]) : g \in S}
<1>1. IsFiniteSet(S)
  BY GamesAssumption, FS_Subset
<1>2. IsFiniteSet(F)
  <2> DEFINE f == [g \in S |-> {g} \X (1 .. count[g])]
  <2>1. f \in Surjection(S, F)
    BY DEF Surjection
  <2>. QED  BY <1>1, <2>1, FS_Surjection
<1>3. ASSUME NEW T \in F PROVE IsFiniteSet(T)
  <2>1. PICK g \in S : T = {g} \X (1 .. count[g])
    OBVIOUS
  <2>2. IsFiniteSet({g}) /\ IsFiniteSet(1 .. count[g])
    <3>1. 1 \in Int /\ count[g] \in Int
      OBVIOUS
    <3>. QED  BY <3>1, FS_Singleton, FS_Interval
  <2>. QED  BY <2>1, <2>2, FS_Product
<1>. QED  BY <1>2, <1>3, FS_UNION DEF Slots

\* A set of games that all occur in a list is not larger than the list.
LEMMA OccurringAtMostSlots ==
    ASSUME NEW count \in [Games -> Nat], NEW S \in SUBSET Games,
           NEW H \in SUBSET S, \A g \in H : count[g] > 0
    PROVE  /\ IsFiniteSet(H)
           /\ Cardinality(H) <= Cardinality(Slots(count, S))
<1> DEFINE f == [g \in H |-> <<g, 1>>]
<1>1. f \in Injection(H, Slots(count, S))
  <2>1. ASSUME NEW g \in H PROVE f[g] \in Slots(count, S)
    <3>1. <<g, 1>> \in {g} \X (1 .. count[g])
      OBVIOUS
    <3>. QED  BY <3>1 DEF Slots
  <2>. QED  BY <2>1 DEF Injection, IsInjective
<1>. QED  BY <1>1, SlotsFinite, FS_Injection

\* Reserve never undercounts: the games a wallet holds are at most the index
\* entries its loop counts.
LEMMA HeldAtMostCounted ==
    ASSUME NEW t \in Table, Sound(t), NEW w \in Wallets
    PROVE  /\ IsFiniteSet(HeldBy(t, w))
           /\ Cardinality(HeldBy(t, w)) <= ActiveCount(t, w)
<1>1. ActiveGames(t) \in SUBSET Games /\ HeldBy(t, w) \in SUBSET ActiveGames(t)
  BY DEF ActiveGames, HeldBy
<1>2. t.idx[w] \in [Games -> Nat]
  BY DEF Table
<1>3. \A g \in HeldBy(t, w) : t.idx[w][g] > 0
  BY <1>1 DEF HeldBy, Sound, ActiveGames, IsActive
<1>. QED  BY <1>1, <1>2, <1>3, OccurringAtMostSlots DEF ActiveCount

\* Removing index entries keeps the index well-typed.
LEMMA RemoveType ==
    ASSUME NEW t \in Table, NEW S
    PROVE  RemoveFromWalletIndex(t, S) \in [Wallets -> [Games -> Nat]]
BY DEF RemoveFromWalletIndex, Table

\* The empty table of a fresh process.
LEMMA EmptyTableOK ==
    EmptyTable \in Table /\ Sound(EmptyTable) /\ ActiveGames(EmptyTable) = {}
BY DEF EmptyTable, Table, Sound, Absent, Reservation, ReservationStatus,
       ActiveGames, IsActive

\* Reservations that only end cannot exceed a limit that was respected.
LEMMA ShrinkKeepsLimit ==
    ASSUME NEW t \in Table, NEW u \in Table, Shrinks(t, u),
           NEW max \in Nat, Limited(t, max)
    PROVE  Limited(u, max)
<1> SUFFICES ASSUME NEW w \in Wallets
             PROVE  Cardinality(HeldBy(u, w)) <= max
  BY DEF Limited
<1>1. HeldBy(u, w) \in SUBSET HeldBy(t, w)
  BY DEF HeldBy, Shrinks
<1>2. IsFiniteSet(HeldBy(t, w))
  BY GamesAssumption, FS_Subset DEF HeldBy, ActiveGames
<1>3. /\ Cardinality(HeldBy(u, w)) <= Cardinality(HeldBy(t, w))
      /\ IsFiniteSet(HeldBy(u, w))
  BY <1>1, <1>2, FS_Subset
<1>4. Cardinality(HeldBy(u, w)) \in Nat /\ Cardinality(HeldBy(t, w)) \in Nat
  BY <1>2, <1>3, FS_CardinalityType
<1>. QED  BY <1>3, <1>4 DEF Limited

\* Reserve (and the batch of ReserveBatch): a reservation for every requested
\* game, each with an index entry.
LEMMA StoreOK ==
    ASSUME NEW t \in Table, Sound(t), NEW w \in Wallets,
           NEW b \in [Games -> Nat], NEW timeout \in Nat
    PROVE  Store(t, b, w, timeout) \in Table /\ Sound(Store(t, b, w, timeout))
<1> DEFINE u == Store(t, b, w, timeout)
<1>1. u.res \in [Games -> Reservation]
  BY DEF Store, Table, Reservation, ReservationStatus
<1>2. u.idx \in [Wallets -> [Games -> Nat]]
  BY DEF Store, Table
<1>3. u \in Table
  BY <1>1, <1>2 DEF Store, Table
<1>4. ASSUME NEW g \in Games, u.res[g].status # "absent"
      PROVE  /\ u.res[g].holder \in Wallets
             /\ IsActive(u.res[g]) => u.idx[u.res[g].holder][g] > 0
  <2>1. CASE g \in Requested(b)
    <3>1. u.res[g].holder = w /\ u.idx[w][g] = t.idx[w][g] + b[g]
      BY <2>1 DEF Store, Table
    <3>2. b[g] > 0 /\ b[g] \in Nat /\ t.idx[w][g] \in Nat
      BY <2>1 DEF Requested, Table
    <3>. QED  BY <3>1, <3>2
  <2>2. CASE g \notin Requested(b)
    <3>1. u.res[g] = t.res[g]
      BY <2>2 DEF Store
    <3>2. /\ t.res[g].holder \in Wallets
          /\ IsActive(t.res[g]) => t.idx[t.res[g].holder][g] > 0
      BY <1>4, <3>1 DEF Sound
    <3>3. \A v \in Wallets : u.idx[v][g] >= t.idx[v][g] /\ t.idx[v][g] \in Nat
                             /\ u.idx[v][g] \in Nat
      BY DEF Store, Table
    <3>. QED  BY <3>1, <3>2, <3>3
  <2>. QED  BY <2>1, <2>2
<1>. QED  BY <1>3, <1>4 DEF Sound

\* Store changes the holder of the requested games only.
LEMMA StoreHolds ==
    ASSUME NEW t \in Table, NEW w \in Wallets, NEW b \in [Games -> Nat],
           NEW timeout \in Nat \ {0}
    PROVE  /\ ActiveGames(Store(t, b, w, timeout)) = ActiveGames(t) \cup Requested(b)
           /\ \A g \in Games : Store(t, b, w, timeout).res[g].holder =
                 IF g \in Requested(b) THEN w ELSE t.res[g].holder
BY DEF Store, ActiveGames, IsActive, IsExpired, Requested

\* Reserve respects the limit: it refuses when the counted entries plus the
\* requested games exceed it, and it counts at least the games held.
LEMMA StoreKeepsLimit ==
    ASSUME NEW t \in Table, Sound(t), NEW w \in Wallets,
           NEW b \in [Games -> Nat], NEW timeout \in Nat \ {0},
           NEW max \in Nat, Limited(t, max),
           Cardinality(HeldBy(t, w) \cup Requested(b)) <= max
    PROVE  Limited(Store(t, b, w, timeout), max)
<1> DEFINE u == Store(t, b, w, timeout)
<1> SUFFICES ASSUME NEW v \in Wallets PROVE Cardinality(HeldBy(u, v)) <= max
  BY DEF Limited
<1>1. Requested(b) \in SUBSET Games /\ ActiveGames(t) \in SUBSET Games
  BY DEF Requested, ActiveGames
<1>2. CASE v = w
  <2>1. HeldBy(u, w) \subseteq HeldBy(t, w) \cup Requested(b)
    BY <1>1, StoreHolds DEF HeldBy
  <2>2. IsFiniteSet(HeldBy(t, w) \cup Requested(b))
    BY <1>1, GamesAssumption, FS_Subset DEF HeldBy
  <2>3. Cardinality(HeldBy(u, w)) <= Cardinality(HeldBy(t, w) \cup Requested(b))
        /\ IsFiniteSet(HeldBy(u, w))
    BY <2>1, <2>2, FS_Subset
  <2>4. /\ Cardinality(HeldBy(u, w)) \in Nat
        /\ Cardinality(HeldBy(t, w) \cup Requested(b)) \in Nat
    BY <2>2, <2>3, FS_CardinalityType
  <2>. QED  BY <1>2, <2>3, <2>4
<1>3. CASE v # w
  <2>1. HeldBy(u, v) \subseteq HeldBy(t, v)
    BY <1>1, <1>3, StoreHolds DEF HeldBy
  <2>2. IsFiniteSet(HeldBy(t, v))
    BY <1>1, GamesAssumption, FS_Subset DEF HeldBy
  <2>3. Cardinality(HeldBy(u, v)) <= Cardinality(HeldBy(t, v)) /\ IsFiniteSet(HeldBy(u, v))
    BY <2>1, <2>2, FS_Subset
  <2>4. Cardinality(HeldBy(u, v)) \in Nat /\ Cardinality(HeldBy(t, v)) \in Nat
    BY <2>2, <2>3, FS_CardinalityType
  <2>. QED  BY <2>3, <2>4 DEF Limited
<1>. QED  BY <1>2, <1>3

\* A single-game Reserve: fewer counted entries than the limit leave room.
LEMMA OnceKeepsLimit ==
    ASSUME NEW t \in Table, Sound(t), NEW w \in Wallets, NEW g \in Games,
           NEW timeout \in Nat \ {0}, NEW max \in Nat, Limited(t, max),
           ~(ActiveCount(t, w) >= max), ActiveCount(t, w) \in Nat
    PROVE  /\ Once(g) \in [Games -> Nat] /\ Requested(Once(g)) = {g}
           /\ Cardinality(HeldBy(t, w) \cup {g}) <= max
           /\ Limited(Store(t, Once(g), w, timeout), max)
<1>1. Once(g) \in [Games -> Nat] /\ Requested(Once(g)) = {g}
  BY DEF Once, Requested
<1>2. IsFiniteSet(HeldBy(t, w)) /\ Cardinality(HeldBy(t, w)) <= ActiveCount(t, w)
  BY HeldAtMostCounted
<1>3. Cardinality(HeldBy(t, w)) \in Nat
  BY <1>2, FS_CardinalityType
<1>4. Cardinality(HeldBy(t, w) \cup {g}) \in {Cardinality(HeldBy(t, w)), Cardinality(HeldBy(t, w)) + 1}
  BY <1>2, FS_AddElement
<1>5. Cardinality(HeldBy(t, w) \cup {g}) <= max
  BY <1>2, <1>3, <1>4
<1>. QED  BY <1>1, <1>5, StoreKeepsLimit

\* The number of counted entries is a number.
LEMMA ActiveCountType ==
    ASSUME NEW t \in Table, NEW w \in Wallets
    PROVE  ActiveCount(t, w) \in Nat
<1>1. t.idx[w] \in [Games -> Nat] /\ ActiveGames(t) \in SUBSET Games
  BY DEF Table, ActiveGames
<1>. QED  BY <1>1, SlotsFinite, FS_CardinalityType DEF ActiveCount

\* What Reserve found when it did not refuse wallet w.
Allowed(t, w, timeout, max) ==
    /\ t \in Table /\ Sound(t) /\ Limited(t, max)
    /\ timeout \in Nat \ {0} /\ max \in Nat
    /\ ~(ActiveCount(t, w) >= max)

\* What it leaves behind: table u, in which w holds g.
HeldIn(u, t, g, w, max) ==
    /\ u \in Table /\ Sound(u) /\ Limited(u, max)
    /\ Cardinality(HeldBy(t, w) \cup {g}) <= max
    /\ ActiveGames(u) = ActiveGames(t) \cup {g}
    /\ \A h \in Games : u.res[h].holder = IF h = g THEN w ELSE t.res[h].holder

\* A single reservation a limit allows: the table stays well formed and within the
\* limit, the game becomes active and its holder is the wallet that asked.
LEMMA OnceStored ==
    ASSUME NEW t, NEW w \in Wallets, NEW g \in Games, NEW timeout, NEW max,
           Allowed(t, w, timeout, max)
    PROVE  HeldIn(Store(t, Once(g), w, timeout), t, g, w, max)
<1>0. PICK u : u = Store(t, Once(g), w, timeout)
  OBVIOUS
<1>a. /\ t \in Table /\ Sound(t) /\ Limited(t, max) /\ timeout \in Nat \ {0} /\ max \in Nat
      /\ ~(ActiveCount(t, w) >= max)
  BY DEF Allowed
<1>1. ActiveCount(t, w) \in Nat
  BY <1>a, ActiveCountType
<1>2. PICK b \in [Games -> Nat] : b = Once(g) /\ Requested(b) = {g}
  BY <1>a, <1>1, OnceKeepsLimit
<1>3. Cardinality(HeldBy(t, w) \cup {g}) <= max /\ Limited(u, max)
  BY <1>0, <1>a, <1>1, OnceKeepsLimit
<1>4. u \in Table /\ Sound(u)
  BY <1>0, <1>a, <1>2, StoreOK
<1>5. /\ ActiveGames(u) = ActiveGames(t) \cup Requested(b)
      /\ \A h \in Games : u.res[h].holder = IF h \in Requested(b) THEN w ELSE t.res[h].holder
  BY <1>0, <1>a, <1>2, StoreHolds
<1>6. HeldIn(u, t, g, w, max)
  BY <1>2, <1>3, <1>4, <1>5 DEF HeldIn
<1>. QED  BY <1>0, <1>6

\* Cancel and ReleaseOnJoin of the join table.
LEMMA ReleaseOK ==
    ASSUME NEW t \in Table, Sound(t), NEW g \in Games, t.res[g].status # "absent"
    PROVE  Release(t, g) \in Table /\ Sound(Release(t, g)) /\ Shrinks(t, Release(t, g))
<1>1. Release(t, g) \in Table
  <2>1. [t.res EXCEPT ![g].status = "released"] \in [Games -> Reservation]
    BY DEF Table, Reservation, ReservationStatus
  <2>. QED  BY <2>1, RemoveType DEF Release, Table
<1>2. \A h \in Games : /\ h # g => Release(t, g).res[h] = t.res[h]
                       /\ h # g => \A w \in Wallets : Release(t, g).idx[w][h] = t.idx[w][h]
                       /\ ~IsActive(Release(t, g).res[g])
                       /\ Release(t, g).res[g].holder = t.res[g].holder
  BY DEF Release, RemoveFromWalletIndex, IsActive, Table, Reservation
<1>3. Sound(Release(t, g))
  BY <1>2 DEF Sound
<1>4. Shrinks(t, Release(t, g))
  BY <1>2 DEF Shrinks, ActiveGames
<1>. QED  BY <1>1, <1>3, <1>4

\* Cancel, ReleaseOnUnavailable and releaseStaleReservation.
LEMMA DeleteOK ==
    ASSUME NEW t \in Table, Sound(t), NEW g \in Games
    PROVE  Delete(t, g) \in Table /\ Sound(Delete(t, g)) /\ Shrinks(t, Delete(t, g))
<1>1. Delete(t, g) \in Table
  <2>1. [t.res EXCEPT ![g] = Absent] \in [Games -> Reservation]
    BY DEF Table, Reservation, ReservationStatus, Absent
  <2>. QED  BY <2>1, RemoveType DEF Delete, Table
<1>2. \A h \in Games : /\ h # g => Delete(t, g).res[h] = t.res[h]
                       /\ h # g => \A w \in Wallets : Delete(t, g).idx[w][h] = t.idx[w][h]
                       /\ ~IsActive(Delete(t, g).res[g])
                       /\ Delete(t, g).res[g].status = "absent"
  BY DEF Delete, RemoveFromWalletIndex, IsActive, Table, Absent
<1>3. Sound(Delete(t, g))
  BY <1>2 DEF Sound
<1>4. Shrinks(t, Delete(t, g))
  BY <1>2 DEF Shrinks, ActiveGames
<1>. QED  BY <1>1, <1>3, <1>4

\* The passing of time.
LEMMA AgedOK ==
    ASSUME NEW t \in Table, Sound(t)
    PROVE  Aged(t) \in Table /\ Sound(Aged(t)) /\ Shrinks(t, Aged(t))
<1>1. Aged(t).idx = t.idx /\ DOMAIN Aged(t).res = Games
  BY DEF Aged, Table
<1>2. \A g \in Games : /\ Aged(t).res[g] \in Reservation
                       /\ Aged(t).res[g].status = t.res[g].status
                       /\ Aged(t).res[g].holder = t.res[g].holder
                       /\ IsActive(Aged(t).res[g]) => IsActive(t.res[g])
  BY DEF Aged, Table, Reservation, IsActive, IsExpired
<1>3. Aged(t) \in Table
  <2>1. Aged(t).res \in [Games -> Reservation]
    BY <1>2 DEF Aged, Table
  <2>2. t.idx \in [Wallets -> [Games -> Nat]]
    BY DEF Table
  <2>. QED  BY <2>1, <2>2 DEF Table, Aged
<1>4. Sound(Aged(t))
  BY <1>1, <1>2 DEF Sound
<1>5. Shrinks(t, Aged(t))
  BY <1>2 DEF Shrinks, ActiveGames
<1>. QED  BY <1>3, <1>4, <1>5

\* A cleanup pass.
LEMMA SweptOK ==
    ASSUME NEW t \in Table, Sound(t), NEW expired, NEW dropped
    PROVE  /\ Swept(t, expired, dropped) \in Table
           /\ Sound(Swept(t, expired, dropped))
           /\ Shrinks(t, Swept(t, expired, dropped))
<1> DEFINE u == Swept(t, expired, dropped)
<1>1. u \in Table
  <2>1. u.res \in [Games -> Reservation]
    BY DEF Swept, Table, Reservation, ReservationStatus, Absent
  <2>. QED  BY <2>1, RemoveType DEF Swept, Table
<1>2. \A g \in Games : g \in expired \cup dropped => u.res[g] = Absent
  BY DEF Swept
<1>3. \A g \in Games : g \notin expired \cup dropped =>
          u.res[g] = t.res[g] /\ \A w \in Wallets : u.idx[w][g] = t.idx[w][g]
  BY DEF Swept, RemoveFromWalletIndex
<1>4. Absent.status = "absent" /\ ~IsActive(Absent)
  BY DEF Absent, IsActive
<1>5. Sound(u)
  BY <1>2, <1>3, <1>4 DEF Sound
<1>6. Shrinks(t, u)
  BY <1>2, <1>3, <1>4 DEF Shrinks, ActiveGames
<1>. QED  BY <1>1, <1>5, <1>6

\* A table that does not change is one that shrinks trivially.
LEMMA ShrinksRefl == \A t : Shrinks(t, t)
BY DEF Shrinks

\* A cleanup pass during which the clock ticks.
LEMMA SweptAgedOK ==
    ASSUME NEW t \in Table, Sound(t), NEW expired, NEW dropped
    PROVE  /\ Swept(Aged(t), expired, dropped) \in Table
           /\ Sound(Swept(Aged(t), expired, dropped))
           /\ Shrinks(t, Swept(Aged(t), expired, dropped))
<1>1. Aged(t) \in Table /\ Sound(Aged(t)) /\ Shrinks(t, Aged(t))
  BY AgedOK
<1>2. /\ Swept(Aged(t), expired, dropped) \in Table
      /\ Sound(Swept(Aged(t), expired, dropped))
      /\ Shrinks(Aged(t), Swept(Aged(t), expired, dropped))
  BY <1>1, SweptOK
<1>. QED  BY <1>1, <1>2 DEF Shrinks
=============================================================================
