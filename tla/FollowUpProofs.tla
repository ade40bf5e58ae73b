--------------------------- MODULE FollowUpProofs ----------------------------
(***************************************************************************)
(* Reveal reservations and expired-follow-up claims for any number of      *)
(* games, wallets, calls, batch sizes and any limits: type correctness,    *)
(* the wallet limit, who may hold a reservation, that both tables          *)
(* implement an exclusive lease, and why a reservation may end.            *)
(***************************************************************************)
EXTENDS FollowUp, ReservationTableProofs

\* The limit alone is not inductive: the locked section counts through the
\* index, so the index has to cover what is held (Sound), and the rows are read
\* before the lock is taken, so a call keeps what its reads established for the
\* games it has read so far.
PlayersChecked ==
    \A c \in Calls : calls[c].pc \in {"reading", "checked"} =>
        \A g \in Requested(calls[c].batch) \ calls[c].todo : calls[c].wallet \in Players[g]

\* A request names at least one game, one for a claim exactly one.
BatchesAsked ==
    \A c \in Calls : calls[c].pc \in {"reading", "checked"} =>
        /\ Requested(calls[c].batch) # {}
        /\ kind = "claim" => \E g \in Games : calls[c].batch = Once(g)

IInv ==
    /\ TypeOK
    /\ Sound(locks)
    /\ WithinLimit
    /\ PlayersChecked
    /\ BatchesAsked
    /\ HeldByPlayers

\* How a step may change the table: reservations end, or one call stores a
\* batch of free games that its wallet plays within the limit.
Stores(b, w, timeout) ==
    /\ Requested(b) # {}
    /\ \A g \in Requested(b) : ~IsActive(locks.res[g]) /\ w \in Players[g]
    /\ Cardinality(HeldBy(locks, w) \cup Requested(b)) <= MaxPerWallet
    /\ locks' = Store(locks, b, w, timeout)

TableStep ==
    \/ locks' \in Table /\ Sound(locks') /\ Shrinks(locks, locks')
    \/ \E b \in Batch, w \in Wallets, timeout \in Nat \ {0} : Stores(b, w, timeout)

\* The rest of the state.
CallsOK ==
    /\ kind' = kind
    /\ status' \in [Games -> GameStatus]
    /\ calls' \in [Calls -> {Idle} \cup Call]
    /\ releases' \in Seq(Games)
    /\ PlayersChecked'
    /\ BatchesAsked'

\* A table that does not change is one that shrinks trivially.
LEMMA Unchanged == ASSUME IInv, locks' = locks PROVE TableStep
BY DEF TableStep, Shrinks, IInv, TypeOK

\* A batch is counted with its repetitions, so its games are at most as many as
\* its ids.
LEMMA RequestedAtMostLen ==
    ASSUME NEW b \in Batch
    PROVE  /\ IsFiniteSet(Requested(b))
           /\ Cardinality(Requested(b)) <= BatchLen(b)
           /\ BatchLen(b) \in Nat
<1>1. Requested(b) \in SUBSET Games /\ \A g \in Requested(b) : b[g] > 0
  BY DEF Requested
<1>2. b \in [Games -> Nat] /\ Games \in SUBSET Games
  BY DEF Batch
<1>3. IsFiniteSet(Slots(b, Games))
  BY <1>2, SlotsFinite
<1>. QED  BY <1>1, <1>2, <1>3, OccurringAtMostSlots, FS_CardinalityType DEF BatchLen

\* A request with an id in it names a game.
LEMMA AskedIfLong ==
    ASSUME NEW b \in Batch, BatchLen(b) # 0
    PROVE  Requested(b) # {}
<1> SUFFICES ASSUME Requested(b) = {} PROVE BatchLen(b) = 0
  OBVIOUS
<1>1. \A g \in Games : b[g] = 0
  BY DEF Requested, Batch
<1>2. \A g \in Games : 1 .. b[g] = {}
  BY <1>1
<1>3. \A g \in Games : {g} \X (1 .. b[g]) = {}
  BY <1>2
<1>4. Slots(b, Games) = {}
  BY <1>3 DEF Slots
<1>. QED  BY <1>4, FS_EmptySet DEF BatchLen

\* What the locked sections let through is within the limit and free.
LEMMA RevealWithinLimit ==
    ASSUME IInv, NEW b \in Batch, NEW w \in Wallets, kind = "reveal", ~RevealRefused(b, w)
    PROVE  /\ Cardinality(HeldBy(locks, w) \cup Requested(b)) <= MaxPerWallet
           /\ \A g \in Requested(b) : ~IsActive(locks.res[g])
<1> DEFINE H == HeldBy(locks, w)
           R == Requested(b)
<1>0. locks \in Table /\ Sound(locks)
  BY DEF IInv, TypeOK
<1>1. /\ IsFiniteSet(H) /\ Cardinality(H) <= ActiveCount(locks, w)
      /\ ActiveCount(locks, w) \in Nat
  BY <1>0, HeldAtMostCounted, ActiveCountType
<1>2. IsFiniteSet(R) /\ Cardinality(R) <= BatchLen(b) /\ BatchLen(b) \in Nat
  BY RequestedAtMostLen
<1>3. /\ Cardinality(H) \in Nat /\ Cardinality(R) \in Nat
      /\ IsFiniteSet(H \cap R) /\ Cardinality(H \cap R) \in Nat
  BY <1>1, <1>2, FS_CardinalityType, FS_Intersection
<1>4. Cardinality(H \cup R) = Cardinality(H) + Cardinality(R) - Cardinality(H \cap R)
  BY <1>1, <1>2, FS_Union
<1>5. ~(ActiveCount(locks, w) + BatchLen(b) > MaxReveals) /\ MaxReveals \in Nat
  BY FollowUpAssumption DEF RevealRefused
<1>6. Cardinality(H \cup R) <= MaxReveals
  <2> HIDE DEF H, R
  <2>. QED  BY <1>1, <1>2, <1>3, <1>4, <1>5
<1>. QED  BY <1>6 DEF RevealRefused, MaxPerWallet

\* The same of claims.
LEMMA ClaimWithinLimit ==
    ASSUME IInv, NEW g \in Games, NEW w \in Wallets, kind = "claim", ~ClaimRefused(Once(g), w)
    PROVE  /\ Cardinality(HeldBy(locks, w) \cup Requested(Once(g))) <= MaxPerWallet
           /\ \A h \in Requested(Once(g)) : ~IsActive(locks.res[h])
<1>0. locks \in Table /\ Sound(locks) /\ Limited(locks, MaxClaims)
  BY DEF IInv, TypeOK, WithinLimit, MaxPerWallet
<1>1. ActiveCount(locks, w) \in Nat /\ ~(ActiveCount(locks, w) >= MaxClaims)
  BY <1>0, ActiveCountType DEF ClaimRefused
<1>2. /\ Requested(Once(g)) = {g}
      /\ Cardinality(HeldBy(locks, w) \cup {g}) <= MaxClaims
  BY <1>0, <1>1, OnceKeepsLimit, FollowUpAssumption
<1>. QED  BY <1>2 DEF ClaimRefused, MaxPerWallet

\* Every action is a step of the table in that sense.
LEMMA StepShape ==
    ASSUME IInv, Next
    PROVE  TableStep /\ CallsOK
<1> USE FollowUpAssumption DEF IInv, TypeOK
<1>i. Idle.pc = "idle"
  BY DEF Idle
<1>k. \A r \in Call : /\ r.pc \in {"reading", "checked", "visiting", "resolved"}
                      /\ r.batch \in Batch /\ r.todo \in SUBSET Games /\ r.wallet \in Wallets
                      /\ r.pc = "reading" <=> r.todo # {}
  BY DEF Call, CallRecord
<1>o. \A g \in Games : Once(g) \in Batch /\ Requested(Once(g)) = {g}
  BY DEF Once, Batch, Requested
<1>r. ASSUME NEW c \in Calls, Returns(c), RevealFrame
      PROVE  CallsOK
  BY <1>r, <1>i DEF Returns, RevealFrame, CallsOK, PlayersChecked, BatchesAsked
<1>1. CASE RevealStep
  <2>1. ASSUME NEW c \in RevealCalls, NEW b \in [Games -> 0 .. MaxBatch], NEW w \in Wallets,
               RevealReserve(c, b, w)
        PROVE  TableStep /\ CallsOK
    <3>1. b \in Batch /\ Requested(b) # {} /\ Requested(b) \in SUBSET Games
      <4>1. b \in Batch
        BY DEF Batch
      <4>2. BatchLen(b) # 0
        BY <2>1 DEF RevealReserve
      <4>. QED  BY <4>1, <4>2, AskedIfLong DEF Requested
    <3>2. [pc |-> "reading", batch |-> b, todo |-> Requested(b), wallet |-> w] \in Call
      BY <3>1 DEF Call, CallRecord
    <3>3. CallsOK
      BY <2>1, <3>1, <3>2
         DEF RevealReserve, RevealFrame, CallsOK, PlayersChecked, BatchesAsked, Calls
    <3>. QED  BY <2>1, <3>3, Unchanged DEF RevealReserve
  <2>2. ASSUME NEW c \in RevealCalls, RevealPreflight(c)
        PROVE  TableStep /\ CallsOK
    <3>0. c \in Calls /\ calls[c] \in Call
      BY <2>2, <1>i DEF RevealPreflight, Calls
    <3>1. ASSUME NEW g \in calls[c].todo, RevealAllowed(g, calls[c].wallet),
                 calls' = [calls EXCEPT ![c].todo = @ \ {g},
                                        ![c].pc = IF calls[c].todo = {g} THEN "checked" ELSE @]
          PROVE  CallsOK
      <4>1. calls'[c] \in CallRecord /\ calls'[c].batch = calls[c].batch
            /\ calls'[c].wallet = calls[c].wallet /\ calls'[c].todo = calls[c].todo \ {g}
            /\ calls'[c].pc = IF calls[c].todo = {g} THEN "checked" ELSE calls[c].pc
        BY <3>0, <3>1 DEF Call, CallRecord
      <4>2. calls[c].pc = "reading"
        BY <2>2 DEF RevealPreflight
      <4>3. calls'[c].pc = "reading" <=> calls'[c].todo # {}
        <5>1. CASE calls[c].todo = {g}
          BY <4>1, <5>1
        <5>2. CASE calls[c].todo # {g}
          <6>1. \E h \in calls[c].todo : h # g
            BY <5>2, SMTT(30)
          <6>. QED  BY <4>1, <4>2, <5>2, <6>1
        <5>. QED  BY <5>1, <5>2
      <4>4. calls' \in [Calls -> {Idle} \cup Call]
        BY <3>0, <3>1, <4>1, <4>3 DEF Call
      <4>5. \A d \in Calls : d # c => calls'[d] = calls[d]
        BY <3>1
      <4>6. calls[c].wallet \in Players[g]
        BY <3>1 DEF RevealAllowed
      <4>7. PlayersChecked'
        BY <3>0, <4>1, <4>2, <4>5, <4>6 DEF PlayersChecked
      <4>8. BatchesAsked'
        BY <2>2, <3>0, <4>1, <4>2, <4>5 DEF BatchesAsked, RevealPreflight, RevealFrame
      <4>. QED  BY <2>2, <4>4, <4>7, <4>8, SMTT(30) DEF RevealPreflight, RevealFrame, CallsOK
    <3>2. CASE Returns(c)
      BY <2>2, <3>0, <3>2, <1>r, Unchanged DEF RevealPreflight
    <3>. QED  BY <2>2, <3>1, <3>2, Unchanged DEF RevealPreflight
  <2>3. ASSUME NEW c \in RevealCalls, RevealCommit(c)
        PROVE  TableStep /\ CallsOK
    <3>0. c \in Calls /\ calls[c] \in Call /\ calls[c].pc = "checked" /\ kind = "reveal"
      BY <2>3, <1>i DEF RevealCommit, Calls
    <3>1. CallsOK
      BY <2>3, <3>0, <1>r DEF RevealCommit
    <3>2. TableStep
      <4> DEFINE b == calls[c].batch
                 w == calls[c].wallet
      <4>1. b \in Batch /\ w \in Wallets /\ calls[c].todo = {}
        BY <3>0, <1>k
      <4>2. Requested(b) # {} /\ \A g \in Requested(b) : w \in Players[g]
        BY <3>0, <4>1 DEF PlayersChecked, BatchesAsked
      <4>3. CASE ~RevealRefused(b, w) /\ locks' = Store(locks, b, w, RevealTimeout)
        <5>1. Stores(b, w, RevealTimeout)
          BY <3>0, <4>1, <4>2, <4>3, RevealWithinLimit DEF Stores
        <5>. QED  BY <4>1, <5>1 DEF TableStep
      <4>. QED  BY <2>3, <4>3, Unchanged DEF RevealCommit
    <3>. QED  BY <3>1, <3>2
  <2>4. ASSUME NEW g \in Games, NEW w \in Wallets, RevealCancel(g, w)
        PROVE  TableStep /\ CallsOK
    <3>1. CallsOK
      BY <2>4 DEF RevealCancel, RevealFrame, CallsOK, PlayersChecked, BatchesAsked
    <3>2. TableStep
      BY <2>4, ReleaseOK DEF RevealCancel, TableStep, IsActive
    <3>. QED  BY <3>1, <3>2
  <2>. QED  BY <1>1, <2>1, <2>2, <2>3, <2>4 DEF RevealStep
<1>2. CASE ClaimStep
  <2>1. ASSUME NEW c \in ClaimCalls, NEW g \in Games, NEW w \in Wallets, ClaimRead(c, g, w)
        PROVE  TableStep /\ CallsOK
    <3>1. [pc |-> "checked", batch |-> Once(g), todo |-> {}, wallet |-> w] \in Call
      BY <1>o DEF Call, CallRecord
    <3>2. CallsOK
      <4>0. c \in Calls
        BY DEF Calls
      <4>1. /\ calls'[c] = [pc |-> "checked", batch |-> Once(g), todo |-> {}, wallet |-> w]
            /\ \A d \in Calls : d # c => calls'[d] = calls[d]
            /\ kind' = kind
        BY <2>1, <4>0 DEF ClaimRead, ClaimFrame
      <4>2. PlayersChecked'
        BY <2>1, <4>1, <1>o DEF PlayersChecked, ClaimRead
      <4>3. BatchesAsked'
        <5>1. ASSUME NEW d \in Calls, d # c, calls'[d].pc \in {"reading", "checked"}
              PROVE  /\ Requested(calls'[d].batch) # {}
                     /\ kind' = "claim" => \E h \in Games : calls'[d].batch = Once(h)
          BY <4>1, <5>1 DEF BatchesAsked
        <5>2. /\ Requested(calls'[c].batch) # {}
              /\ kind' = "claim" => \E h \in Games : calls'[c].batch = Once(h)
          <6>1. calls'[c].batch = Once(g)
            BY <4>1
          <6>. QED  BY <6>1, <1>o, Zenon
        <5>. QED  BY <5>1, <5>2 DEF BatchesAsked
      <4>. QED  BY <2>1, <3>1, <4>0, <4>2, <4>3 DEF ClaimRead, ClaimFrame, CallsOK
    <3>. QED  BY <2>1, <3>2, Unchanged DEF ClaimRead
  <2>2. ASSUME NEW c \in ClaimCalls, NEW g \in Games, ClaimPeek(c, g)
        PROVE  TableStep /\ CallsOK
    <3>1. locks.res[g].holder \in Wallets
      BY <2>2 DEF ClaimPeek, Sound, IsActive
    <3>2. [pc |-> "visiting", batch |-> Once(g), todo |-> {}, wallet |-> locks.res[g].holder]
              \in Call
      BY <3>1, <1>o DEF Call, CallRecord
    <3>3. CallsOK
      BY <2>2, <3>2, SMTT(30)
         DEF ClaimPeek, ClaimFrame, CallsOK, PlayersChecked, BatchesAsked, Calls
    <3>. QED  BY <2>2, <3>3, Unchanged DEF ClaimPeek
  <2>3. ASSUME NEW c \in ClaimCalls, ClaimCommit(c)
        PROVE  TableStep /\ CallsOK
    <3>0. c \in Calls /\ calls[c] \in Call /\ calls[c].pc = "checked" /\ kind = "claim"
      BY <2>3, <1>i DEF ClaimCommit, Calls
    <3>1. CallsOK
      BY <2>3, <3>0, <1>r DEF ClaimCommit, ClaimFrame, RevealFrame
    <3>2. TableStep
      <4> DEFINE b == calls[c].batch
                 w == calls[c].wallet
      <4>1. b \in Batch /\ w \in Wallets /\ calls[c].todo = {}
        BY <3>0, <1>k
      <4>2. Requested(b) # {} /\ \A g \in Requested(b) : w \in Players[g]
        BY <3>0, <4>1 DEF PlayersChecked, BatchesAsked
      <4>3. PICK g \in Games : b = Once(g)
        BY <3>0 DEF BatchesAsked
      <4>4. CASE ~ClaimRefused(b, w) /\ locks' = Store(locks, b, w, ClaimTimeout)
        <5>1. Stores(b, w, ClaimTimeout)
          BY <3>0, <4>1, <4>2, <4>3, <4>4, ClaimWithinLimit DEF Stores
        <5>. QED  BY <4>1, <5>1 DEF TableStep
      <4>. QED  BY <2>3, <4>4, Unchanged DEF ClaimCommit
    <3>. QED  BY <3>1, <3>2
  <2>4. ASSUME NEW c \in ClaimCalls, ClaimVisit(c)
        PROVE  TableStep /\ CallsOK
    <3>0. c \in Calls /\ calls[c] \in Call /\ calls[c].pc = "visiting"
      BY <2>4, <1>i DEF ClaimVisit, Calls
    <3>1. CASE Returns(c)
      BY <2>4, <3>0, <3>1, <1>r, Unchanged DEF ClaimVisit, ClaimFrame, RevealFrame
    <3>2. CASE calls' = [calls EXCEPT ![c].pc = "resolved"]
      <4>1. calls'[c] \in Call /\ calls'[c].pc = "resolved"
        BY <3>0, <3>2 DEF Call, CallRecord
      <4>2. CallsOK
        BY <2>4, <3>0, <3>2, <4>1
           DEF ClaimVisit, ClaimFrame, CallsOK, PlayersChecked, BatchesAsked
      <4>. QED  BY <2>4, <4>2, Unchanged DEF ClaimVisit
    <3>. QED  BY <2>4, <3>1, <3>2 DEF ClaimVisit
  <2>5. ASSUME NEW c \in ClaimCalls, ClaimResolve(c)
        PROVE  TableStep /\ CallsOK
    <3>0. c \in Calls
      BY DEF Calls
    <3>1. CallsOK
      BY <2>5, <3>0, <1>r DEF ClaimResolve, ClaimFrame, RevealFrame
    <3>2. PICK g \in Games : ReleaseOnResolved(g)
      BY <2>5 DEF ClaimResolve, Requested
    <3>3. TableStep
      BY <3>2, ReleaseOK, Unchanged DEF ReleaseOnResolved, TableStep, IsActive
    <3>. QED  BY <3>1, <3>3
  <2>6. ASSUME NEW g \in Games, NEW w \in Wallets, ClaimRelease(g, w)
        PROVE  TableStep /\ CallsOK
    <3>1. CallsOK
      BY <2>6 DEF ClaimRelease, ClaimFrame, CallsOK, PlayersChecked, BatchesAsked
    <3>2. TableStep
      BY <2>6, ReleaseOK DEF ClaimRelease, TableStep, IsActive
    <3>. QED  BY <3>1, <3>2
  <2>. QED  BY <1>2, <2>1, <2>2, <2>3, <2>4, <2>5, <2>6 DEF ClaimStep
<1>3. CASE EventStep
  <2>1. ASSUME NEW g \in Games, NEW from, NEW to \in GameStatus, NEW todo \in Seq(Games),
               Apply(g, from, to, todo)
        PROVE  TableStep /\ CallsOK
    BY <2>1, Unchanged DEF Apply, CallsOK, PlayersChecked, BatchesAsked
  <2>2. ASSUME NEW g \in Games,
               GameStarted(g) \/ SecretOpened(g) \/ GameFinished(g) \/ GameCancelled(g)
        PROVE  TableStep /\ CallsOK
    <3>1. /\ ReleaseClaim(g) \in Seq(Games) /\ ReleaseReveal(g) \in Seq(Games)
          /\ ReleaseReveal(g) \o ReleaseClaim(g) \in Seq(Games)
      BY DEF ReleaseClaim, ReleaseReveal
    <3>2. {WaitingForOpenBids, Paid, status[g]} \subseteq GameStatus
      BY DEF GameStatus
    <3>3. CASE GameStarted(g)
      BY <2>1, <3>1, <3>2, <3>3 DEF GameStarted
    <3>4. CASE SecretOpened(g)
      <4>1. PICK to \in GameStatus : to = status[g]
        OBVIOUS
      <4>2. Apply(g, {WaitingForOpenBids}, to, ReleaseClaim(g))
        BY <3>4, <4>1 DEF SecretOpened, Apply
      <4>. QED  BY <2>1, <3>1, <4>2
    <3>5. CASE GameFinished(g)
      BY <2>1, <3>1, <3>2, <3>5 DEF GameFinished
    <3>6. CASE GameCancelled(g)
      BY <2>1, <3>1, <3>2, <3>6 DEF GameCancelled
    <3>. QED  BY <2>2, <3>3, <3>4, <3>5, <3>6
  <2>3. ASSUME NEW g \in Games, UpdateStatus(g)
        PROVE  TableStep /\ CallsOK
    BY <2>3, Unchanged DEF UpdateStatus, CallsOK, PlayersChecked, BatchesAsked, GameStatus
  <2>4. CASE HandlerRelease
    <3>1. Head(releases) \in Games /\ releases' \in Seq(Games)
      BY <2>4 DEF HandlerRelease
    <3>2. CallsOK
      BY <2>4, <3>1 DEF HandlerRelease, CallsOK, PlayersChecked, BatchesAsked
    <3>3. PICK g \in Games : locks' = IF IsActive(locks.res[g]) THEN Release(locks, g) ELSE locks
      BY <2>4, <3>1 DEF HandlerRelease, ReleaseOnTerminal, ReleaseOnResolved
    <3>4. TableStep
      BY <3>3, ReleaseOK, Unchanged DEF TableStep, IsActive
    <3>. QED  BY <3>2, <3>4
  <2>. QED  BY <1>3, <2>2, <2>3, <2>4 DEF EventStep
<1>4. CASE Cleanup
  <2>1. CallsOK
    BY <1>4 DEF Cleanup, RevealCleanupExpired, ClaimCleanupExpired, RevealFrame, ClaimFrame,
                CallsOK, PlayersChecked, BatchesAsked
  <2>2. CASE locks' = Swept(locks, Overdue(locks), Settled(locks))
    BY <2>1, <2>2, SweptOK DEF TableStep
  <2>3. ASSUME NEW caught \in SUBSET Expiring(locks),
               NEW missed \in SUBSET (Expiring(locks) \ caught),
               locks' = Swept(Aged(locks), Overdue(locks) \cup caught, Settled(locks) \cup missed)
        PROVE  TableStep
    BY <2>3, SweptAgedOK DEF TableStep
  <2>. QED  BY <1>4, <2>1, <2>2, <2>3 DEF Cleanup, RevealCleanupExpired, ClaimCleanupExpired
<1>5. CASE Tick
  BY <1>5, AgedOK DEF Tick, TableStep, CallsOK, PlayersChecked, BatchesAsked
<1>6. CASE Restart
  <2>1. CallsOK
    BY <1>6, <1>i DEF Restart, CallsOK, PlayersChecked, BatchesAsked
  <2>2. TableStep
    BY <1>6, EmptyTableOK DEF Restart, TableStep, Shrinks
  <2>. QED  BY <2>1, <2>2
<1>. QED  BY <1>1, <1>2, <1>3, <1>4, <1>5, <1>6 DEF Next

\* The table keeps its type, soundness, limit and holders.
LEMMA TableKept ==
    ASSUME IInv, TableStep
    PROVE  /\ locks' \in Table /\ Sound(locks') /\ Limited(locks', MaxPerWallet)
           /\ \A g \in ActiveGames(locks') : locks'.res[g].holder \in Players[g]
<1> USE DEF IInv, TypeOK
<1>0. ActiveGames(locks) \subseteq Games
  BY DEF ActiveGames
<1>m. MaxPerWallet \in Nat
  BY FollowUpAssumption DEF MaxPerWallet
<1>1. CASE locks' \in Table /\ Sound(locks') /\ Shrinks(locks, locks')
  <2>1. Limited(locks', MaxPerWallet)
    BY <1>1, <1>m, ShrinkKeepsLimit DEF WithinLimit
  <2>2. \A g \in ActiveGames(locks') : locks'.res[g].holder \in Players[g]
    BY <1>1 DEF Shrinks, HeldByPlayers
  <2>. QED  BY <1>1, <2>1, <2>2
<1>2. ASSUME NEW b \in Batch, NEW w \in Wallets, NEW timeout \in Nat \ {0}, Stores(b, w, timeout)
      PROVE  /\ locks' \in Table /\ Sound(locks') /\ Limited(locks', MaxPerWallet)
             /\ \A g \in ActiveGames(locks') : locks'.res[g].holder \in Players[g]
  <2>0. b \in [Games -> Nat] /\ Requested(b) \subseteq Games
    BY DEF Batch, Requested
  <2>1. locks' \in Table /\ Sound(locks')
    BY <1>2, <2>0, StoreOK DEF Stores
  <2>2. Limited(locks', MaxPerWallet)
    BY <1>2, <1>m, <2>0, StoreKeepsLimit DEF Stores, WithinLimit
  <2>3. /\ ActiveGames(locks') = ActiveGames(locks) \cup Requested(b)
        /\ \A h \in Games : locks'.res[h].holder =
                              IF h \in Requested(b) THEN w ELSE locks.res[h].holder
    <3>1. locks' = Store(locks, b, w, timeout) /\ locks \in Table
      BY <1>2 DEF Stores
    <3>. QED  BY <2>0, <3>1, StoreHolds
  <2>4. \A g \in ActiveGames(locks') : locks'.res[g].holder \in Players[g]
    BY <1>0, <1>2, <2>0, <2>3 DEF Stores, HeldByPlayers
  <2>. QED  BY <2>1, <2>2, <2>4
<1>. QED  BY <1>1, <1>2 DEF TableStep

\* A fresh process satisfies the invariant.
LEMMA InitInv == Init => IInv
<1> SUFFICES ASSUME Init PROVE IInv
  OBVIOUS
<1> USE FollowUpAssumption DEF Init
<1>1. TypeOK
  BY EmptyTableOK DEF TypeOK, GameStatus
<1>2. WithinLimit
  <2>1. \A w \in Wallets : HeldBy(EmptyTable, w) = {}
    BY EmptyTableOK DEF HeldBy
  <2>2. Cardinality({}) = 0 /\ MaxPerWallet \in Nat
    BY FS_EmptySet DEF MaxPerWallet
  <2>3. \A w \in Wallets : Cardinality(HeldBy(EmptyTable, w)) = 0
    BY <2>1, <2>2
  <2>. QED  BY <2>2, <2>3 DEF WithinLimit, Limited
<1>3. PlayersChecked /\ BatchesAsked /\ HeldByPlayers
  BY EmptyTableOK DEF PlayersChecked, BatchesAsked, HeldByPlayers, Idle
<1>. QED  BY <1>1, <1>2, <1>3, EmptyTableOK DEF IInv

\* Every step preserves the invariant.
LEMMA NextInv == IInv /\ [Next]_followUpVars => IInv'
<1>1. ASSUME IInv, Next PROVE IInv'
  <2>1. TableStep /\ CallsOK
    BY <1>1, StepShape
  <2>2. /\ locks' \in Table /\ Sound(locks') /\ Limited(locks', MaxPerWallet)
        /\ \A g \in ActiveGames(locks') : locks'.res[g].holder \in Players[g]
    BY <1>1, <2>1, TableKept
  <2>3. MaxPerWallet' = MaxPerWallet
    BY <2>1 DEF CallsOK, MaxPerWallet
  <2>. QED  BY <1>1, <2>1, <2>2, <2>3 DEF IInv, TypeOK, CallsOK, WithinLimit, HeldByPlayers
<1>2. ASSUME IInv, UNCHANGED followUpVars PROVE IInv'
  BY <1>2 DEF IInv, followUpVars, TypeOK, WithinLimit, MaxPerWallet, PlayersChecked,
              BatchesAsked, HeldByPlayers
<1>. QED  BY <1>1, <1>2

\* The inductive invariant holds in every reachable state.
THEOREM Invariance == Spec => []IInv
BY InitInv, NextInv, PTL DEF Spec

\* FR-004 and the claim limit for any number of games, wallets and calls: a
\* wallet never holds more reveal reservations or claims than its limit, however
\* often a batch repeats an id and whatever the index still lists.
THEOREM WithinLimitHolds == Spec => [](TypeOK /\ WithinLimit)
<1>1. IInv => TypeOK /\ WithinLimit
  BY DEF IInv
<1>. QED  BY <1>1, Invariance, PTL

\* Only players of a game ever hold its reveal reservation or claim, although
\* the locked sections do not look at the row again.
THEOREM HeldByPlayersHolds == Spec => []HeldByPlayers
<1>1. IInv => HeldByPlayers
  BY DEF IInv
<1>. QED  BY <1>1, Invariance, PTL

\* A step of the table is a step of the reveal lease, while the behaviour is about
\* reveals: reservations that end are lapses, a batch is acquired as a whole.
LEMMA RevealStepIsLeaseStep ==
    ASSUME IInv, TableStep, kind' = kind
    PROVE  [RevealLease!Next]_(Holder("reveal"))
<1> USE DEF IInv, TypeOK
<1> DEFINE H == Holder("reveal")
<1>0. ActiveGames(locks) \subseteq Games /\ ActiveGames(locks') \subseteq Games
  BY DEF ActiveGames
<1>1. CASE kind # "reveal"
  BY <1>1 DEF Holder
<1>2. CASE kind = "reveal"
  <2>h. /\ \A g \in Games : H[g] = IF g \in ActiveGames(locks) THEN locks.res[g].holder
                                                              ELSE NoWallet
        /\ H' = [g \in Games |-> IF g \in ActiveGames(locks') THEN locks'.res[g].holder
                                                              ELSE NoWallet]
    BY <1>2 DEF ActiveGames, Holder
  <2>1. CASE Shrinks(locks, locks')
    <3>0. PICK S \in SUBSET Games : S = Games \ ActiveGames(locks')
      OBVIOUS
    <3>1. H' = [g \in Games |-> IF g \in S THEN NoWallet ELSE H[g]]
      BY <3>0, <2>h, <1>0, <2>1 DEF Shrinks
    <3>2. RevealLease!Lapse(S)
      BY <3>1 DEF RevealLease!Lapse
    <3>. QED  BY <3>2 DEF RevealLease!Next
  <2>2. ASSUME NEW b \in Batch, NEW w \in Wallets, NEW timeout \in Nat \ {0}, Stores(b, w, timeout)
        PROVE  RevealLease!Next
    <3>0. PICK S \in SUBSET Games : S = Requested(b)
      BY DEF Requested
    <3>1. /\ S # {} /\ \A g \in S : g \notin ActiveGames(locks)
          /\ Cardinality(HeldBy(locks, w) \cup S) <= MaxReveals
          /\ locks' = Store(locks, b, w, timeout) /\ b \in [Games -> Nat]
      BY <1>2, <2>2, <3>0 DEF Stores, MaxPerWallet, Batch, ActiveGames
    <3>2. /\ ActiveGames(locks') = ActiveGames(locks) \cup S
          /\ \A h \in Games : locks'.res[h].holder = IF h \in S THEN w ELSE locks.res[h].holder
      BY <3>0, <3>1, StoreHolds
    <3>3. {h \in Games : H[h] = w} = HeldBy(locks, w)
      BY <1>0, <2>h, NoWalletAssumption DEF HeldBy
    <3>4. \A g \in S : H[g] = NoWallet
      BY <2>h, <3>1
    <3>5. H' = [h \in Games |-> IF h \in S THEN w ELSE H[h]]
      BY <1>0, <2>h, <3>2
    <3>6. RevealLease!Acquire(w, S)
      <4>1. HeldBy(locks, w) \cup S \in {T \in SUBSET Games : Cardinality(T) <= MaxReveals}
        BY <1>0, <3>1 DEF HeldBy
      <4> HIDE DEF H
      <4>. QED  BY <3>1, <3>3, <3>4, <3>5, <4>1 DEF RevealLease!Acquire, RevealLease!Leased, H
    <3>. QED  BY <3>6 DEF RevealLease!Next
  <2>. QED  BY <2>1, <2>2 DEF TableStep
<1>. QED  BY <1>1, <1>2

\* For any instance: the reveal table implements the exclusive lease.
THEOREM RevealIsLeaseHolds == Spec => RevealIsLease
<1>1. Init => RevealLease!Init
  BY DEF Init, RevealLease!Init, Holder, EmptyTable, Absent, IsActive
<1>2. IInv /\ [Next]_followUpVars => [RevealLease!Next]_(Holder("reveal"))
  <2>1. ASSUME IInv, Next PROVE [RevealLease!Next]_(Holder("reveal"))
    <3>1. TableStep /\ kind' = kind
      BY <2>1, StepShape DEF CallsOK
    <3>. QED  BY <2>1, <3>1, RevealStepIsLeaseStep
  <2>2. ASSUME UNCHANGED followUpVars PROVE Holder("reveal")' = Holder("reveal")
    BY <2>2 DEF followUpVars, Holder
  <2>. QED  BY <2>1, <2>2
<1>. QED  BY <1>1, <1>2, Invariance, PTL DEF Spec, RevealIsLease, RevealLease!Spec

\* A step of the table is a step of the claim lease, while the behaviour is about
\* claims: reservations that end are lapses, a batch is acquired as a whole.
LEMMA ClaimStepIsLeaseStep ==
    ASSUME IInv, TableStep, kind' = kind
    PROVE  [ClaimLease!Next]_(Holder("claim"))
<1> USE DEF IInv, TypeOK
<1> DEFINE H == Holder("claim")
<1>0. ActiveGames(locks) \subseteq Games /\ ActiveGames(locks') \subseteq Games
  BY DEF ActiveGames
<1>1. CASE kind # "claim"
  BY <1>1 DEF Holder
<1>2. CASE kind = "claim"
  <2>h. /\ \A g \in Games : H[g] = IF g \in ActiveGames(locks) THEN locks.res[g].holder
                                                              ELSE NoWallet
        /\ H' = [g \in Games |-> IF g \in ActiveGames(locks') THEN locks'.res[g].holder
                                                              ELSE NoWallet]
    BY <1>2 DEF ActiveGames, Holder
  <2>1. CASE Shrinks(locks, locks')
    <3>0. PICK S \in SUBSET Games : S = Games \ ActiveGames(locks')
      OBVIOUS
    <3>1. H' = [g \in Games |-> IF g \in S THEN NoWallet ELSE H[g]]
      BY <3>0, <2>h, <1>0, <2>1 DEF Shrinks
    <3>2. ClaimLease!Lapse(S)
      BY <3>1, SMTT(30) DEF ClaimLease!Lapse
    <3>. QED  BY <3>2 DEF ClaimLease!Next
  <2>2. ASSUME NEW b \in Batch, NEW w \in Wallets, NEW timeout \in Nat \ {0}, Stores(b, w, timeout)
        PROVE  ClaimLease!Next
    <3>0. PICK S \in SUBSET Games : S = Requested(b)
      BY DEF Requested
    <3>1. /\ S # {} /\ \A g \in S : g \notin ActiveGames(locks)
          /\ Cardinality(HeldBy(locks, w) \cup S) <= MaxClaims
          /\ locks' = Store(locks, b, w, timeout) /\ b \in [Games -> Nat]
      BY <1>2, <2>2, <3>0 DEF Stores, MaxPerWallet, Batch, ActiveGames
    <3>2. /\ ActiveGames(locks') = ActiveGames(locks) \cup S
          /\ \A h \in Games : locks'.res[h].holder = IF h \in S THEN w ELSE locks.res[h].holder
      BY <3>0, <3>1, StoreHolds
    <3>3. {h \in Games : H[h] = w} = HeldBy(locks, w)
      BY <1>0, <2>h, NoWalletAssumption DEF HeldBy
    <3>4. \A g \in S : H[g] = NoWallet
      BY <2>h, <3>1
    <3>5. H' = [h \in Games |-> IF h \in S THEN w ELSE H[h]]
      BY <1>0, <2>h, <3>2
    <3>6. ClaimLease!Acquire(w, S)
      <4>1. HeldBy(locks, w) \cup S \in {T \in SUBSET Games : Cardinality(T) <= MaxClaims}
        BY <1>0, <3>1 DEF HeldBy
      <4> HIDE DEF H
      <4>. QED  BY <3>1, <3>3, <3>4, <3>5, <4>1 DEF ClaimLease!Acquire, ClaimLease!Leased, H
    <3>. QED  BY <3>6 DEF ClaimLease!Next
  <2>. QED  BY <2>1, <2>2 DEF TableStep
<1>. QED  BY <1>1, <1>2

\* For any instance: the claim table implements the exclusive lease.
THEOREM ClaimIsLeaseHolds == Spec => ClaimIsLease
<1>1. Init => ClaimLease!Init
  BY DEF Init, ClaimLease!Init, Holder, EmptyTable, Absent, IsActive
<1>2. IInv /\ [Next]_followUpVars => [ClaimLease!Next]_(Holder("claim"))
  <2>1. ASSUME IInv, Next PROVE [ClaimLease!Next]_(Holder("claim"))
    <3>1. TableStep /\ kind' = kind
      BY <2>1, StepShape DEF CallsOK
    <3>. QED  BY <2>1, <3>1, ClaimStepIsLeaseStep
  <2>2. ASSUME UNCHANGED followUpVars PROVE Holder("claim")' = Holder("claim")
    BY <2>2 DEF followUpVars, Holder
  <2>. QED  BY <2>1, <2>2
<1>. QED  BY <1>1, <1>2, Invariance, PTL DEF Spec, ClaimIsLease, ClaimLease!Spec
-----------------------------------------------------------------------------
(***************************************************************************)
(* Why reservations end.  A claim, and every call about one, concerns a    *)
(* game that has ended, and a call that found it past that concerns one    *)
(* that is paid; a release of a reveal reservation follows a game that is  *)
(* paid.  As no game leaves that status, none of them hits a reservation   *)
(* that still has its purpose.                                             *)
(***************************************************************************)
Over == {Ended, Paid}

AboutOver(call) ==
    \E g \in Games : /\ call.batch = Once(g) /\ status[g] \in Over
                     /\ call.pc = "resolved" => status[g] = Paid

ClaimsAreOver ==
    kind = "claim" =>
        /\ \A g \in ActiveGames(locks) : status[g] \in Over
        /\ \A c \in Calls : calls[c].pc # "idle" => AboutOver(calls[c])

RevealsArePaid == kind = "reveal" => \A i \in DOMAIN releases : status[releases[i]] = Paid

CauseInv == IInv /\ ClaimsAreOver /\ RevealsArePaid

\* The status of a game never leads back.
Onward ==
    \A g \in Games : /\ status[g] \in Over => status'[g] \in Over
                     /\ status[g] = Paid => status'[g] = Paid

\* The numbers of the phases differ.
LEMMA Phases == Paid # Ended /\ Paid # WaitingForOpenBids /\ Ended # WaitingForOpenBids
                /\ WaitingForOpponent \notin Over /\ WaitingForOpenBids \notin Over
BY DEF Paid, Ended, WaitingForOpenBids, WaitingForOpponent, Over

\* Every step leads on.
LEMMA OnwardStep == ASSUME IInv, Next PROVE Onward
<1>0. status \in [Games -> GameStatus]
  BY DEF IInv, TypeOK
<1>1. CASE status' = status
  BY <1>1 DEF Onward
<1>2. ASSUME NEW g \in Games,
             \/ GameStarted(g) \/ SecretOpened(g) \/ GameFinished(g) \/ GameCancelled(g)
             \/ UpdateStatus(g)
      PROVE  Onward
  BY <1>0, <1>2, Phases
     DEF Onward, Over, GameStarted, SecretOpened, GameFinished, GameCancelled, UpdateStatus, Apply
<1>3. CASE RevealStep \/ ClaimStep \/ Cleanup \/ Tick \/ Restart \/ HandlerRelease
  <2>1. CASE RevealStep
    BY <1>1, <2>1 DEF RevealStep, RevealReserve, RevealPreflight, RevealCommit, RevealCancel, RevealFrame
  <2>2. CASE ClaimStep
    BY <1>1, <2>2 DEF ClaimStep, ClaimPeek, ClaimRead, ClaimCommit, ClaimVisit, ClaimResolve,
                ClaimRelease, ClaimFrame
  <2>3. CASE Cleanup \/ Tick \/ Restart \/ HandlerRelease
    BY <1>1, <2>3 DEF Cleanup, RevealCleanupExpired, ClaimCleanupExpired, RevealFrame, ClaimFrame, Tick,
                Restart, HandlerRelease
  <2>. QED  BY <1>3, <2>1, <2>2, <2>3
<1>. QED  BY <1>2, <1>3 DEF Next, EventStep

\* The games of the releases a handler leaves behind.
LEMMA RevealsStep == ASSUME CauseInv, Next PROVE RevealsArePaid'
<1>0. status \in [Games -> GameStatus] /\ releases \in Seq(Games) /\ Onward /\ kind' = kind
  BY OnwardStep, StepShape DEF CauseInv, IInv, TypeOK, CallsOK
<1>1. CASE releases' = releases \/ releases' = <<>>
  <2>1. \A i \in DOMAIN releases : releases[i] \in Games
    BY <1>0
  <2>2. CASE releases' = releases
    BY <1>0, <2>1, <2>2 DEF CauseInv, RevealsArePaid, Onward
  <2>3. CASE releases' = <<>>
    BY <2>3 DEF RevealsArePaid
  <2>. QED  BY <1>1, <2>2, <2>3
<1>2. ASSUME NEW g \in Games, GameStarted(g) \/ SecretOpened(g) PROVE RevealsArePaid'
  BY <1>0, <1>2 DEF GameStarted, SecretOpened, Apply, ReleaseClaim, RevealsArePaid
<1>3. ASSUME NEW g \in Games, GameFinished(g) \/ GameCancelled(g) PROVE RevealsArePaid'
  <2>. SUFFICES ASSUME kind = "reveal" PROVE RevealsArePaid'
    BY <1>0 DEF RevealsArePaid
  <2>1. releases' = <<g>> /\ status'[g] = Paid
    BY <1>0, <1>3 DEF GameFinished, GameCancelled, Apply, ReleaseClaim, ReleaseReveal
  <2>. QED  BY <2>1 DEF RevealsArePaid
<1>4. CASE HandlerRelease
  <2>1. releases' = Tail(releases) /\ releases # <<>> /\ status' = status
    BY <1>4 DEF HandlerRelease
  <2>2. \A i \in DOMAIN releases' : i + 1 \in DOMAIN releases /\ releases'[i] = releases[i + 1]
    BY <1>0, <2>1
  <2>. QED  BY <1>0, <2>1, <2>2 DEF CauseInv, RevealsArePaid
<1>5. CASE RevealStep
  BY <1>1, <1>5 DEF RevealStep, RevealReserve, RevealPreflight, RevealCommit, RevealCancel, RevealFrame
<1>6. CASE ClaimStep
  BY <1>1, <1>6 DEF ClaimStep, ClaimPeek, ClaimRead, ClaimCommit, ClaimVisit, ClaimResolve,
                    ClaimRelease, ClaimFrame
<1>7. CASE Cleanup \/ Tick \/ Restart
  BY <1>1, <1>7 DEF Cleanup, RevealCleanupExpired, ClaimCleanupExpired, RevealFrame, ClaimFrame,
                    Tick, Restart
<1>8. ASSUME NEW g \in Games, UpdateStatus(g) PROVE RevealsArePaid'
  BY <1>1, <1>8 DEF UpdateStatus
<1>. QED  BY <1>2, <1>3, <1>4, <1>5, <1>6, <1>7, <1>8 DEF Next, EventStep

\* A game in the table of claims after a step was there before, or a call for it
\* was at its last part.
LEMMA ClaimsStep == ASSUME CauseInv, Next PROVE ClaimsAreOver'
<1>0. /\ status \in [Games -> GameStatus] /\ Onward /\ kind' = kind /\ IInv
      /\ calls \in [Calls -> {Idle} \cup Call] /\ Idle.pc = "idle"
  BY OnwardStep, StepShape DEF CauseInv, IInv, TypeOK, CallsOK, Idle
<1>g. ActiveGames(locks) \subseteq Games /\ ActiveGames(locks') \subseteq Games
      /\ \A b : Requested(b) \subseteq Games
  BY DEF ActiveGames, Requested
<1>. SUFFICES ASSUME kind = "claim" PROVE ClaimsAreOver'
  BY <1>0 DEF ClaimsAreOver
<1>b. /\ \A g \in ActiveGames(locks) : status[g] \in Over
      /\ \A c \in Calls : calls[c].pc # "idle" => AboutOver(calls[c])
  BY DEF CauseInv, ClaimsAreOver
<1>t. ASSUME \A g \in ActiveGames(locks') : status'[g] \in Over,
             \A c \in Calls :
                 \/ calls'[c].pc = "idle"
                 \/ calls'[c] = calls[c]
                 \/ AboutOver(calls[c])'
      PROVE  ClaimsAreOver'
  <2>1. ASSUME NEW c \in Calls, calls'[c].pc # "idle" PROVE AboutOver(calls[c])'
    <3>1. CASE calls'[c] = calls[c]
      BY <1>0, <1>b, <2>1, <3>1 DEF Onward, AboutOver
    <3>. QED  BY <1>t, <2>1, <3>1
  <2>. QED  BY <1>t, <2>1, Zenon DEF ClaimsAreOver
<1>s. ASSUME Shrinks(locks, locks') PROVE \A g \in ActiveGames(locks') : status'[g] \in Over
  BY <1>0, <1>b, <1>g, <1>s DEF Shrinks, Onward
<1>u. ASSUME locks' = locks PROVE \A g \in ActiveGames(locks') : status'[g] \in Over
  BY <1>0, <1>b, <1>g, <1>u DEF Onward
<1>r. ASSUME NEW c \in Calls, Returns(c) PROVE \A d \in Calls : calls'[d].pc = "idle" \/ calls'[d] = calls[d]
  BY <1>0, <1>r DEF Returns
<1>o. \A g \in Games : Requested(Once(g)) = {g}
  BY DEF Requested, Once
<1>1. CASE calls' = calls /\ (locks' = locks \/ Shrinks(locks, locks'))
  BY <1>1, <1>s, <1>t, <1>u
<1>2. ASSUME NEW c \in ClaimCalls, NEW g \in Games, NEW w \in Wallets, ClaimRead(c, g, w)
      PROVE  ClaimsAreOver'
  <2>1. /\ calls'[c] = [pc |-> "checked", batch |-> Once(g), todo |-> {}, wallet |-> w]
        /\ \A d \in Calls : d # c => calls'[d] = calls[d]
    BY <1>0, <1>2 DEF ClaimRead, Calls
  <2>2. locks' = locks /\ status' = status /\ status[g] \in Over
    BY <1>2 DEF ClaimRead, ClaimFrame, Over
  <2>3. AboutOver(calls[c])'
    BY <2>1, <2>2 DEF AboutOver
  <2>. QED  BY <1>t, <1>u, <2>1, <2>2, <2>3
<1>3. ASSUME NEW c \in ClaimCalls, NEW g \in Games, ClaimPeek(c, g)
      PROVE  ClaimsAreOver'
  <2>1. /\ calls'[c].batch = Once(g) /\ calls'[c].pc = "visiting"
        /\ \A d \in Calls : d # c => calls'[d] = calls[d]
    BY <1>0, <1>3 DEF ClaimPeek, Calls
  <2>2. locks' = locks /\ status' = status /\ status[g] \in Over
    BY <1>3, <1>b DEF ClaimPeek, ClaimFrame, ActiveGames
  <2>3. AboutOver(calls[c])'
    BY <2>1, <2>2 DEF AboutOver
  <2>. QED  BY <1>t, <1>u, <2>1, <2>2, <2>3
<1>4. ASSUME NEW c \in ClaimCalls, ClaimCommit(c) PROVE ClaimsAreOver'
  <2>0. c \in Calls /\ calls[c].pc = "checked" /\ Returns(c) /\ status' = status
    BY <1>4 DEF ClaimCommit, ClaimFrame, Calls
  <2>1. CASE locks' = Store(locks, calls[c].batch, calls[c].wallet, ClaimTimeout)
    <3>1. calls[c] \in Call /\ calls[c].batch \in [Games -> Nat] /\ calls[c].wallet \in Wallets
      BY <1>0, <2>0 DEF Call, CallRecord, Batch
    <3>2. ActiveGames(locks') = ActiveGames(locks) \cup Requested(calls[c].batch)
      <4>1. locks \in Table /\ ClaimTimeout \in Nat \ {0}
        BY <1>0, FollowUpAssumption DEF IInv, TypeOK
      <4>2. PICK b \in [Games -> Nat], w \in Wallets : b = calls[c].batch /\ w = calls[c].wallet
        BY <3>1
      <4>. QED  BY <2>1, <4>1, <4>2, StoreHolds
    <3>3. \A g \in Requested(calls[c].batch) : status[g] \in Over
      BY <1>b, <1>o, <2>0 DEF AboutOver
    <3>. QED  BY <1>b, <1>r, <1>t, <2>0, <3>2, <3>3
  <2>2. CASE locks' = locks
    BY <1>r, <1>t, <1>u, <2>0, <2>2
  <2>. QED  BY <1>4, <2>1, <2>2 DEF ClaimCommit
<1>5. ASSUME NEW c \in ClaimCalls, ClaimVisit(c) PROVE ClaimsAreOver'
  <2>0. c \in Calls /\ calls[c].pc = "visiting" /\ status' = status /\ locks' = locks
    BY <1>5 DEF ClaimVisit, ClaimFrame, Calls
  <2>1. CASE Returns(c)
    BY <1>r, <1>t, <1>u, <2>0, <2>1
  <2>2. ASSUME NEW g \in Requested(calls[c].batch), ClaimNotActionable(g),
               calls' = [calls EXCEPT ![c].pc = "resolved"]
        PROVE  ClaimsAreOver'
    <3>1. PICK h \in Games : calls[c].batch = Once(h) /\ status[h] \in Over
      BY <1>b, <2>0 DEF AboutOver
    <3>2. status[h] = Paid
      BY <1>o, <2>2, <3>1 DEF ClaimNotActionable, Over
    <3>3. calls[c] \in Call
      BY <1>0, <2>0
    <3>4. calls'[c].batch = calls[c].batch /\ \A d \in Calls : d # c => calls'[d] = calls[d]
      BY <1>0, <2>0, <2>2, <3>3 DEF Call, CallRecord
    <3>5. Paid \in Over
      BY DEF Over
    <3>6. AboutOver(calls[c])'
      BY <2>0, <3>1, <3>2, <3>4, <3>5 DEF AboutOver
    <3>. QED  BY <1>t, <1>u, <2>0, <3>4, <3>6
  <2>. QED  BY <1>5, <2>1, <2>2 DEF ClaimVisit
<1>6. ASSUME NEW c \in ClaimCalls, ClaimResolve(c) PROVE ClaimsAreOver'
  <2>0. c \in Calls /\ Returns(c)
    BY <1>6 DEF ClaimResolve, Calls
  <2>1. locks' = locks \/ Shrinks(locks, locks')
    <3>1. PICK g \in Games : ReleaseOnResolved(g)
      BY <1>6, <1>g DEF ClaimResolve
    <3>. QED  BY <1>0, <3>1, ReleaseOK DEF ReleaseOnResolved, IInv, TypeOK, IsActive
  <2>. QED  BY <1>r, <1>s, <1>t, <1>u, <2>0, <2>1
<1>7. ASSUME NEW g \in Games, NEW w \in Wallets, ClaimRelease(g, w) PROVE ClaimsAreOver'
  <2>1. calls' = calls /\ Shrinks(locks, locks')
    BY <1>0, <1>7, ReleaseOK DEF ClaimRelease, IInv, TypeOK, IsActive
  <2>. QED  BY <1>1, <2>1
<1>8. CASE EventStep
  <2>1. CASE locks' = locks /\ calls' = calls
    BY <1>1, <2>1
  <2>2. CASE HandlerRelease
    <3>1. Head(releases) \in Games
      BY <1>0, <2>2 DEF HandlerRelease, IInv, TypeOK
    <3>2. PICK g \in Games : locks' = IF IsActive(locks.res[g]) THEN Release(locks, g) ELSE locks
      BY <2>2, <3>1 DEF HandlerRelease, ReleaseOnTerminal, ReleaseOnResolved
    <3>3. locks' = locks \/ Shrinks(locks, locks')
      BY <1>0, <3>2, ReleaseOK DEF IInv, TypeOK, IsActive
    <3>. QED  BY <1>1, <2>2, <3>3 DEF HandlerRelease
  <2>. QED
    BY <1>8, <2>1, <2>2
    DEF EventStep, GameStarted, SecretOpened, GameFinished, GameCancelled, UpdateStatus, Apply
<1>9. CASE Cleanup \/ Tick
  <2>1. Shrinks(locks, locks')
    <3>1. CASE Tick
      BY <1>0, <3>1, AgedOK DEF Tick, IInv, TypeOK
    <3>2. CASE locks' = Swept(locks, Overdue(locks), Settled(locks))
      BY <1>0, <3>2, SweptOK DEF IInv, TypeOK
    <3>3. ASSUME NEW caught \in SUBSET Expiring(locks),
                 NEW missed \in SUBSET (Expiring(locks) \ caught),
                 locks' = Swept(Aged(locks), Overdue(locks) \cup caught, Settled(locks) \cup missed)
          PROVE  Shrinks(locks, locks')
      BY <1>0, <3>3, SweptAgedOK DEF IInv, TypeOK
    <3>. QED  BY <1>9, <3>1, <3>2, <3>3 DEF Cleanup, RevealCleanupExpired, ClaimCleanupExpired
  <2>2. calls' = calls
    BY <1>9 DEF Cleanup, RevealCleanupExpired, ClaimCleanupExpired, Tick
  <2>. QED  BY <1>1, <2>1, <2>2
<1>10. CASE Restart
  <2>1. ActiveGames(locks') = {} /\ \A d \in Calls : calls'[d].pc = "idle"
    BY <1>0, <1>10, EmptyTableOK DEF Restart
  <2>. QED  BY <1>t, <2>1
<1>11. CASE RevealStep
  BY <1>11 DEF RevealStep, RevealReserve, RevealPreflight, RevealCommit, RevealCancel
<1>. QED
  BY <1>2, <1>3, <1>4, <1>5, <1>6, <1>7, <1>8, <1>9, <1>10, <1>11 DEF Next, ClaimStep

\* What each change of the table ends: the released game, what has one tick left.
LEMMA ReleaseEnds ==
    ASSUME NEW t \in Table, NEW g \in Games
    PROVE  ActiveGames(t) \ ActiveGames(Release(t, g)) \subseteq {g}
<1>1. PICK u : u = Release(t, g)
  OBVIOUS
<1>2. \A h \in Games : h # g => u.res[h] = t.res[h]
  BY <1>1 DEF Release, Table
<1>. QED  BY <1>1, <1>2 DEF ActiveGames

\* The clock.
LEMMA AgedEnds ==
    ASSUME NEW t \in Table
    PROVE  ActiveGames(t) \ ActiveGames(Aged(t)) \subseteq Expiring(t)
<1>1. PICK u : u = Aged(t)
  OBVIOUS
<1>2. ASSUME NEW g \in Games
      PROVE  u.res[g].status = t.res[g].status /\ u.res[g].ttl = IF t.res[g].ttl > 0 THEN t.res[g].ttl - 1 ELSE 0
  BY <1>1 DEF Aged, Table, Reservation
<1>3. \A g \in Games : t.res[g].ttl \in Nat
  BY DEF Table, Reservation
<1>. QED  BY <1>1, <1>2, <1>3 DEF ActiveGames, Expiring, IsActive, IsExpired

\* A cleanup pass, which may meet the tick.
LEMMA SweptEnds ==
    ASSUME NEW t \in Table, NEW expired, NEW dropped
    PROVE  ActiveGames(t) \ ActiveGames(Swept(t, expired, dropped)) \subseteq expired \cup dropped
<1>1. PICK u : u = Swept(t, expired, dropped)
  OBVIOUS
<1>2. \A g \in Games : g \notin expired \cup dropped => u.res[g] = t.res[g]
  BY <1>1 DEF Swept
<1>. QED  BY <1>1, <1>2 DEF ActiveGames

\* What a cleanup pass takes is over already.
LEMMA SettledNotActive ==
    \A t : /\ Overdue(t) \cap ActiveGames(t) = {} /\ Settled(t) \cap ActiveGames(t) = {}
BY DEF Overdue, Settled, ActiveGames, IsActive

\* EndsForCause of one game and one step.
LEMMA CauseStep ==
    ASSUME CauseInv, Next, NEW g \in ActiveGames(locks) \ ActiveGames(locks')
    PROVE  \/ locks.res[g].ttl = 1 /\ (Tick \/ Cleanup)
           \/ status[g] # Phase
           \/ kind = "claim" /\ HandlerRelease
           \/ RevealCancel(g, locks.res[g].holder) \/ ClaimRelease(g, locks.res[g].holder)
           \/ Restart
<1>0. locks \in Table /\ g \in Games /\ locks' # locks /\ IsActive(locks.res[g])
      /\ calls \in [Calls -> {Idle} \cup Call]
  BY DEF CauseInv, IInv, TypeOK, ActiveGames
<1>e. Expiring(locks) \subseteq {h \in Games : locks.res[h].ttl = 1}
  BY DEF Expiring, ActiveGames
<1>1. CASE RevealStep
  <2>1. ASSUME NEW c \in RevealCalls, RevealCommit(c) PROVE FALSE
    <3>1. calls[c].pc = "checked" /\ locks' = Store(locks, calls[c].batch, calls[c].wallet, RevealTimeout)
      BY <1>0, <2>1 DEF RevealCommit
    <3>2. calls[c] \in Call
      BY <1>0, <3>1 DEF Calls, Idle
    <3>3. calls[c].batch \in [Games -> Nat] /\ calls[c].wallet \in Wallets
      BY <3>2 DEF Call, CallRecord, Batch
    <3>. QED  BY <1>0, <3>1, <3>3, StoreHolds, FollowUpAssumption
  <2>2. ASSUME NEW h \in Games, NEW w \in Wallets, RevealCancel(h, w)
        PROVE  RevealCancel(g, locks.res[g].holder)
    <3>1. g = h
      BY <1>0, <2>2, ReleaseEnds DEF RevealCancel
    <3>2. w = locks.res[g].holder
      BY <2>2, <3>1 DEF RevealCancel
    <3>. QED  BY <2>2, <3>1, <3>2
  <2>. QED  BY <1>0, <1>1, <2>1, <2>2 DEF RevealStep, RevealReserve, RevealPreflight
<1>2. CASE ClaimStep
  <2>1. ASSUME NEW c \in ClaimCalls, ClaimCommit(c) PROVE FALSE
    <3>1. calls[c].pc = "checked" /\ locks' = Store(locks, calls[c].batch, calls[c].wallet, ClaimTimeout)
      BY <1>0, <2>1 DEF ClaimCommit
    <3>2. calls[c] \in Call
      BY <1>0, <3>1 DEF Calls, Idle
    <3>3. calls[c].batch \in [Games -> Nat] /\ calls[c].wallet \in Wallets
      BY <3>2 DEF Call, CallRecord, Batch
    <3>. QED  BY <1>0, <3>1, <3>3, StoreHolds, FollowUpAssumption
  <2>2. ASSUME NEW h \in Games, NEW w \in Wallets, ClaimRelease(h, w)
        PROVE  ClaimRelease(g, locks.res[g].holder)
    <3>1. g = h
      BY <1>0, <2>2, ReleaseEnds DEF ClaimRelease
    <3>2. w = locks.res[g].holder
      BY <2>2, <3>1 DEF ClaimRelease
    <3>. QED  BY <2>2, <3>1, <3>2
  <2>3. ASSUME NEW c \in ClaimCalls, ClaimResolve(c) PROVE status[g] # Phase
    <3>1. c \in Calls /\ kind = "claim" /\ calls[c].pc = "resolved"
      BY <2>3 DEF ClaimResolve, Calls
    <3>2. PICK h \in Games : calls[c].batch = Once(h) /\ status[h] = Paid
      BY <3>1 DEF CauseInv, ClaimsAreOver, AboutOver
    <3>3. Requested(Once(h)) = {h}
      BY DEF Requested, Once
    <3>4. locks' = Release(locks, h)
      BY <1>0, <2>3, <3>2, <3>3 DEF ClaimResolve, ReleaseOnResolved
    <3>5. g = h
      BY <1>0, <3>4, ReleaseEnds
    <3>. QED  BY <3>1, <3>2, <3>5, Phases DEF Phase
  <2>. QED  BY <1>0, <1>2, <2>1, <2>2, <2>3 DEF ClaimStep, ClaimPeek, ClaimRead, ClaimVisit
<1>3. CASE EventStep
  <2>1. HandlerRelease
    BY <1>0, <1>3
    DEF EventStep, GameStarted, SecretOpened, GameFinished, GameCancelled, UpdateStatus, Apply
  <2>2. CASE kind = "reveal"
    <3>1. releases \in Seq(Games) /\ releases # <<>> /\ ReleaseOnTerminal(Head(releases))
      BY <2>1, <2>2 DEF CauseInv, IInv, TypeOK, HandlerRelease
    <3>2. 1 \in DOMAIN releases /\ Head(releases) = releases[1] /\ releases[1] \in Games
      BY <3>1
    <3>3. PICK h \in Games : h = Head(releases)
      BY <3>2
    <3>4. status[h] = Paid
      BY <2>2, <3>2, <3>3 DEF CauseInv, RevealsArePaid
    <3>5. locks' = Release(locks, h)
      BY <1>0, <3>1, <3>3 DEF ReleaseOnTerminal
    <3>6. g = h
      BY <1>0, <3>5, ReleaseEnds
    <3>. QED  BY <2>2, <3>4, <3>6, Phases DEF Phase
  <2>3. CASE kind = "claim"
    BY <2>1, <2>3
  <2>. QED  BY <2>2, <2>3 DEF CauseInv, IInv, TypeOK
<1>4. CASE Cleanup
  <2>1. CASE locks' = Swept(locks, Overdue(locks), Settled(locks))
    BY <1>0, <2>1, SweptEnds, SettledNotActive
  <2>2. ASSUME NEW caught \in SUBSET Expiring(locks),
               NEW missed \in SUBSET (Expiring(locks) \ caught),
               locks' = Swept(Aged(locks), Overdue(locks) \cup caught, Settled(locks) \cup missed)
        PROVE  locks.res[g].ttl = 1
    <3>1. Aged(locks) \in Table
      BY <1>0, AgedOK DEF CauseInv, IInv
    <3>2. CASE g \in ActiveGames(Aged(locks))
      <4>1. g \in Overdue(locks) \cup caught \cup Settled(locks) \cup missed
        BY <2>2, <3>1, <3>2, SweptEnds
      <4>. QED  BY <1>e, <2>2, <4>1, SettledNotActive
    <3>3. CASE g \notin ActiveGames(Aged(locks))
      BY <1>0, <1>e, <3>3, AgedEnds
    <3>. QED  BY <3>2, <3>3
  <2>. QED  BY <1>4, <2>1, <2>2 DEF Cleanup, RevealCleanupExpired, ClaimCleanupExpired
<1>5. CASE Tick
  BY <1>0, <1>e, <1>5, AgedEnds DEF Tick
<1>. QED  BY <1>1, <1>2, <1>3, <1>4, <1>5 DEF Next

\* For any instance a running reservation ends for a cause the user may know:
\* its time, its holder's own call, the end of the phase, or a restart.
THEOREM EndsForCauseHolds == Spec => EndsForCause
<1>1. Init => CauseInv
  <2>. SUFFICES ASSUME Init PROVE CauseInv
    OBVIOUS
  <2>1. ClaimsAreOver /\ RevealsArePaid
    BY EmptyTableOK DEF Init, ClaimsAreOver, RevealsArePaid, Idle
  <2>. QED  BY <2>1, InitInv DEF CauseInv
<1>2. CauseInv /\ [Next]_followUpVars => CauseInv'
  <2>1. ASSUME CauseInv, Next PROVE CauseInv'
    BY <2>1, NextInv, ClaimsStep, RevealsStep DEF CauseInv
  <2>2. ASSUME CauseInv, UNCHANGED followUpVars PROVE CauseInv'
    <3>1. IInv'
      BY <2>2, NextInv DEF CauseInv
    <3>. QED  BY <2>2, <3>1 DEF CauseInv, followUpVars, ClaimsAreOver, AboutOver, RevealsArePaid
  <2>. QED  BY <2>1, <2>2
<1>3. CauseInv /\ [Next]_followUpVars =>
        [\A g \in ActiveGames(locks) \ ActiveGames(locks') :
            \/ locks.res[g].ttl = 1 /\ (Tick \/ Cleanup)
            \/ status[g] # Phase
            \/ kind = "claim" /\ HandlerRelease
            \/ RevealCancel(g, locks.res[g].holder) \/ ClaimRelease(g, locks.res[g].holder)
            \/ Restart]_followUpVars
  BY CauseStep
<1>. QED  BY <1>1, <1>2, <1>3, PTL DEF Spec, EndsForCause
=============================================================================
