----------------------------- MODULE LobbyProofs ----------------------------
(***************************************************************************)
(* The lobby for any number of games, wallets, calls and any limits: type  *)
(* correctness, the wallet limit, the index and the roles, and that both   *)
(* tables implement an exclusive lease.                                    *)
(***************************************************************************)
EXTENDS Lobby, ReservationTableProofs

\* The limit alone is not inductive: Reserve counts through the index, so the
\* index has to cover what is held (Sound), and a call in flight that has
\* passed the role check of its first part has to keep its answer.
RolesChecked ==
    /\ \A c \in JoinCalls : joinCalls[c].pc \in {"gameRead", "peerChecked"} =>
            joinCalls[c].wallet # Creator[joinCalls[c].game]
    /\ \A c \in CancelCalls : cancelCalls[c].pc \in {"gameRead", "peerChecked"} =>
            cancelCalls[c].wallet = Creator[cancelCalls[c].game]

IInv ==
    /\ TypeOK
    /\ Sound(joins)
    /\ Sound(cancels)
    /\ WalletLimit
    /\ RolesChecked
    /\ RolesSeparated

\* How a step may change the join table: reservations end, or one call stores
\* one for a free game within the limit.
JoinTableStep ==
    \/ /\ joins' \in Table /\ Sound(joins') /\ Shrinks(joins, joins')
    \/ \E g \in Games, w \in Wallets :
          /\ ~JoinRefused(g, w)
          /\ w # Creator[g]
          /\ joins' = Store(joins, Once(g), w, JoinTimeout)

CancelTableStep ==
    \/ /\ cancels' \in Table /\ Sound(cancels') /\ Shrinks(cancels, cancels')
    \/ \E g \in Games, w \in Wallets :
          /\ ~CancelRefused(g, w)
          /\ w = Creator[g]
          /\ cancels' = Store(cancels, Once(g), w, CancelTimeout)

\* The rest of the state: call records stay well-typed and role-checked.
CallsOK ==
    /\ status' \in [Games -> GameStatus]
    /\ joinCalls' \in [JoinCalls -> {Idle} \cup Call]
    /\ cancelCalls' \in [CancelCalls -> {Idle} \cup Call]
    /\ releases' \in Seq(LobbyRelease)
    /\ RolesChecked'

\* Every action of the lobby is a step of both tables in that sense.
LEMMA StepShape ==
    ASSUME IInv, Next
    PROVE  JoinTableStep /\ CancelTableStep /\ CallsOK
<1> USE DEF IInv, TypeOK
<1>j. joins' = joins => JoinTableStep
  BY ShrinksRefl DEF JoinTableStep
<1>c. cancels' = cancels => CancelTableStep
  BY ShrinksRefl DEF CancelTableStep
<1>i. Idle.pc = "idle"
  BY DEF Idle
<1>k. \A cc \in Call : cc.pc \in {"gameRead", "peerChecked", "listed"} /\ cc.game \in Games /\ cc.wallet \in Wallets
  BY DEF Call
<1>1. CASE JoinStep
  <2>1. ASSUME NEW c \in JoinCalls, NEW g \in Games, NEW w \in Wallets, JoinReserveRead(c, g, w)
        PROVE  JoinTableStep /\ CancelTableStep /\ CallsOK
    <3>1. joins' = joins /\ cancels' = cancels
      BY <2>1 DEF JoinReserveRead, JoinFrame
    <3>2. CallsOK
      BY <2>1 DEF JoinReserveRead, JoinFrame, CallsOK, RolesChecked, InFlight, Call
    <3>. QED  BY <3>1, <3>2, <1>j, <1>c
  <2>2. ASSUME NEW c \in JoinCalls, NEW g \in Games, NEW w \in Wallets, JoinListSnapshot(c, g, w)
        PROVE  JoinTableStep /\ CancelTableStep /\ CallsOK
    <3>1. joins' = joins /\ cancels' = cancels
      BY <2>2 DEF JoinListSnapshot, JoinFrame
    <3>2. CallsOK
      BY <2>2 DEF JoinListSnapshot, JoinFrame, CallsOK, RolesChecked, InFlight, Call
    <3>. QED  BY <3>1, <3>2, <1>j, <1>c
  <2>3. ASSUME NEW c \in JoinCalls, JoinReserveCheckCancel(c)
        PROVE  JoinTableStep /\ CancelTableStep /\ CallsOK
    <3>1. joins' = joins /\ cancels' = cancels
      BY <2>3 DEF JoinReserveCheckCancel, JoinFrame
    <3>2. joinCalls[c] \in Call
      BY <2>3, <1>i DEF JoinReserveCheckCancel
    <3>3. CallsOK
      BY <2>3, <3>2, <1>i DEF JoinReserveCheckCancel, JoinFrame, CallsOK, RolesChecked, Call
    <3>. QED  BY <3>1, <3>3, <1>j, <1>c
  <2>4. ASSUME NEW c \in JoinCalls, JoinReserveCommit(c)
        PROVE  JoinTableStep /\ CancelTableStep /\ CallsOK
    <3>1. cancels' = cancels
      BY <2>4 DEF JoinReserveCommit, JoinFrame
    <3>2. joinCalls[c] \in Call
      BY <2>4, <1>i DEF JoinReserveCommit
    <3>3. CallsOK
      BY <2>4, <1>i DEF JoinReserveCommit, JoinFrame, CallsOK, RolesChecked
    <3>4. JoinTableStep
      <4>1. CASE joins' = joins
        BY <4>1, <1>j
      <4>2. CASE joins' # joins
        BY <2>4, <3>2, <4>2, <1>k DEF JoinReserveCommit, JoinTableStep, RolesChecked
      <4>. QED  BY <4>1, <4>2
    <3>. QED  BY <3>1, <3>3, <3>4, <1>c
  <2>5. ASSUME NEW c \in JoinCalls, JoinListVisit(c)
        PROVE  JoinTableStep /\ CancelTableStep /\ CallsOK
    <3>1. cancels' = cancels
      BY <2>5 DEF JoinListVisit, JoinFrame
    <3>2. joinCalls[c] \in Call
      BY <2>5, <1>i DEF JoinListVisit
    <3>3. CallsOK
      BY <2>5, <1>i DEF JoinListVisit, JoinFrame, CallsOK, RolesChecked
    <3>4. joins' = joins \/ joins' = Delete(joins, joinCalls[c].game)
      BY <2>5 DEF JoinListVisit
    <3>5. JoinTableStep
      BY <3>2, <3>4, <1>k, <1>j, DeleteOK DEF JoinTableStep
    <3>. QED  BY <3>1, <3>3, <3>5, <1>c
  <2>6. ASSUME NEW g \in Games, NEW w \in Wallets, JoinCancel(g, w)
        PROVE  JoinTableStep /\ CancelTableStep /\ CallsOK
    <3>1. cancels' = cancels
      BY <2>6 DEF JoinCancel, JoinFrame
    <3>2. CallsOK
      BY <2>6 DEF JoinCancel, JoinFrame, CallsOK, RolesChecked
    <3>3. JoinTableStep
      BY <2>6, ReleaseOK DEF JoinCancel, JoinTableStep, IsActive
    <3>. QED  BY <3>1, <3>2, <3>3, <1>c
  <2>. QED  BY <1>1, <2>1, <2>2, <2>3, <2>4, <2>5, <2>6 DEF JoinStep
<1>2. CASE CancelStep
  <2>1. ASSUME NEW c \in CancelCalls, NEW g \in Games, NEW w \in Wallets, CancelReserveRead(c, g, w)
        PROVE  JoinTableStep /\ CancelTableStep /\ CallsOK
    <3>1. joins' = joins /\ cancels' = cancels
      BY <2>1 DEF CancelReserveRead, CancelFrame
    <3>2. CallsOK
      BY <2>1 DEF CancelReserveRead, CancelFrame, CallsOK, RolesChecked, InFlight, Call
    <3>. QED  BY <3>1, <3>2, <1>c, <1>j
  <2>2. ASSUME NEW c \in CancelCalls, NEW g \in Games, NEW w \in Wallets, CancelListSnapshot(c, g, w)
        PROVE  JoinTableStep /\ CancelTableStep /\ CallsOK
    <3>1. joins' = joins /\ cancels' = cancels
      BY <2>2 DEF CancelListSnapshot, CancelFrame
    <3>2. CallsOK
      BY <2>2 DEF CancelListSnapshot, CancelFrame, CallsOK, RolesChecked, InFlight, Call
    <3>. QED  BY <3>1, <3>2, <1>c, <1>j
  <2>3. ASSUME NEW c \in CancelCalls, CancelReserveCheckJoin(c)
        PROVE  JoinTableStep /\ CancelTableStep /\ CallsOK
    <3>1. joins' = joins /\ cancels' = cancels
      BY <2>3 DEF CancelReserveCheckJoin, CancelFrame
    <3>2. cancelCalls[c] \in Call
      BY <2>3, <1>i DEF CancelReserveCheckJoin
    <3>3. CallsOK
      BY <2>3, <3>2, <1>i DEF CancelReserveCheckJoin, CancelFrame, CallsOK, RolesChecked, Call
    <3>. QED  BY <3>1, <3>3, <1>c, <1>j
  <2>4. ASSUME NEW c \in CancelCalls, CancelReserveCommit(c)
        PROVE  JoinTableStep /\ CancelTableStep /\ CallsOK
    <3>1. joins' = joins
      BY <2>4 DEF CancelReserveCommit, CancelFrame
    <3>2. cancelCalls[c] \in Call
      BY <2>4, <1>i DEF CancelReserveCommit
    <3>3. CallsOK
      BY <2>4, <1>i DEF CancelReserveCommit, CancelFrame, CallsOK, RolesChecked
    <3>4. CancelTableStep
      <4>1. CASE cancels' = cancels
        BY <4>1, <1>c
      <4>2. CASE cancels' # cancels
        BY <2>4, <3>2, <4>2, <1>k DEF CancelReserveCommit, CancelTableStep, RolesChecked
      <4>. QED  BY <4>1, <4>2
    <3>. QED  BY <3>1, <3>3, <3>4, <1>j
  <2>5. ASSUME NEW c \in CancelCalls, CancelListVisit(c)
        PROVE  JoinTableStep /\ CancelTableStep /\ CallsOK
    <3>1. joins' = joins
      BY <2>5 DEF CancelListVisit, CancelFrame
    <3>2. cancelCalls[c] \in Call
      BY <2>5, <1>i DEF CancelListVisit
    <3>3. CallsOK
      BY <2>5, <1>i DEF CancelListVisit, CancelFrame, CallsOK, RolesChecked
    <3>4. cancels' = cancels \/ cancels' = Delete(cancels, cancelCalls[c].game)
      BY <2>5 DEF CancelListVisit
    <3>5. CancelTableStep
      BY <3>2, <3>4, <1>k, <1>c, DeleteOK DEF CancelTableStep
    <3>. QED  BY <3>1, <3>3, <3>5, <1>j
  <2>6. ASSUME NEW g \in Games, NEW w \in Wallets, CancelCancel(g, w)
        PROVE  JoinTableStep /\ CancelTableStep /\ CallsOK
    <3>1. joins' = joins
      BY <2>6 DEF CancelCancel, CancelFrame
    <3>2. CallsOK
      BY <2>6 DEF CancelCancel, CancelFrame, CallsOK, RolesChecked
    <3>3. CancelTableStep
      BY <2>6, DeleteOK DEF CancelCancel, CancelTableStep, IsActive
    <3>. QED  BY <3>1, <3>2, <3>3, <1>j
  <2>. QED  BY <1>2, <2>1, <2>2, <2>3, <2>4, <2>5, <2>6 DEF CancelStep
<1>3. CASE EventStep
  <2>1. ASSUME NEW g \in Games, NEW from \in SUBSET GameStatus, NEW to \in GameStatus,
               NEW todo \in Seq(LobbyRelease), Apply(g, from, to, todo)
        PROVE  JoinTableStep /\ CancelTableStep /\ CallsOK
    <3>1. joins' = joins /\ cancels' = cancels
      BY <2>1 DEF Apply
    <3>2. CallsOK
      BY <2>1 DEF Apply, CallsOK, RolesChecked
    <3>. QED  BY <3>1, <3>2, <1>j, <1>c
  <2>2. ASSUME NEW g \in Games,
               GameInitialized(g) \/ GameStarted(g) \/ GameCancelled(g)
                   \/ SecretOpened(g) \/ GameFinished(g)
        PROVE  JoinTableStep /\ CancelTableStep /\ CallsOK
    <3>1. ReleaseCancel(g) \in LobbyRelease /\ ReleaseJoin(g) \in LobbyRelease
      BY DEF ReleaseCancel, ReleaseJoin, LobbyRelease
    <3>2. /\ <<>> \in Seq(LobbyRelease)
          /\ <<ReleaseCancel(g)>> \in Seq(LobbyRelease)
          /\ <<ReleaseJoin(g), ReleaseCancel(g)>> \in Seq(LobbyRelease)
      BY <3>1
    <3>3. /\ {NotCreated, WaitingForOpponent, WaitingForOpenBids, Paid} \subseteq GameStatus
          /\ Started \in SUBSET GameStatus
      BY DEF GameStatus, Started
    <3>4. CASE SecretOpened(g)
      <4>1. PICK to \in GameStatus : to = status[g]
        OBVIOUS
      <4>2. Apply(g, Started, to, <<ReleaseCancel(g)>>)
        BY <3>4, <4>1 DEF SecretOpened, Apply
      <4>. QED  BY <2>1, <3>2, <3>3, <4>2
    <3>5. CASE GameInitialized(g)
      <4>1. PICK from \in SUBSET GameStatus, to \in GameStatus, todo \in Seq(LobbyRelease) :
               from = {NotCreated} /\ to = WaitingForOpponent /\ todo = <<>>
        BY <3>2, <3>3
      <4>2. Apply(g, from, to, todo)
        BY <3>5, <4>1 DEF GameInitialized
      <4>. QED  BY <2>1, <4>2
    <3>6. CASE GameStarted(g)
      <4>1. PICK from \in SUBSET GameStatus, to \in GameStatus, todo \in Seq(LobbyRelease) :
               from = {WaitingForOpponent} /\ to = WaitingForOpenBids /\ todo = <<ReleaseJoin(g), ReleaseCancel(g)>>
        BY <3>2, <3>3
      <4>2. Apply(g, from, to, todo)
        BY <3>6, <4>1 DEF GameStarted
      <4>. QED  BY <2>1, <4>2
    <3>7. CASE GameCancelled(g)
      <4>1. PICK from \in SUBSET GameStatus, to \in GameStatus, todo \in Seq(LobbyRelease) :
               from = {WaitingForOpponent} /\ to = Paid /\ todo = <<ReleaseCancel(g)>>
        BY <3>2, <3>3
      <4>2. Apply(g, from, to, todo)
        BY <3>7, <4>1 DEF GameCancelled
      <4>. QED  BY <2>1, <4>2
    <3>8. CASE GameFinished(g)
      <4>1. PICK from \in SUBSET GameStatus, to \in GameStatus, todo \in Seq(LobbyRelease) :
               from = Started /\ to = Paid /\ todo = <<ReleaseCancel(g)>>
        BY <3>2, <3>3, ZenonT(40)
      <4>2. Apply(g, from, to, todo)
        BY <3>8, <4>1 DEF GameFinished
      <4>. QED  BY <2>1, <4>2
    <3>. QED  BY <2>2, <3>4, <3>5, <3>6, <3>7, <3>8
  <2>3. CASE HandlerRelease
    <3>1. Head(releases) \in LobbyRelease /\ releases' \in Seq(LobbyRelease)
      BY <2>3 DEF HandlerRelease
    <3>2. Head(releases).game \in Games
      BY <3>1 DEF LobbyRelease
    <3>3. CallsOK
      BY <2>3, <3>1 DEF HandlerRelease, CallsOK, RolesChecked
    <3>4. CASE ReleaseOnJoin(Head(releases).game) /\ cancels' = cancels
      BY <3>2, <3>3, <3>4, <1>j, <1>c, ReleaseOK
         DEF ReleaseOnJoin, JoinTableStep, IsActive
    <3>5. CASE ReleaseOnUnavailable(Head(releases).game) /\ joins' = joins
      BY <3>2, <3>3, <3>5, <1>j, <1>c, DeleteOK
         DEF ReleaseOnUnavailable, CancelTableStep
    <3>. QED  BY <2>3, <3>4, <3>5 DEF HandlerRelease
  <2>. QED  BY <1>3, <2>2, <2>3 DEF EventStep
<1>4. CASE JoinCleanup
  <2>1. CallsOK
    BY <1>4 DEF JoinCleanup, JoinCleanupExpired, CallsOK, RolesChecked
  <2>2. JoinTableStep
    <3>1. CASE joins' = Swept(joins, Overdue(joins), Settled(joins))
      BY <3>1, SweptOK DEF JoinTableStep
    <3>2. ASSUME NEW caught \in SUBSET Expiring(joins),
                 NEW missed \in SUBSET (Expiring(joins) \ caught),
                 joins' = Swept(Aged(joins), Overdue(joins) \cup caught,
                                Settled(joins) \cup missed)
          PROVE  JoinTableStep
      BY <3>2, SweptAgedOK DEF JoinTableStep
    <3>. QED  BY <1>4, <3>1, <3>2 DEF JoinCleanup, JoinCleanupExpired
  <2>3. CancelTableStep
    BY <1>4, <1>c, AgedOK DEF JoinCleanup, JoinCleanupExpired, CancelTableStep
  <2>. QED  BY <2>1, <2>2, <2>3
<1>5. CASE CancelCleanup
  <2>1. CallsOK
    BY <1>5 DEF CancelCleanup, CancelCleanupExpired, CallsOK, RolesChecked
  <2>2. CancelTableStep
    <3>1. CASE cancels' = Swept(cancels, Overdue(cancels), {})
      BY <3>1, SweptOK DEF CancelTableStep
    <3>2. ASSUME NEW caught \in SUBSET Expiring(cancels),
                 cancels' = Swept(Aged(cancels), Overdue(cancels) \cup caught, {})
          PROVE  CancelTableStep
      BY <3>2, SweptAgedOK DEF CancelTableStep
    <3>. QED  BY <1>5, <3>1, <3>2 DEF CancelCleanup, CancelCleanupExpired
  <2>3. JoinTableStep
    BY <1>5, <1>j, AgedOK DEF CancelCleanup, CancelCleanupExpired, JoinTableStep
  <2>. QED  BY <2>1, <2>2, <2>3
<1>6. CASE Tick
  BY <1>6, AgedOK DEF Tick, JoinTableStep, CancelTableStep, CallsOK, RolesChecked
<1>7. CASE Restart
  <2>1. CallsOK
    BY <1>7, <1>i DEF Restart, CallsOK, RolesChecked
  <2>2. \A t : Shrinks(t, EmptyTable)
    BY EmptyTableOK DEF Shrinks
  <2>. QED  BY <1>7, <2>1, <2>2, EmptyTableOK DEF Restart, JoinTableStep, CancelTableStep
<1>. QED  BY <1>1, <1>2, <1>3, <1>4, <1>5, <1>6, <1>7 DEF Next

\* The join table keeps its type, soundness, limit and roles.
LEMMA JoinTableKept ==
    ASSUME IInv, JoinTableStep
    PROVE  /\ joins' \in Table /\ Sound(joins') /\ Limited(joins', MaxJoins)
           /\ \A g \in ActiveGames(joins') : joins'.res[g].holder # Creator[g]
<1> USE LobbyAssumption DEF IInv, TypeOK
<1>0. ActiveGames(joins) \subseteq Games
  BY DEF ActiveGames
<1>1. CASE joins' \in Table /\ Sound(joins') /\ Shrinks(joins, joins')
  <2>1. Limited(joins', MaxJoins)
    BY <1>1, ShrinkKeepsLimit DEF WalletLimit
  <2>2. \A g \in ActiveGames(joins') : joins'.res[g].holder # Creator[g]
    BY <1>0, <1>1 DEF Shrinks, RolesSeparated
  <2>. QED  BY <1>1, <2>1, <2>2
<1>2. ASSUME NEW g \in Games, NEW w \in Wallets, ~JoinRefused(g, w), w # Creator[g],
             joins' = Store(joins, Once(g), w, JoinTimeout)
      PROVE  /\ joins' \in Table /\ Sound(joins') /\ Limited(joins', MaxJoins)
             /\ \A h \in ActiveGames(joins') : joins'.res[h].holder # Creator[h]
  <2>1. Allowed(joins, w, JoinTimeout, MaxJoins)
    BY <1>2 DEF JoinRefused, WalletLimit, Allowed
  <2>2. HeldIn(joins', joins, g, w, MaxJoins)
    BY <1>2, <2>1, OnceStored
  <2>3. \A h \in ActiveGames(joins) : joins.res[h].holder # Creator[h]
    BY <1>0 DEF RolesSeparated
  <2>. HIDE LobbyAssumption DEF IInv, TypeOK
  <2>. QED  BY <1>0, <1>2, <2>2, <2>3 DEF HeldIn
<1>. QED  BY <1>1, <1>2 DEF JoinTableStep

\* The cancel table keeps its type, soundness, limit and roles.
LEMMA CancelTableKept ==
    ASSUME IInv, CancelTableStep
    PROVE  /\ cancels' \in Table /\ Sound(cancels') /\ Limited(cancels', MaxCancels)
           /\ \A g \in ActiveGames(cancels') : cancels'.res[g].holder = Creator[g]
<1> USE LobbyAssumption DEF IInv, TypeOK
<1>0. ActiveGames(cancels) \subseteq Games
  BY DEF ActiveGames
<1>1. CASE cancels' \in Table /\ Sound(cancels') /\ Shrinks(cancels, cancels')
  <2>1. Limited(cancels', MaxCancels)
    BY <1>1, ShrinkKeepsLimit DEF WalletLimit
  <2>2. \A g \in ActiveGames(cancels') : cancels'.res[g].holder = Creator[g]
    BY <1>0, <1>1 DEF Shrinks, RolesSeparated
  <2>. QED  BY <1>1, <2>1, <2>2
<1>2. ASSUME NEW g \in Games, NEW w \in Wallets, ~CancelRefused(g, w), w = Creator[g],
             cancels' = Store(cancels, Once(g), w, CancelTimeout)
      PROVE  /\ cancels' \in Table /\ Sound(cancels') /\ Limited(cancels', MaxCancels)
             /\ \A h \in ActiveGames(cancels') : cancels'.res[h].holder = Creator[h]
  <2>1. Allowed(cancels, w, CancelTimeout, MaxCancels)
    BY <1>2 DEF CancelRefused, WalletLimit, Allowed
  <2>2. HeldIn(cancels', cancels, g, w, MaxCancels)
    BY <1>2, <2>1, OnceStored
  <2>3. \A h \in ActiveGames(cancels) : cancels.res[h].holder = Creator[h]
    BY <1>0 DEF RolesSeparated
  <2>. HIDE LobbyAssumption DEF IInv, TypeOK
  <2>. QED  BY <1>0, <1>2, <2>2, <2>3 DEF HeldIn
<1>. QED  BY <1>1, <1>2 DEF CancelTableStep

\* A fresh process satisfies the invariant.
LEMMA InitInv == Init => IInv
<1> SUFFICES ASSUME Init PROVE IInv
  OBVIOUS
<1> USE LobbyAssumption DEF Init
<1>1. TypeOK
  BY EmptyTableOK DEF TypeOK, GameStatus
<1>2. WalletLimit
  <2>1. \A w \in Wallets : HeldBy(EmptyTable, w) = {}
    BY EmptyTableOK DEF HeldBy
  <2>2. Cardinality({}) = 0
    BY FS_EmptySet
  <2>3. \A w \in Wallets : Cardinality(HeldBy(EmptyTable, w)) = 0
    BY <2>1, <2>2
  <2>4. 0 <= MaxJoins /\ 0 <= MaxCancels
    OBVIOUS
  <2>. QED  BY <2>3, <2>4 DEF WalletLimit, Limited
<1>3. RolesChecked /\ RolesSeparated
  BY EmptyTableOK DEF RolesChecked, RolesSeparated, Idle
<1>. QED  BY <1>1, <1>2, <1>3, EmptyTableOK DEF IInv

\* Every step preserves the invariant.
LEMMA NextInv == IInv /\ [Next]_lobbyVars => IInv'
<1>1. ASSUME IInv, Next PROVE IInv'
  <2>1. JoinTableStep /\ CancelTableStep /\ CallsOK
    BY <1>1, StepShape
  <2>2. /\ joins' \in Table /\ Sound(joins') /\ Limited(joins', MaxJoins)
        /\ \A g \in ActiveGames(joins') : joins'.res[g].holder # Creator[g]
    BY <1>1, <2>1, JoinTableKept
  <2>3. /\ cancels' \in Table /\ Sound(cancels') /\ Limited(cancels', MaxCancels)
        /\ \A g \in ActiveGames(cancels') : cancels'.res[g].holder = Creator[g]
    BY <1>1, <2>1, CancelTableKept, SMTT(30)
  <2>. QED  BY <2>1, <2>2, <2>3 DEF IInv, TypeOK, CallsOK, WalletLimit, RolesSeparated
<1>2. ASSUME IInv, UNCHANGED lobbyVars PROVE IInv'
  BY <1>2 DEF IInv, lobbyVars, TypeOK, WalletLimit, RolesChecked, RolesSeparated
<1>. QED  BY <1>1, <1>2

\* The inductive invariant holds in every reachable state.
THEOREM Invariance == Spec => []IInv
BY InitInv, NextInv, PTL DEF Spec

\* FR-010 for any number of games, wallets and concurrent calls: no wallet ever
\* holds more active join or cancel reservations than its limit.
THEOREM WalletLimitHolds == Spec => [](TypeOK /\ WalletLimit)
<1>1. IInv => TypeOK /\ WalletLimit
  BY DEF IInv
<1>. QED  BY <1>1, Invariance, PTL

\* FR-011 for any instance: the creator never holds the join reservation of a
\* game and nobody else holds its cancel reservation.
THEOREM RolesSeparatedHolds == Spec => []RolesSeparated
<1>1. IInv => RolesSeparated
  BY DEF IInv
<1>. QED  BY <1>1, Invariance, PTL

\* ListByWallet reports every reservation a wallet holds, for any instance.
THEOREM HeldIsListedHolds == Spec => []HeldIsListed
<1>1. IInv => HeldIsListed
  BY DEF IInv, HeldIsListed, Sound, HeldBy, Listed, ActiveGames, IsActive
<1>. QED  BY <1>1, Invariance, PTL

\* A step of the join table is a step of the lease: reservations that end are
\* lapses, a stored one is an acquisition of a free game.
LEMMA JoinStepIsLeaseStep ==
    ASSUME IInv, JoinTableStep
    PROVE  JoinLease!Next
<1> USE LobbyAssumption DEF IInv, TypeOK
<1> DEFINE H == [g \in Games |-> IF IsActive(joins.res[g]) THEN joins.res[g].holder
                                                            ELSE NoWallet]
<1>0. ActiveGames(joins) \subseteq Games /\ ActiveGames(joins') \subseteq Games
  BY DEF ActiveGames
<1>h. /\ \A g \in Games : H[g] = IF g \in ActiveGames(joins) THEN joins.res[g].holder
                                                            ELSE NoWallet
      /\ H' = [g \in Games |-> IF g \in ActiveGames(joins') THEN joins'.res[g].holder
                                                            ELSE NoWallet]
  BY DEF ActiveGames
<1>1. CASE Shrinks(joins, joins')
  <2>0. PICK S \in SUBSET Games : S = Games \ ActiveGames(joins')
    OBVIOUS
  <2>1. H' = [g \in Games |-> IF g \in S THEN NoWallet ELSE H[g]]
    BY <2>0, <1>h, <1>0, <1>1 DEF Shrinks
  <2>2. JoinLease!Lapse(S)
    BY <2>1 DEF JoinLease!Lapse
  <2>. QED  BY <2>2 DEF JoinLease!Next
<1>2. ASSUME NEW g \in Games, NEW w \in Wallets, ~JoinRefused(g, w),
             joins' = Store(joins, Once(g), w, JoinTimeout)
      PROVE  JoinLease!Next
  <2>1. Allowed(joins, w, JoinTimeout, MaxJoins)
    BY <1>2 DEF JoinRefused, WalletLimit, Allowed
  <2>2. HeldIn(joins', joins, g, w, MaxJoins)
    BY <1>2, <2>1, OnceStored
  <2>. HIDE LobbyAssumption DEF IInv, TypeOK
  <2>3. /\ ActiveGames(joins') = ActiveGames(joins) \cup {g}
        /\ \A h \in Games : joins'.res[h].holder = IF h = g THEN w ELSE joins.res[h].holder
        /\ Cardinality(HeldBy(joins, w) \cup {g}) <= MaxJoins
    BY <2>2 DEF HeldIn
  <2>4. {h \in Games : H[h] = w} = HeldBy(joins, w)
    BY <1>h, <1>0, NoWalletAssumption DEF HeldBy
  <2>5. H[g] = NoWallet
    BY <1>h, <1>2 DEF JoinRefused, ActiveGames
  <2>6. H' = [h \in Games |-> IF h \in {g} THEN w ELSE H[h]]
    BY <1>h, <1>0, <2>3
  <2>7. JoinLease!Acquire(w, {g})
    BY <1>0, <2>3, <2>4, <2>5, <2>6 DEF HeldBy, JoinLease!Acquire, JoinLease!Leased
  <2>. QED  BY <2>7 DEF JoinLease!Next
<1>. QED  BY <1>1, <1>2 DEF JoinTableStep

\* For any instance: the join table implements the exclusive lease.
THEOREM JoinIsLeaseHolds == Spec => JoinIsLease
<1>1. Init => JoinLease!Init
  BY DEF Init, JoinLease!Init, EmptyTable, Absent, IsActive
<1>2. IInv /\ [Next]_lobbyVars =>
        [JoinLease!Next]_([g \in Games |-> IF IsActive(joins.res[g])
                                             THEN joins.res[g].holder ELSE NoWallet])
  <2>1. ASSUME IInv, Next PROVE JoinLease!Next
    BY <2>1, StepShape, JoinStepIsLeaseStep
  <2>. QED  BY <2>1 DEF lobbyVars
<1>. QED  BY <1>1, <1>2, Invariance, PTL DEF Spec, JoinIsLease, JoinLease!Spec

\* A step of the cancel table is a step of the lease: reservations that end are
\* lapses, a stored one is an acquisition of a free game.
LEMMA CancelStepIsLeaseStep ==
    ASSUME IInv, CancelTableStep
    PROVE  CancelLease!Next
<1> USE LobbyAssumption DEF IInv, TypeOK
<1> DEFINE H == [g \in Games |-> IF IsActive(cancels.res[g]) THEN cancels.res[g].holder
                                                            ELSE NoWallet]
<1>0. ActiveGames(cancels) \subseteq Games /\ ActiveGames(cancels') \subseteq Games
  BY DEF ActiveGames
<1>h. /\ \A g \in Games : H[g] = IF g \in ActiveGames(cancels) THEN cancels.res[g].holder
                                                            ELSE NoWallet
      /\ H' = [g \in Games |-> IF g \in ActiveGames(cancels') THEN cancels'.res[g].holder
                                                            ELSE NoWallet]
  BY DEF ActiveGames
<1>1. CASE Shrinks(cancels, cancels')
  <2>0. PICK S \in SUBSET Games : S = Games \ ActiveGames(cancels')
    BY ZenonT(40)
  <2>1. H' = [g \in Games |-> IF g \in S THEN NoWallet ELSE H[g]]
    BY <2>0, <1>h, <1>0, <1>1 DEF Shrinks
  <2>2. CancelLease!Lapse(S)
    BY <2>1 DEF CancelLease!Lapse
  <2>. QED  BY <2>2 DEF CancelLease!Next
<1>2. ASSUME NEW g \in Games, NEW w \in Wallets, ~CancelRefused(g, w),
             cancels' = Store(cancels, Once(g), w, CancelTimeout)
      PROVE  CancelLease!Next
  <2>1. Allowed(cancels, w, CancelTimeout, MaxCancels)
    BY <1>2 DEF CancelRefused, WalletLimit, Allowed
  <2>2. HeldIn(cancels', cancels, g, w, MaxCancels)
    BY <1>2, <2>1, OnceStored
  <2>. HIDE LobbyAssumption DEF IInv, TypeOK
  <2>3. /\ ActiveGames(cancels') = ActiveGames(cancels) \cup {g}
        /\ \A h \in Games : cancels'.res[h].holder = IF h = g THEN w ELSE cancels.res[h].holder
        /\ Cardinality(HeldBy(cancels, w) \cup {g}) <= MaxCancels
    BY <2>2 DEF HeldIn
  <2>4. {h \in Games : H[h] = w} = HeldBy(cancels, w)
    BY <1>h, <1>0, NoWalletAssumption DEF HeldBy
  <2>5. H[g] = NoWallet
    BY <1>h, <1>2 DEF CancelRefused, ActiveGames
  <2>6. H' = [h \in Games |-> IF h \in {g} THEN w ELSE H[h]]
    BY <1>h, <1>0, <2>3
  <2>7. CancelLease!Acquire(w, {g})
    BY <1>0, <2>3, <2>4, <2>5, <2>6 DEF HeldBy, CancelLease!Acquire, CancelLease!Leased
  <2>. QED  BY <2>7 DEF CancelLease!Next
<1>. QED  BY <1>1, <1>2 DEF CancelTableStep

\* For any instance: the cancel table implements the exclusive lease.
THEOREM CancelIsLeaseHolds == Spec => CancelIsLease
<1>1. Init => CancelLease!Init
  BY DEF Init, CancelLease!Init, EmptyTable, Absent, IsActive
<1>2. IInv /\ [Next]_lobbyVars =>
        [CancelLease!Next]_([g \in Games |-> IF IsActive(cancels.res[g])
                                             THEN cancels.res[g].holder ELSE NoWallet])
  <2>1. ASSUME IInv, Next PROVE CancelLease!Next
    BY <2>1, StepShape, CancelStepIsLeaseStep
  <2>. QED  BY <2>1 DEF lobbyVars
<1>. QED  BY <1>1, <1>2, Invariance, PTL DEF Spec, CancelIsLease, CancelLease!Spec
=============================================================================
