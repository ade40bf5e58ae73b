-------------------------- MODULE JoinReservation ---------------------------
(***************************************************************************)
(* ReservationUseCase: the advisory lock a player takes on a waiting game  *)
(* before joining it on chain.                                             *)
(***************************************************************************)
EXTENDS LobbyState

JoinFrame == UNCHANGED <<status, cancels, cancelCalls, releases>>

\* Mutant: the creator may reserve too.
JoinReserveReadAnyone(c, g, w) ==
    /\ joinCalls[c] = Idle
    /\ status[g] = WaitingForOpponent
    /\ joinCalls' = [joinCalls EXCEPT ![c] = InFlight("gameRead", g, w)]
    /\ UNCHANGED joins /\ JoinFrame

\* Reserve, first part: the game is read outside the lock.
JoinReserveRead(c, g, w) ==
    /\ joinCalls[c] = Idle
    /\ status[g] = WaitingForOpponent
    /\ Creator[g] # w
    /\ joinCalls' = [joinCalls EXCEPT ![c] = InFlight("gameRead", g, w)]
    /\ UNCHANGED joins /\ JoinFrame

\* Reserve, second part: a pending cancellation rejects the call.
JoinReserveCheckCancel(c) ==
    /\ joinCalls[c].pc = "gameRead"
    /\ joinCalls' = [joinCalls EXCEPT ![c] =
            IF IsActive(cancels.res[@.game]) THEN Idle ELSE [@ EXCEPT !.pc = "peerChecked"]]
    /\ UNCHANGED joins /\ JoinFrame

\* Mutant: one reservation too many.
JoinRefusedLate(g, w) ==
    \/ IsActive(joins.res[g])
    \/ ActiveCount(joins, w) > MaxJoins

\* Mutant: the game is not looked up again under the lock.
JoinRefusedByLimit(g, w) == ActiveCount(joins, w) >= MaxJoins

\* The two conditions under which the locked section refuses.
JoinRefused(g, w) ==
    \/ IsActive(joins.res[g])
    \/ ActiveCount(joins, w) >= MaxJoins

\* Reserve, third part: check and insert under the mutex.
JoinReserveCommit(c) ==
    /\ joinCalls[c].pc = "peerChecked"
    /\ LET g == joinCalls[c].game
           w == joinCalls[c].wallet
       IN \/ JoinRefused(g, w) /\ UNCHANGED joins
          \/ /\ ~JoinRefused(g, w)
             /\ IndexHasRoom(joins, w, g)
             /\ joins' = Store(joins, Once(g), w, JoinTimeout)
    /\ joinCalls' = [joinCalls EXCEPT ![c] = Idle]
    /\ JoinFrame

\* Cancel: only the holder of an active reservation.
JoinCancel(g, w) ==
    /\ IsActive(joins.res[g])
    /\ joins.res[g].holder = w
    /\ joins' = Release(joins, g)
    /\ UNCHANGED joinCalls /\ JoinFrame

\* ListByWallet, first part: the snapshot under the read lock.  The games of
\* the snapshot are handled independently of each other, so a call follows one.
JoinListSnapshot(c, g, w) ==
    /\ joinCalls[c] = Idle
    /\ g \in Listed(joins, w)
    /\ joinCalls' = [joinCalls EXCEPT ![c] = InFlight("listed", g, w)]
    /\ UNCHANGED joins /\ JoinFrame

\* ListByWallet, second part: the game is read again; when it is not waiting
\* any more, releaseStaleReservation deletes whatever reservation it has now.
\* (A game never becomes waiting again, so read and release are one step.)
JoinListVisit(c) ==
    /\ joinCalls[c].pc = "listed"
    /\ LET g == joinCalls[c].game
       IN joins' = IF status[g] # WaitingForOpponent /\ joins.res[g].status # "absent"
                     THEN Delete(joins, g)
                     ELSE joins
    /\ joinCalls' = [joinCalls EXCEPT ![c] = Idle]
    /\ JoinFrame

\* ReleaseOnJoin, called by the event handler once the join is stored.
ReleaseOnJoin(g) ==
    joins' = IF IsActive(joins.res[g]) THEN Release(joins, g) ELSE joins

\* CleanupExpired reads the clock twice per entry (IsExpired, then IsActive)
\* and once more for the next entry.  A tick may fall anywhere in the pass:
\* among the entries it expires, caught were visited after it and missed
\* between their two reads; those leave the map without leaving the index.
JoinCleanupExpired ==
    \/ /\ joins' = Swept(joins, Overdue(joins), Settled(joins))
       /\ UNCHANGED <<joinCalls, cancels>>
    \/ \E caught \in SUBSET Expiring(joins) :
       \E missed \in SUBSET (Expiring(joins) \ caught) :
          /\ joins' = Swept(Aged(joins), Overdue(joins) \cup caught,
                            Settled(joins) \cup missed)
          /\ cancels' = Aged(cancels)
          /\ UNCHANGED joinCalls

JoinCleanup == JoinCleanupExpired /\ UNCHANGED <<status, cancelCalls, releases>>
=============================================================================
