------------------------- MODULE CancelReservation --------------------------
(***************************************************************************)
(* CancelReservationUseCase: the advisory lock the creator of a waiting    *)
(* game takes before cancelling it on chain.  Unlike the join table it     *)
(* deletes an entry as soon as it is released.                             *)
(***************************************************************************)
EXTENDS LobbyState

CancelFrame == UNCHANGED <<status, joins, joinCalls, releases>>

\* Reserve, first part: the game is read; only its creator may go on.
CancelReserveRead(c, g, w) ==
    /\ cancelCalls[c] = Idle
    /\ status[g] = WaitingForOpponent
    /\ Creator[g] = w
    /\ cancelCalls' = [cancelCalls EXCEPT ![c] = InFlight("gameRead", g, w)]
    /\ UNCHANGED cancels /\ CancelFrame

\* Reserve, second part: an active join reservation rejects the call.
CancelReserveCheckJoin(c) ==
    /\ cancelCalls[c].pc = "gameRead"
    /\ cancelCalls' = [cancelCalls EXCEPT ![c] =
            IF IsActive(joins.res[@.game]) THEN Idle ELSE [@ EXCEPT !.pc = "peerChecked"]]
    /\ UNCHANGED cancels /\ CancelFrame

\* Mutant: one reservation too many.
CancelRefusedLate(g, w) ==
    \/ IsActive(cancels.res[g])
    \/ ActiveCount(cancels, w) > MaxCancels

CancelRefused(g, w) ==
    \/ IsActive(cancels.res[g])
    \/ ActiveCount(cancels, w) >= MaxCancels

\* Reserve, third part: check and insert under the mutex.
CancelReserveCommit(c) ==
    /\ cancelCalls[c].pc = "peerChecked"
    /\ LET g == cancelCalls[c].game
           w == cancelCalls[c].wallet
       IN \/ CancelRefused(g, w) /\ UNCHANGED cancels
          \/ /\ ~CancelRefused(g, w)
             /\ IndexHasRoom(cancels, w, g)
             /\ cancels' = Store(cancels, Once(g), w, CancelTimeout)
    /\ cancelCalls' = [cancelCalls EXCEPT ![c] = Idle]
    /\ CancelFrame

\* Cancel: only the holder of an active reservation.
CancelCancel(g, w) ==
    /\ IsActive(cancels.res[g])
    /\ cancels.res[g].holder = w
    /\ cancels' = Delete(cancels, g)
    /\ UNCHANGED cancelCalls /\ CancelFrame

\* ListByWallet: snapshot, then the entries of games that left the lobby are
\* deleted, as in the join table.
CancelListSnapshot(c, g, w) ==
    /\ cancelCalls[c] = Idle
    /\ g \in Listed(cancels, w)
    /\ cancelCalls' = [cancelCalls EXCEPT ![c] = InFlight("listed", g, w)]
    /\ UNCHANGED cancels /\ CancelFrame

CancelListVisit(c) ==
    /\ cancelCalls[c].pc = "listed"
    /\ LET g == cancelCalls[c].game
       IN cancels' = IF status[g] # WaitingForOpponent /\ cancels.res[g].status # "absent"
                       THEN Delete(cancels, g)
                       ELSE cancels
    /\ cancelCalls' = [cancelCalls EXCEPT ![c] = Idle]
    /\ CancelFrame

\* ReleaseOnUnavailable, called by the event handler after game progress.
ReleaseOnUnavailable(g) ==
    cancels' = IF IsActive(cancels.res[g]) THEN Delete(cancels, g) ELSE cancels

\* CleanupExpired: one clock read per entry, index and map always together;
\* a tick during the pass catches the entries visited after it.
CancelCleanupExpired ==
    \/ /\ cancels' = Swept(cancels, Overdue(cancels), {})
       /\ UNCHANGED <<cancelCalls, joins>>
    \/ \E caught \in SUBSET Expiring(cancels) :
          /\ cancels' = Swept(Aged(cancels), Overdue(cancels) \cup caught, {})
          /\ joins' = Aged(joins)
          /\ UNCHANGED cancelCalls

CancelCleanup == CancelCleanupExpired /\ UNCHANGED <<status, joinCalls, releases>>
=============================================================================
