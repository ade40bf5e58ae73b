-------------------------- MODULE RevealReservation --------------------------
(***************************************************************************)
(* RevealReservationUseCase: the advisory lock a player takes on one or    *)
(* several games before opening its bid.                                   *)
(***************************************************************************)
EXTENDS FollowUpState

RevealFrame == UNCHANGED <<kind, status, releases>>

\* ReserveBatch is called with a non-empty list of ids; Reserve passes one id.
RevealReserve(c, b, w) ==
    /\ kind = "reveal"
    /\ calls[c] = Idle
    /\ BatchLen(b) \in 1 .. MaxBatch
    /\ calls' = [calls EXCEPT ![c] =
            [pc |-> "reading", batch |-> b, todo |-> Requested(b), wallet |-> w]]
    /\ UNCHANGED locks /\ RevealFrame

\* What the pre-flight loop asks of every game.
RevealAllowed(g, w) == status[g] = WaitingForOpenBids /\ w \in Players[g]

\* One game of the pre-flight, read outside the lock; a game that does not
\* qualify or cannot be read ends the call.
RevealPreflight(c) ==
    /\ kind = "reveal"
    /\ calls[c].pc = "reading"
    /\ \/ Returns(c)
       \/ \E g \in calls[c].todo :
             /\ RevealAllowed(g, calls[c].wallet)
             /\ calls' = [calls EXCEPT ![c].todo = @ \ {g},
                                       ![c].pc = IF calls[c].todo = {g} THEN "checked" ELSE @]
    /\ UNCHANGED locks /\ RevealFrame

\* Mutant: one of the requested games suffices to be free.
RevealRefusedPartly(b, w) ==
    \/ ActiveCount(locks, w) + BatchLen(b) > MaxReveals
    \/ \A g \in Requested(b) : IsActive(locks.res[g])

\* The locked section refuses a batch over the limit (repeated ids count) and
\* one with a game that anybody holds.
RevealRefused(b, w) ==
    \/ ActiveCount(locks, w) + BatchLen(b) > MaxReveals
    \/ \E g \in Requested(b) : IsActive(locks.res[g])

\* The locked section: all games of the batch or none.
RevealCommit(c) ==
    /\ kind = "reveal"
    /\ calls[c].pc = "checked"
    /\ LET b == calls[c].batch
           w == calls[c].wallet
       IN \/ RevealRefused(b, w) /\ UNCHANGED locks
          \/ /\ ~RevealRefused(b, w)
             /\ IndexHasRoom(locks, w, b)
             /\ locks' = Store(locks, b, w, RevealTimeout)
    /\ Returns(c) /\ RevealFrame

\* Cancel: only the holder of an active reservation.
RevealCancel(g, w) ==
    /\ kind = "reveal"
    /\ IsActive(locks.res[g])
    /\ locks.res[g].holder = w
    /\ locks' = Release(locks, g)
    /\ UNCHANGED calls /\ RevealFrame

\* ReleaseOnTerminal, called by the event handler.
ReleaseOnTerminal(g) ==
    locks' = IF IsActive(locks.res[g]) THEN Release(locks, g) ELSE locks

\* cleanupExpired reads the clock twice per entry: see JoinCleanupExpired.
RevealCleanupExpired ==
    /\ kind = "reveal"
    /\ \/ locks' = Swept(locks, Overdue(locks), Settled(locks))
       \/ \E caught \in SUBSET Expiring(locks) :
          \E missed \in SUBSET (Expiring(locks) \ caught) :
             locks' = Swept(Aged(locks), Overdue(locks) \cup caught, Settled(locks) \cup missed)
    /\ UNCHANGED calls /\ RevealFrame
=============================================================================
