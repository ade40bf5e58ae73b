---------------------------- MODULE ExpiredClaim -----------------------------
(***************************************************************************)
(* ExpiredClaimUseCase: the advisory claim a player takes on an ended game *)
(* whose payout is still open.                                             *)
(***************************************************************************)
EXTENDS FollowUpState

ClaimFrame == UNCHANGED <<kind, status, releases>>

\* Claim, first part: the game is read outside the lock.
ClaimRead(c, g, w) ==
    /\ kind = "claim"
    /\ calls[c] = Idle
    /\ status[g] = Ended
    /\ w \in Players[g]
    /\ calls' = [calls EXCEPT ![c] =
            [pc |-> "checked", batch |-> Once(g), todo |-> {}, wallet |-> w]]
    /\ UNCHANGED locks /\ ClaimFrame

\* Mutant: a claim takes over the active claim of the game.
ClaimRefusedFullOnly(b, w) == ActiveCount(locks, w) >= MaxClaims

\* An active claim is returned to its holder or refused to others; neither
\* changes the table.
ClaimRefused(b, w) ==
    \/ \E g \in Requested(b) : IsActive(locks.res[g])
    \/ ActiveCount(locks, w) >= MaxClaims

\* Claim, second part: under the mutex.
ClaimCommit(c) ==
    /\ kind = "claim"
    /\ calls[c].pc = "checked"
    /\ LET b == calls[c].batch
           w == calls[c].wallet
       IN \/ ClaimRefused(b, w) /\ UNCHANGED locks
          \/ /\ ~ClaimRefused(b, w)
             /\ IndexHasRoom(locks, w, b)
             /\ locks' = Store(locks, b, w, ClaimTimeout)
    /\ Returns(c) /\ ClaimFrame

\* Get finds the active claim of a game (peekActiveClaim); ListByWallet finds
\* those of a wallet and then treats each of them like Get does.
ClaimPeek(c, g) ==
    /\ kind = "claim"
    /\ calls[c] = Idle
    /\ IsActive(locks.res[g])
    /\ calls' = [calls EXCEPT ![c] =
            [pc |-> "visiting", batch |-> Once(g), todo |-> {}, wallet |-> locks.res[g].holder]]
    /\ UNCHANGED locks /\ ClaimFrame

\* Mutant: the row is not looked at.
ClaimNotActionableEver(g) == TRUE

\* isClaimGameActionable, negated.
ClaimNotActionable(g) == status[g] # Ended

\* Get reads the game, without the lock; a failed read ends the call.
ClaimVisit(c) ==
    /\ kind = "claim"
    /\ calls[c].pc = "visiting"
    /\ \/ Returns(c)
       \/ /\ \E g \in Requested(calls[c].batch) : ClaimNotActionable(g)
          /\ calls' = [calls EXCEPT ![c].pc = "resolved"]
    /\ UNCHANGED locks /\ ClaimFrame

\* releaseWithReason: whatever active claim the game has by now is released.
ReleaseOnResolved(g) ==
    locks' = IF IsActive(locks.res[g]) THEN Release(locks, g) ELSE locks

ClaimResolve(c) ==
    /\ kind = "claim"
    /\ calls[c].pc = "resolved"
    /\ \E g \in Requested(calls[c].batch) : ReleaseOnResolved(g)
    /\ Returns(c) /\ ClaimFrame

\* Release: only the holder of an active claim.
ClaimRelease(g, w) ==
    /\ kind = "claim"
    /\ IsActive(locks.res[g])
    /\ locks.res[g].holder = w
    /\ locks' = Release(locks, g)
    /\ UNCHANGED calls /\ ClaimFrame

\* CleanupExpired reads the clock twice per entry, as the other tables do.
ClaimCleanupExpired ==
    /\ kind = "claim"
    /\ \/ locks' = Swept(locks, Overdue(locks), Settled(locks))
       \/ \E caught \in SUBSET Expiring(locks) :
          \E missed \in SUBSET (Expiring(locks) \ caught) :
             locks' = Swept(Aged(locks), Overdue(locks) \cup caught, Settled(locks) \cup missed)
    /\ UNCHANGED calls /\ ClaimFrame
=============================================================================
