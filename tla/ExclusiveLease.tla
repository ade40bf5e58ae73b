--------------------------- MODULE ExclusiveLease ---------------------------
(***************************************************************************)
(* What every reservation table promises: a game is leased to at most one  *)
(* wallet, a lease is taken only of a free game, it never passes from one  *)
(* wallet to another without being free in between, and a wallet never     *)
(* holds more leases than its quota.                                       *)
(***************************************************************************)
CONSTANTS Games, Wallets, NoWallet,
          Quota   \* the sets of games one wallet may lease at a time

VARIABLE holder   \* the wallet that leases each game, or NoWallet

Init == holder = [g \in Games |-> NoWallet]

Leased(w) == {g \in Games : holder[g] = w}

\* One wallet takes a non-empty set of free games at once.
Acquire(w, S) ==
    /\ S # {}
    /\ \A g \in S : holder[g] = NoWallet
    /\ Leased(w) \cup S \in Quota
    /\ holder' = [g \in Games |-> IF g \in S THEN w ELSE holder[g]]

\* Leases end: given back, consumed, expired or lost with the process.
Lapse(S) == holder' = [g \in Games |-> IF g \in S THEN NoWallet ELSE holder[g]]

Next == \E S \in SUBSET Games : Lapse(S) \/ \E w \in Wallets : Acquire(w, S)

Spec == Init /\ [][Next]_holder
=============================================================================
