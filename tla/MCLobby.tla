------------------------------ MODULE MCLobby -------------------------------
(***************************************************************************)
(* Small instances of the lobby for TLC.                                   *)
(***************************************************************************)
EXTENDS Lobby, TLC

CONSTANTS g1, g2, w1, w2, w3, c1, c2

\* w1 creates every game; the other wallets compete for them.
CreatedByW1 == [g \in Games |-> w1]

\* The games, the competing wallets and the calls are interchangeable.
Symmetry ==
    Permutations(Games) \cup Permutations(Wallets \ {w1})
        \cup Permutations(JoinCalls) \cup Permutations(CancelCalls)

\* Bound: only one of the two tables has entries or calls.
OneTable ==
    \/ joins = EmptyTable /\ joinCalls = [c \in JoinCalls |-> Idle]
    \/ cancels = EmptyTable /\ cancelCalls = [c \in CancelCalls |-> Idle]
=============================================================================
