----------------------------- MODULE MCFollowUp ------------------------------
(***************************************************************************)
(* A small instance of the follow-up reservations for TLC.                 *)
(***************************************************************************)
EXTENDS FollowUp, TLC

CONSTANTS g1, g2, w1, w2, w3, c1, c2, c3

\* w1 and w2 play both games, w3 plays none.
PlayedByTwo == [g \in Games |-> {w1, w2}]

\* The games, the two players and the calls are interchangeable.
Symmetry == Permutations(Games) \cup Permutations({w1, w2}) \cup Permutations(ClaimCalls)
=============================================================================
