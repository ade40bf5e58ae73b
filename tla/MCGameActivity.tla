--------------------------- MODULE MCGameActivity ---------------------------
EXTENDS GameActivity

CONSTANTS g1, g2, w1, w2, none

\* Neither games nor wallets are told apart.
Symmetry == Permutations({g1, g2}) \cup Permutations({w1, w2})
=============================================================================
