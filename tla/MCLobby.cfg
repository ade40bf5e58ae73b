\* Two games, a creator and two competitors; one table at a time.
CONSTANTS
    g1 = g1  g2 = g2  w1 = w1  w2 = w2  w3 = w3  c1 = c1  c2 = c2
    Games = {g1, g2}
    Wallets = {w1, w2, w3}
    NoWallet = NoWallet
    Creator <- CreatedByW1
    JoinTimeout = 1
    MaxJoins = 1
    CancelTimeout = 1
    MaxCancels = 1
    JoinCalls = {c1}
    CancelCalls = {c1, c2}
    IndexBound = 2
SPECIFICATION Spec
SYMMETRY Symmetry
INVARIANTS WalletLimit HeldIsListed RolesSeparated
PROPERTIES JoinIsLease CancelIsLease
CONSTRAINT OneTable
