\* One game, a creator and a competitor, three concurrent calls on the two tables.
CONSTANTS
    g1 = g1  g2 = g2  w1 = w1  w2 = w2  w3 = w3  c1 = c1  c2 = c2
    Games = {g1}
    Wallets = {w1, w2}
    NoWallet = NoWallet
    Creator <- CreatedByW1
    JoinTimeout = 1
    MaxJoins = 1
    CancelTimeout = 1
    MaxCancels = 1
    JoinCalls = {c1, c2}
    CancelCalls = {c1}
    IndexBound = 2
SPECIFICATION FairSpec
PROPERTIES StaleReservationsLapse DeadEntriesReclaimed
