\* Two games and two wallets; three events, so that games move between the reads of
\* a request and their times are ordered differently from their creation.
CONSTANTS
    g1 = g1  g2 = g2  w1 = w1  w2 = w2  none = none
    Games = {g1, g2}
    Wallets = {w1, w2}
    NoWallet = none
    DefaultLimit = 1
    MaxLimit = 2
    ResponseDefault = 1
    ResponseMax = 2
    MaxEvents = 3
SYMMETRY Symmetry
SPECIFICATION Spec
INVARIANTS ItemsCurrent ListedOnce  
