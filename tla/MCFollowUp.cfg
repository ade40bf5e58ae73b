\* Two games of two players, an outsider, one reveal call and two claim calls in
\* flight, batches of up to two ids.
CONSTANTS
    g1 = g1  g2 = g2  w1 = w1  w2 = w2  w3 = w3  c1 = c1  c2 = c2  c3 = c3
    Games = {g1, g2}
    Wallets = {w1, w2, w3}
    NoWallet = NoWallet
    Players <- PlayedByTwo
    RevealTimeout = 1
    MaxReveals = 2
    ClaimTimeout = 1
    MaxClaims = 1
    RevealCalls = {c1}
    ClaimCalls = {c2, c3}
    MaxBatch = 2
    IndexBound = 2
SPECIFICATION Spec
SYMMETRY Symmetry
PROPERTIES RevealIsLease ClaimIsLease EndsForCause
