\* Up to three transactions in pages of one, so that gaps are
\* backfilled, two failing calls and a crash.
CONSTANTS
    g1 = g1
    Games = {g1}
    MaxRetries = 1
    MaxFaults = 2
    LostReplies = TRUE
    PageSize = 1
    MaxTx = 3
    MaxRestarts = 1
    Emitted <- Traffic
SPECIFICATION FairSpec
INVARIANTS Recorded EffectsLogged FinishedOnce
PROPERTIES StatusAdvances EventuallyHandled
