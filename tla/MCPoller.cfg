\* Pages of two transactions on a chain of seven: backfills take up to three pages.
CONSTANTS
    PageSize = 2
    MaxTx = 7
    MaxRestarts = 2
SPECIFICATION FairSpec
INVARIANTS NoGap CheckpointHandled
PROPERTY CatchesUp
