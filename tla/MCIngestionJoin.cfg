\* A crash between the event row and the update of the game.
CONSTANTS
    g1 = g1
    Games = {g1}
    MaxRetries = 1
    MaxFaults = 0
    LostReplies = FALSE
    PageSize = 4
    MaxTx = 4
    MaxRestarts = 1
    Emitted <- GameKinds
SPECIFICATION Spec
INVARIANTS JoinNotLost
