\* Two connections, two games of which one is stored, two changes: an update and a
\* notice at once, or two updates of one game.
CONSTANTS
    c1 = c1  c2 = c2  r1 = r1
    Clients = {c1, c2}
    Games = {1, 2}
    Known = {1}
    Requests = {r1}
    MaxChanges = 2
    MaxFrames = 1
SPECIFICATION FairSpec
INVARIANTS CountMatches OpenIsSubscribed UpdatesInOrder NothingMissed
PROPERTIES LeavesHub SyncCoversPast
CHECK_DEADLOCK FALSE
