----------------------------- MODULE MCGameFeed -----------------------------
EXTENDS GameFeed

CONSTANTS c1, c2, r1
=============================================================================
