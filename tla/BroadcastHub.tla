---------------------------- MODULE BroadcastHub ----------------------------
(***************************************************************************)
(* The hub that fans messages out to WebSocket clients                     *)
(* (internal/usecase/game_broadcast.go).  Subscribing, unsubscribing, the  *)
(* snapshot and the cleanup of a broadcast each run under the hub's mutex; *)
(* the writes between snapshot and cleanup run outside it.                 *)
(*                                                                         *)
(* A broadcast runs in the goroutine of its sender: the one that applies   *)
(* chain events, or a request that changed a reservation table.  What a    *)
(* message says is left out but for the game, the kind and a number: the   *)
(* version of the row for a game state, the position in the order of the   *)
(* commits for a reservation notice.                                       *)
(***************************************************************************)
EXTENDS Integers, FiniteSets, Sequences

CONSTANTS
    Clients,     \* connections; every connection gets a fresh client id
    Games,       \* game ids, all positive
    Requests     \* request goroutines that broadcast

GlobalGameID == 0

Topics == Games \cup {GlobalGameID}

ASSUME HubAssumption ==
    /\ GlobalGameID \notin Games
    /\ IsFiniteSet(Clients) /\ IsFiniteSet(Games)
    /\ "ingest" \notin Requests

Senders == Requests \cup {"ingest"}

Message(kind, g, n) == [kind |-> kind, game |-> g, n |-> n]

Messages == [kind : {"update", "sync", "notice"}, game : Games, n : Nat]

NoCast == [phase |-> "none"]

\* phase: "none" -> "ready" (the change is stored, the broadcast is due) ->
\* "sending" -> "none".
Cast ==
    {NoCast} \cup [phase : {"ready"}, msg : Messages]
             \cup [phase : {"sending"}, msg : Messages, left : SUBSET Clients,
                   failed : SUBSET Clients, global : SUBSET Clients]

VARIABLES
    gameSubscribers,    \* [Topics -> SUBSET Clients]; a missing map is an empty set
    activeConnections,
    conn,               \* [Clients -> {"none", "open", "lost", "closed"}]
    inbox,              \* [Clients -> Seq(Messages)]: what a connected peer received
    casts               \* [Senders -> Cast]

hubVars == <<gameSubscribers, activeConnections, conn, inbox, casts>>

Subscribers == UNION {gameSubscribers[t] : t \in Topics}

Subscribe(t, c) ==
    /\ gameSubscribers' = [gameSubscribers EXCEPT ![t] = @ \cup {c}]
    /\ activeConnections' = activeConnections + 1

\* Mutant: the closed connection stays subscribed.
UnsubscribeNever(t, c) == UNCHANGED <<gameSubscribers, activeConnections>>

Unsubscribe(t, c) ==
    IF c \in gameSubscribers[t]
    THEN /\ gameSubscribers' = [gameSubscribers EXCEPT ![t] = @ \ {c}]
         /\ activeConnections' = activeConnections - 1
    ELSE UNCHANGED <<gameSubscribers, activeConnections>>
-----------------------------------------------------------------------------
\* Mutant: a game without subscribers is not sent to the global ones.
SnapshotGameOnly(g) == IF gameSubscribers[g] = {} THEN {} ELSE
                       gameSubscribers[g] \cup gameSubscribers[GlobalGameID]

SnapshotSubscribers(g) == gameSubscribers[g] \cup gameSubscribers[GlobalGameID]

\* BroadcastGameUpdateWithEvent and broadcastEvent up to the first write.
BroadcastEvent(p) ==
    /\ casts[p].phase = "ready"
    /\ LET m == casts[p].msg
           all == SnapshotSubscribers(m.game)
       IN  casts' = [casts EXCEPT ![p] =
               IF all = {} THEN NoCast
               ELSE [phase |-> "sending", msg |-> m, left |-> all, failed |-> {},
                     global |-> gameSubscribers[GlobalGameID]]]
    /\ UNCHANGED <<gameSubscribers, activeConnections, conn, inbox>>

\* A write to a connection whose peer is gone may still go through, and one to
\* a slow peer may miss its deadline.
Written(c, m) ==
    \/ conn[c] = "open" /\ inbox' = [inbox EXCEPT ![c] = Append(@, m)]
    \/ conn[c] = "lost" /\ UNCHANGED inbox

\* One connection less to write to; without a failure there is nothing to clean up.
Sent(cast, c) ==
    IF cast.left = {c} /\ cast.failed = {} THEN NoCast
    ELSE [cast EXCEPT !.left = @ \ {c}]

\* The connections are written in the order of a map iteration: any order.
Send(p) ==
    /\ casts[p].phase = "sending"
    /\ \E c \in casts[p].left :
          \/ /\ Written(c, casts[p].msg)
             /\ casts' = [casts EXCEPT ![p] = Sent(casts[p], c)]
          \/ /\ casts' = [casts EXCEPT ![p].left = @ \ {c}, ![p].failed = @ \cup {c}]
             /\ UNCHANGED inbox
    /\ UNCHANGED <<gameSubscribers, activeConnections, conn>>

\* The clients of key t that a broadcast failed to write to and that are still
\* in the map.
Failed(p, t) ==
    LET cast == casts[p]
    IN  {c \in cast.failed : c \in gameSubscribers[t] /\ (t = GlobalGameID <=> c \in cast.global)}

\* Mutant: the connection is dropped but not closed.
CleanupForgets(p) ==
    /\ casts[p].phase = "sending" /\ casts[p].left = {}
    /\ LET g == casts[p].msg.game
           failed == Failed(p, g) \cup Failed(p, GlobalGameID)
       IN  /\ gameSubscribers' = [t \in Topics |->
                   IF t \in {g, GlobalGameID} THEN gameSubscribers[t] \ Failed(p, t)
                                              ELSE gameSubscribers[t]]
           /\ activeConnections' = activeConnections - Cardinality(failed)
    /\ casts' = [casts EXCEPT ![p] = NoCast]
    /\ UNCHANGED <<inbox, conn>>

CleanupFailedConnections(p) ==
    /\ casts[p].phase = "sending" /\ casts[p].left = {}
    /\ LET g == casts[p].msg.game
           failed == Failed(p, g) \cup Failed(p, GlobalGameID)
       IN  /\ gameSubscribers' = [t \in Topics |->
                   IF t \in {g, GlobalGameID} THEN gameSubscribers[t] \ Failed(p, t)
                                              ELSE gameSubscribers[t]]
           /\ activeConnections' = activeConnections - Cardinality(failed)
           /\ conn' = [c \in Clients |-> IF c \in failed THEN "closed" ELSE conn[c]]
    /\ casts' = [casts EXCEPT ![p] = NoCast]
    /\ UNCHANGED inbox

\* Mutant: the counter is not reset.
CloseAllUncounted ==
    /\ conn' = [c \in Clients |-> IF c \in Subscribers THEN "closed" ELSE conn[c]]
    /\ gameSubscribers' = [t \in Topics |-> {}]
    /\ UNCHANGED <<activeConnections, inbox, casts>>

CloseAllConnections ==
    /\ conn' = [c \in Clients |-> IF c \in Subscribers THEN "closed" ELSE conn[c]]
    /\ gameSubscribers' = [t \in Topics |-> {}]
    /\ activeConnections' = 0
    /\ UNCHANGED <<inbox, casts>>
=============================================================================
