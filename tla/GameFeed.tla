------------------------------ MODULE GameFeed ------------------------------
(***************************************************************************)
(* The WebSocket endpoints (internal/controller/websocket) on top of the   *)
(* hub: clients of /ws/games and /ws/games/:gameId, the goroutine that     *)
(* stores chain events and broadcasts the new row, requests that change a  *)
(* reservation table and broadcast it, and the shutdown of the service.    *)
(***************************************************************************)
EXTENDS BroadcastHub

CONSTANTS
    Known,          \* the games an earlier process stored
    MaxChanges,     \* bound: chain events and changes of the reservation tables
    MaxFrames       \* bound: sync requests of all clients

ASSUME FeedAssumption ==
    Known \subseteq Games /\ MaxChanges \in Nat /\ MaxFrames \in Nat

VARIABLES
    row,        \* [Games -> Nat], the version of the row; 0: no such game yet
    changes,    \* how many chain events and table changes were stored
    handler,    \* [Clients -> {"none", "reading", "ended"}]
    topic,      \* [Clients -> Topics]
    owed,       \* [Clients -> SUBSET Messages]: what was broadcast while it was subscribed
    frames,     \* how many sync requests there were
    reply       \* [Clients -> NoReply or the message being answered with]

vars == <<gameSubscribers, activeConnections, conn, inbox, casts,
          row, changes, handler, topic, owed, frames, reply>>

clientVars == <<handler, topic, owed, frames, reply>>

serverVars == <<row, changes>>

NoReply == [kind |-> "none"]

\* A process without connections.
Fresh == [subscribers |-> [t \in Topics |-> {}], casts |-> [p \in Senders |-> NoCast],
          conn |-> [c \in Clients |-> "none"], inbox |-> [c \in Clients |-> <<>>],
          topic |-> [c \in Clients |-> GlobalGameID], owed |-> [c \in Clients |-> {}],
          reply |-> [c \in Clients |-> NoReply]]

Init ==
    /\ gameSubscribers = Fresh.subscribers /\ activeConnections = 0
    /\ casts = Fresh.casts /\ conn = Fresh.conn /\ inbox = Fresh.inbox
    /\ handler = Fresh.conn /\ topic = Fresh.topic /\ owed = Fresh.owed
    /\ frames = 0 /\ reply = Fresh.reply
    /\ row = [g \in Games |-> IF g \in Known THEN 1 ELSE 0]
    /\ changes = 0
-----------------------------------------------------------------------------
\* UpgradeCheck lets a per-game client in only if the row exists.
UpgradeCheck(t) == t # GlobalGameID => row[t] > 0

\* HandleConnection and HandleGlobalConnection up to the read loop.
HandleConnection(c) ==
    /\ handler[c] = "none"
    /\ \E t \in Topics :
          /\ UpgradeCheck(t)
          /\ Subscribe(t, c)
          /\ topic' = [topic EXCEPT ![c] = t]
    /\ conn' = [conn EXCEPT ![c] = "open"]
    /\ handler' = [handler EXCEPT ![c] = "reading"]
    /\ UNCHANGED <<inbox, casts, owed, frames, reply, serverVars>>

\* handleSyncRequest reads the row and then writes the answer.  Any other frame,
\* and any frame on the global stream, is dropped or answered with an error.
HandleSyncRequest(c) ==
    /\ topic[c] # GlobalGameID
    /\ handler[c] = "reading" /\ conn[c] = "open"
    /\ reply[c] = NoReply
    /\ frames < MaxFrames
    /\ frames' = frames + 1
    /\ reply' = [reply EXCEPT ![c] = Message("sync", topic[c], row[topic[c]])]
    /\ UNCHANGED <<hubVars, handler, topic, owed, serverVars>>

\* The answer is written by the goroutine that reads; a failed write is logged.
WriteServerMessage(c) ==
    /\ reply[c] # NoReply
    /\ \/ Written(c, reply[c])
       \/ UNCHANGED inbox
    /\ reply' = [reply EXCEPT ![c] = NoReply]
    /\ UNCHANGED <<gameSubscribers, activeConnections, conn, casts, handler, topic, owed,
                   frames, serverVars>>

\* A read fails once the peer is gone, silent for pongWait, or once the
\* connection was closed here; the deferred Unsubscribe and the library's close
\* follow.
HandlerReturns(c) ==
    /\ handler[c] = "reading" /\ conn[c] # "open" /\ reply[c] = NoReply
    /\ Unsubscribe(topic[c], c)
    /\ conn' = [conn EXCEPT ![c] = "closed"]
    /\ inbox' = [inbox EXCEPT ![c] = <<>>]
    /\ handler' = [handler EXCEPT ![c] = "ended"]
    /\ topic' = [topic EXCEPT ![c] = GlobalGameID]
    /\ owed' = [owed EXCEPT ![c] = {}]
    /\ UNCHANGED <<casts, frames, reply, serverVars>>

\* The peer closes or disappears.
PeerLost(c) ==
    /\ conn[c] = "open"
    /\ conn' = [conn EXCEPT ![c] = "lost"]
    /\ inbox' = [inbox EXCEPT ![c] = <<>>]
    /\ owed' = [owed EXCEPT ![c] = {}]
    /\ UNCHANGED <<gameSubscribers, activeConnections, casts, handler, topic, frames, reply,
                   serverVars>>
-----------------------------------------------------------------------------
Due(p, m) ==
    /\ changes < MaxChanges
    /\ changes' = changes + 1
    /\ casts' = [casts EXCEPT ![p] = [phase |-> "ready", msg |-> m]]
    /\ UNCHANGED <<gameSubscribers, activeConnections, conn, inbox, clientVars>>

\* Mutant: the next event does not wait for the broadcast of the last one.
ApplyEventAsync(g) ==
    /\ row' = [row EXCEPT ![g] = @ + 1]
    /\ \E p \in Senders : casts[p] = NoCast /\ Due(p, Message("update", g, row[g] + 1))

\* Mutant: the update is broadcast but not stored.
ApplyEventUnstored(g) ==
    /\ casts["ingest"] = NoCast
    /\ UNCHANGED row
    /\ Due("ingest", Message("update", g, row[g] + 1))

\* A handler of game_persistence.go stores its change, then broadcastGameUpdate
\* reads the row back.  One goroutine applies the events and waits for each
\* broadcast.
ApplyEvent(g) ==
    /\ casts["ingest"] = NoCast
    /\ row' = [row EXCEPT ![g] = @ + 1]
    /\ Due("ingest", Message("update", g, row[g] + 1))

\* broadcastGameUpdate gives up when the row cannot be read: the update is never
\* broadcast.
FetchFails ==
    /\ casts["ingest"].phase = "ready"
    /\ casts' = [casts EXCEPT !["ingest"] = NoCast]
    /\ UNCHANGED <<gameSubscribers, activeConnections, conn, inbox, clientVars, row, changes>>

\* A request, or the handler of an event, changed a reservation table under its
\* mutex and broadcasts after the unlock.
Commit(p) ==
    /\ casts[p] = NoCast
    /\ \E g \in Games : row[g] > 0 /\ Due(p, Message("notice", g, changes + 1))
    /\ UNCHANGED row

Hears(c, m) == c \in gameSubscribers[m.game] \cup gameSubscribers[GlobalGameID]

StartBroadcast(p) ==
    /\ BroadcastEvent(p)
    /\ owed' = [c \in Clients |-> IF conn[c] = "open" /\ Hears(c, casts[p].msg)
                                  THEN owed[c] \cup {casts[p].msg} ELSE owed[c]]
    /\ UNCHANGED <<handler, topic, frames, reply, serverVars>>

Broadcast(p) ==
    \/ StartBroadcast(p)
    \/ Send(p) /\ UNCHANGED <<clientVars, serverVars>>
    \/ CleanupFailedConnections(p) /\ UNCHANGED <<clientVars, serverVars>>

\* Two goroutines write to the connection at once.
Contended(c) ==
    LET broadcasts == {p \in Senders : casts[p].phase = "sending" /\ c \in casts[p].left}
    IN  Cardinality(broadcasts) + (IF reply[c] = NoReply THEN 0 ELSE 1) > 1

\* No lock orders the writers of a connection.  Writes that overlap go out one
\* after the other, spoil a frame, so that the peer gives up (PeerLost), or the
\* library panics.  The panic of a request is recovered; its broadcast ends
\* without the cleanup.  The reader of a connection ends as after PeerLost.
BroadcastPanics(p) ==
    /\ p # "ingest"
    /\ casts[p].phase = "sending"
    /\ \E c \in casts[p].left : Contended(c)
    /\ casts' = [casts EXCEPT ![p] = NoCast]
    /\ owed' = [c \in Clients |-> owed[c] \ {casts[p].msg}]
    /\ UNCHANGED <<gameSubscribers, activeConnections, conn, inbox, handler, topic, frames, reply,
                   serverVars>>

\* Outside of requests, in the goroutine that applies events or that cleans up
\* expired reservations, nobody recovers: the process ends and the next one
\* starts without connections.
Crash ==
    /\ \E c \in Clients : Contended(c)
    /\ gameSubscribers' = Fresh.subscribers /\ activeConnections' = 0
    /\ casts' = Fresh.casts /\ conn' = Fresh.conn /\ inbox' = Fresh.inbox
    /\ handler' = Fresh.conn /\ topic' = Fresh.topic /\ owed' = Fresh.owed
    /\ reply' = Fresh.reply
    /\ UNCHANGED <<frames, serverVars>>

Shutdown == CloseAllConnections /\ UNCHANGED <<clientVars, serverVars>>

Client(c) ==
    \/ HandleConnection(c) \/ HandleSyncRequest(c)
    \/ WriteServerMessage(c) \/ HandlerReturns(c) \/ PeerLost(c)

Next ==
    \/ \E c \in Clients : Client(c)
    \/ \E g \in Games : ApplyEvent(g)
    \/ FetchFails
    \/ \E p \in Senders : Commit(p) \/ Broadcast(p) \/ BroadcastPanics(p)
    \/ Crash
    \/ Shutdown

Spec == Init /\ [][Next]_vars

(***************************************************************************)
(* Every write has a deadline of ten seconds and a read one of pongWait,   *)
(* so a started broadcast and a broken connection both come to an end.     *)
(***************************************************************************)
FairSpec ==
    /\ Spec
    /\ \A p \in Senders : WF_vars(Broadcast(p))
    /\ \A c \in Clients : WF_vars(WriteServerMessage(c)) /\ WF_vars(HandlerReturns(c))
-----------------------------------------------------------------------------
\* Every variable holds values of the kind the program keeps in it.
TypeOK ==
    /\ gameSubscribers \in [Topics -> SUBSET Clients]
    /\ activeConnections \in Nat
    /\ conn \in [Clients -> {"none", "open", "lost", "closed"}]
    /\ inbox \in [Clients -> Seq(Messages)]
    /\ casts \in [Senders -> Cast]
    /\ row \in [Games -> Nat]
    /\ changes \in Nat
    /\ handler \in [Clients -> {"none", "reading", "ended"}]
    /\ topic \in [Clients -> Topics]
    /\ owed \in [Clients -> SUBSET Messages]
    /\ frames \in 0 .. MaxFrames
    /\ reply \in [Clients -> Messages \cup {NoReply}]

Entries == {e \in Topics \X Clients : e[2] \in gameSubscribers[e[1]]}

\* The connection count of the metrics is the number of subscriptions, although
\* a broadcast that failed on a client, the client's own handler and the
\* shutdown may all remove it.
CountMatches == activeConnections = Cardinality(Entries)

\* No zombies: a connection that is open and being read is in the hub, so a
\* client that a failed write dropped changes it.
OpenIsSubscribed ==
    \A c \in Clients :
        handler[c] = "reading" /\ conn[c] = "open" => c \in gameSubscribers[topic[c]]

Update(m, g) == m.kind = "update" /\ m.game = g

\* The game_state_update messages of one game reach a client in the order of
\* the chain, each at most once.
UpdatesInOrder ==
    \A c \in Clients, g \in Games : \A i, j \in DOMAIN inbox[c] :
        i < j /\ Update(inbox[c][i], g) /\ Update(inbox[c][j], g) => inbox[c][i].n < inbox[c][j].n

Got(c, m) == \E i \in DOMAIN inbox[c] : inbox[c][i] = m

\* The broadcast of m has yet to write to c, or has to drop c for a failed write.
Outstanding(c, m) ==
    \E p \in Senders :
        casts[p].phase = "sending" /\ casts[p].msg = m /\ c \in casts[p].left \cup casts[p].failed

\* The subscriber maps are copied, so connections that come and go during a
\* broadcast cost nobody a message: a connected client has every message whose
\* broadcast started while it was subscribed, or the broadcast is under way,
\* unless a panic ended it.
NothingMissed ==
    \A c \in Clients : \A m \in owed[c] :
        conn[c] = "open" => Got(c, m) \/ Outstanding(c, m)

\* A connection that broke leaves the hub, and the connection count with it,
\* even if nothing is ever broadcast to it.
LeavesHub ==
    \A c \in Clients : conn[c] \in {"lost", "closed"} ~> c \notin Subscribers

\* The row handleSyncRequest reads is at least as new as every update the client
\* has by then: nothing is broadcast that a client could not fetch.
SyncCoversPast ==
    [][\A c \in Clients : reply[c] = NoReply /\ reply'[c] # NoReply =>
          \A i \in DOMAIN inbox[c] :
              inbox[c][i].kind = "update" => inbox[c][i].n <= reply'[c].n]_vars
=============================================================================
