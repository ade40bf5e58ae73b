--------------------------- MODULE GameFeedProofs ---------------------------
(***************************************************************************)
(* Proofs about the hub and its connections for any number of clients,     *)
(* games and concurrent broadcasts.                                        *)
(***************************************************************************)
EXTENDS GameFeed, FiniteSetTheorems, TLAPS

\* A client is in the map of the topic it connected to, and only while its
\* handler reads.
InMap ==
    \A t \in Topics : \A c \in gameSubscribers[t] : handler[c] = "reading" /\ topic[c] = t

\* An open connection has a handler that reads and a place in the map.
OpenInMap ==
    \A c \in Clients :
        conn[c] = "open" => handler[c] = "reading" /\ c \in gameSubscribers[topic[c]]

Counted == activeConnections = Cardinality(Subscribers)

IInv == TypeOK /\ InMap /\ OpenInMap /\ Counted

\* The global topic is no game.
LEMMA TopicsAre == GlobalGameID \in Topics /\ Games \subseteq Topics
  BY DEF Topics

\* The fields of a broadcast that is being written.
LEMMA SendingCast ==
    ASSUME NEW x \in Cast, x.phase = "sending"
    PROVE  /\ x.msg \in Messages /\ x.left \in SUBSET Clients
           /\ x.failed \in SUBSET Clients /\ x.global \in SUBSET Clients
  BY DEF Cast, NoCast

\* The message of a broadcast that is due.
LEMMA ReadyCast ==
    ASSUME NEW x \in Cast, x.phase = "ready"
    PROVE  x.msg \in Messages
  BY DEF Cast, NoCast

\* Who subscribes is a client, and there are finitely many.
LEMMA FiniteSubscribers ==
    ASSUME TypeOK
    PROVE  Subscribers \in SUBSET Clients /\ IsFiniteSet(Subscribers)
<1>1. Subscribers \in SUBSET Clients
  BY DEF TypeOK, Subscribers
<1>. QED  BY <1>1, HubAssumption, FS_Subset

\* A count of subscribers is a natural number.
LEMMA CountIsNat ==
    ASSUME gameSubscribers' \in [Topics -> SUBSET Clients], Counted'
    PROVE  activeConnections' \in Nat
<1>1. Subscribers' \in SUBSET Clients
  BY DEF Subscribers
<1>2. IsFiniteSet(Subscribers')
  BY <1>1, HubAssumption, FS_Subset
<1>. QED  BY <1>2, FS_CardinalityType DEF Counted

\* Steps that leave the maps, the connections and the handlers alone.
LEMMA MapsKept ==
    ASSUME IInv, UNCHANGED <<gameSubscribers, activeConnections, conn, handler, topic>>
    PROVE  InMap' /\ OpenInMap' /\ Counted'
<1>1. InMap' /\ OpenInMap'
  BY DEF IInv, InMap, OpenInMap
<1>2. Counted'
  BY DEF IInv, Counted, Subscribers
<1>. QED  BY <1>1, <1>2

\* A write appends the message to what the peer received.
LEMMA WrittenType ==
    ASSUME TypeOK, NEW c \in Clients, NEW m \in Messages, Written(c, m) \/ UNCHANGED inbox
    PROVE  inbox' \in [Clients -> Seq(Messages)]
<1>1. inbox \in [Clients -> Seq(Messages)] /\ Append(inbox[c], m) \in Seq(Messages)
  BY DEF TypeOK
<1>. QED  BY <1>1, Zenon DEF Written

\* A process without connections.
FreshState ==
    /\ gameSubscribers = Fresh.subscribers /\ activeConnections = 0
    /\ casts = Fresh.casts /\ conn = Fresh.conn /\ inbox = Fresh.inbox
    /\ handler = Fresh.conn /\ topic = Fresh.topic /\ owed = Fresh.owed /\ reply = Fresh.reply
    /\ frames \in 0 .. MaxFrames /\ row \in [Games -> Nat] /\ changes \in Nat

\* The invariant holds of a process without connections.
LEMMA FreshHub == FreshState => IInv
<1>. SUFFICES ASSUME FreshState PROVE IInv
  OBVIOUS
<1>. USE DEF FreshState
<1>1. gameSubscribers = [t \in Topics |-> {}]
  BY DEF Fresh
<1>2. /\ conn = [c \in Clients |-> "none"] /\ handler = [c \in Clients |-> "none"]
      /\ inbox = [c \in Clients |-> <<>>] /\ topic = [c \in Clients |-> GlobalGameID]
      /\ owed = [c \in Clients |-> {}] /\ reply = [c \in Clients |-> NoReply]
      /\ casts = [p \in Senders |-> NoCast]
  BY DEF Fresh
<1>3. <<>> \in Seq(Messages) /\ NoCast \in Cast /\ NoReply \in Messages \cup {NoReply}
  BY DEF Cast
<1>4. TypeOK
  BY <1>1, <1>2, <1>3, TopicsAre DEF TypeOK
<1>5. InMap /\ OpenInMap
  BY <1>1, <1>2 DEF InMap, OpenInMap
<1>6. Subscribers = {}
  BY <1>1 DEF Subscribers
<1>7. Counted
  BY <1>6, FS_EmptySet DEF Counted
<1>. QED  BY <1>4, <1>5, <1>7 DEF IInv

\* The service starts without connections.
LEMMA InitIInv == Init => IInv
<1>1. Init => FreshState
  BY FeedAssumption DEF Init, FreshState
<1>. QED  BY <1>1, FreshHub

\* A connection is subscribed once.
LEMMA HandleConnectionKeeps ==
    ASSUME IInv, NEW c \in Clients, HandleConnection(c)
    PROVE  IInv'
<1>. USE DEF HandleConnection, Subscribe
<1>1. PICK t \in Topics :
         /\ gameSubscribers' = [gameSubscribers EXCEPT ![t] = @ \cup {c}]
         /\ activeConnections' = activeConnections + 1
         /\ topic' = [topic EXCEPT ![c] = t]
  BY Zenon
<1>. USE DEF IInv
<1>2. \A u \in Topics : c \notin gameSubscribers[u]
  BY DEF InMap
<1>3. /\ gameSubscribers' \in [Topics -> SUBSET Clients]
      /\ gameSubscribers'[t] = gameSubscribers[t] \cup {c}
      /\ \A u \in Topics \ {t} : gameSubscribers'[u] = gameSubscribers[u]
  BY <1>1 DEF TypeOK
<1>4. /\ topic' \in [Clients -> Topics] /\ topic'[c] = t
      /\ \A d \in Clients \ {c} : topic'[d] = topic[d]
      /\ handler' \in [Clients -> {"none", "reading", "ended"}] /\ handler'[c] = "reading"
      /\ \A d \in Clients \ {c} : handler'[d] = handler[d]
      /\ conn' \in [Clients -> {"none", "open", "lost", "closed"}] /\ conn'[c] = "open"
      /\ \A d \in Clients \ {c} : conn'[d] = conn[d]
  BY <1>1 DEF TypeOK
<1>5. Subscribers' = Subscribers \cup {c} /\ c \notin Subscribers
  BY <1>2, <1>3 DEF Subscribers
<1>6. Counted'
  BY <1>1, <1>5, FiniteSubscribers, FS_AddElement, Zenon DEF Counted
<1>7. TypeOK'
  BY <1>3, <1>4, <1>6, CountIsNat DEF TypeOK, serverVars
<1>8. InMap'
  <2>. SUFFICES ASSUME NEW u \in Topics, NEW d \in gameSubscribers'[u]
                PROVE  handler'[d] = "reading" /\ topic'[d] = u
    BY DEF InMap
  <2>1. CASE d = c
    BY <1>2, <1>3, <1>4, <2>1, ZenonT(40)
  <2>2. CASE d # c
    <3>1. d \in gameSubscribers[u] /\ d \in Clients
      BY <1>3, <2>2 DEF TypeOK
    <3>. QED  BY <1>4, <2>2, <3>1 DEF InMap
  <2>. QED  BY <2>1, <2>2
<1>9. OpenInMap'
  <2>. SUFFICES ASSUME NEW d \in Clients, conn'[d] = "open"
                PROVE  handler'[d] = "reading" /\ d \in gameSubscribers'[topic'[d]]
    BY DEF OpenInMap
  <2>1. CASE d = c
    BY <1>3, <1>4, <2>1
  <2>2. CASE d # c
    <3>1. /\ handler[d] = "reading" /\ d \in gameSubscribers[topic[d]] /\ topic[d] \in Topics
      BY <1>4, <2>2 DEF OpenInMap, TypeOK
    <3>. QED  BY <1>3, <1>4, <2>2, <3>1
  <2>. QED  BY <2>1, <2>2
<1>. QED  BY <1>6, <1>7, <1>8, <1>9

\* A handler that returns takes its own subscription back, if it is still there.
LEMMA HandlerReturnsKeeps ==
    ASSUME IInv, NEW c \in Clients, HandlerReturns(c)
    PROVE  IInv'
<1>. USE DEF HandlerReturns, Unsubscribe, IInv
<1>0. PICK t \in Topics : t = topic[c]
  BY DEF TypeOK
<1>1. /\ gameSubscribers' \in [Topics -> SUBSET Clients]
      /\ gameSubscribers'[t] = gameSubscribers[t] \ {c}
      /\ \A u \in Topics \ {t} : gameSubscribers'[u] = gameSubscribers[u]
  <2>1. CASE c \in gameSubscribers[t]
    BY <1>0, <2>1, ZenonT(40) DEF TypeOK
  <2>2. CASE c \notin gameSubscribers[t]
    BY <1>0, <2>2 DEF TypeOK
  <2>. QED  BY <2>1, <2>2
<1>2. \A u \in Topics : c \notin gameSubscribers'[u]
  BY <1>0, <1>1 DEF InMap
<1>3. Subscribers' = Subscribers \ {c} /\ (c \in Subscribers <=> c \in gameSubscribers[t])
  <2>1. c \in Subscribers <=> c \in gameSubscribers[t]
    BY <1>0 DEF Subscribers, InMap
  <2>2. \A d \in Clients \ {c} : d \in Subscribers' <=> d \in Subscribers
    BY <1>0, <1>1 DEF Subscribers
  <2>3. c \notin Subscribers' /\ Subscribers \subseteq Clients /\ Subscribers' \subseteq Clients
    BY <1>1, <1>2 DEF Subscribers, TypeOK
  <2>. QED  BY <2>1, <2>2, <2>3
<1>4. Counted'
  <2>1. activeConnections' = IF c \in gameSubscribers[t] THEN activeConnections - 1
                                                         ELSE activeConnections
    BY <1>0
  <2>. QED  BY <1>3, <2>1, FiniteSubscribers, FS_RemoveElement, Zenon DEF Counted
<1>5. /\ topic' \in [Clients -> Topics]
      /\ \A d \in Clients \ {c} : topic'[d] = topic[d]
      /\ handler' \in [Clients -> {"none", "reading", "ended"}]
      /\ \A d \in Clients \ {c} : handler'[d] = handler[d]
      /\ conn' \in [Clients -> {"none", "open", "lost", "closed"}] /\ conn'[c] = "closed"
      /\ \A d \in Clients \ {c} : conn'[d] = conn[d]
  BY TopicsAre, Zenon DEF TypeOK
<1>6. TypeOK'
  <2>1. inbox' \in [Clients -> Seq(Messages)] /\ owed' \in [Clients -> SUBSET Messages]
    BY DEF TypeOK
  <2>. QED  BY <1>1, <1>4, <1>5, <2>1, CountIsNat, Zenon DEF TypeOK, serverVars
<1>7. InMap'
  <2>. SUFFICES ASSUME NEW u \in Topics, NEW d \in gameSubscribers'[u]
                PROVE  handler'[d] = "reading" /\ topic'[d] = u
    BY DEF InMap
  <2>1. d # c /\ d \in Clients /\ d \in gameSubscribers[u]
    BY <1>1, <1>2
  <2>. QED  BY <1>5, <2>1 DEF InMap
<1>8. OpenInMap'
  <2>. SUFFICES ASSUME NEW d \in Clients, conn'[d] = "open"
                PROVE  handler'[d] = "reading" /\ d \in gameSubscribers'[topic'[d]]
    BY DEF OpenInMap
  <2>1. d # c
    BY <1>5
  <2>2. handler[d] = "reading" /\ d \in gameSubscribers[topic[d]] /\ topic[d] \in Topics
    BY <1>5, <2>1 DEF OpenInMap, TypeOK
  <2>. QED  BY <1>1, <1>5, <2>1, <2>2, ZenonT(40)
<1>. QED  BY <1>4, <1>6, <1>7, <1>8

\* Steps of a client that leave the maps alone.
LEMMA ClientKeeps ==
    ASSUME IInv, NEW c \in Clients, HandleSyncRequest(c) \/ WriteServerMessage(c) \/ PeerLost(c)
    PROVE  IInv'
<1>. USE DEF IInv
<1>1. CASE HandleSyncRequest(c)
  <2>. USE <1>1 DEF HandleSyncRequest, hubVars, serverVars
  <2>1. topic[c] \in Games /\ row[topic[c]] \in Nat
    BY Zenon DEF TypeOK, Topics
  <2>2. Message("sync", topic[c], row[topic[c]]) \in Messages
    BY <2>1, Zenon DEF Message, Messages
  <2>3. PICK m \in Messages : m = Message("sync", topic[c], row[topic[c]])
    BY <2>2
  <2>4. reply' \in [Clients -> Messages \cup {NoReply}]
    BY <2>3 DEF TypeOK
  <2>5. frames' \in 0 .. MaxFrames
    BY FeedAssumption DEF TypeOK
  <2>6. TypeOK'
    BY <2>4, <2>5 DEF TypeOK
  <2>. QED  BY <2>6, MapsKept, Zenon
<1>2. CASE WriteServerMessage(c)
  <2>. USE <1>2 DEF WriteServerMessage, serverVars
  <2>1. reply[c] \in Messages
    BY DEF TypeOK
  <2>2. inbox' \in [Clients -> Seq(Messages)]
    BY <2>1, WrittenType
  <2>3. reply' \in [Clients -> Messages \cup {NoReply}]
    BY DEF TypeOK
  <2>4. TypeOK'
    BY <2>2, <2>3 DEF TypeOK
  <2>. QED  BY <2>4, MapsKept, Zenon
<1>3. CASE PeerLost(c)
  <2>. USE <1>3 DEF PeerLost, serverVars
  <2>1. /\ inbox' \in [Clients -> Seq(Messages)] /\ owed' \in [Clients -> SUBSET Messages]
        /\ conn' \in [Clients -> {"none", "open", "lost", "closed"}]
    BY DEF TypeOK
  <2>2. TypeOK'
    BY <2>1, Zenon DEF TypeOK
  <2>3. InMap' /\ Counted'
    BY DEF InMap, Counted, Subscribers
  <2>4. OpenInMap'
    BY DEF OpenInMap, TypeOK
  <2>. QED  BY <2>2, <2>3, <2>4, Zenon
<1>. QED  BY <1>1, <1>2, <1>3, Zenon

\* A change of the row, or of a reservation table, is stored and a broadcast is due.
LEMMA StoreKeeps ==
    ASSUME IInv, (\E g \in Games : ApplyEvent(g)) \/ \E p \in Senders : Commit(p)
    PROVE  IInv'
<1>. USE DEF IInv
<1>1. PICK p \in Senders, m \in Messages :
         Due(p, m) /\ row' \in [Games -> Nat]
  <2>1. CASE \E g \in Games : ApplyEvent(g)
    <3>1. PICK g \in Games : ApplyEvent(g)
      BY <2>1, Zenon
    <3>2. Message("update", g, row[g] + 1) \in Messages /\ row' \in [Games -> Nat]
      BY <3>1 DEF TypeOK, Message, Messages, ApplyEvent
    <3>3. "ingest" \in Senders
      BY DEF Senders
    <3>. QED  BY <3>1, <3>2, <3>3 DEF ApplyEvent
  <2>2. CASE \E p \in Senders : Commit(p)
    <3>1. PICK p \in Senders, g \in Games : Due(p, Message("notice", g, changes + 1)) /\ row' = row
      BY <2>2 DEF Commit
    <3>2. Message("notice", g, changes + 1) \in Messages
      BY <3>1 DEF TypeOK, Message, Messages
    <3>. QED  BY <3>1, <3>2 DEF TypeOK
  <2>. QED  BY <2>1, <2>2
<1>. USE DEF Due, clientVars
<1>2. PICK x \in Cast : x = [phase |-> "ready", msg |-> m]
  BY Zenon DEF Cast
<1>3. casts' \in [Senders -> Cast] /\ changes' \in Nat
  BY <1>1, <1>2 DEF TypeOK
<1>4. TypeOK'
  BY <1>1, <1>3 DEF TypeOK
<1>. QED  BY <1>1, <1>4, MapsKept

\* Broadcasts up to their cleanup, and those that are given up.
LEMMA SendKeeps ==
    ASSUME IInv, NEW p \in Senders,
           FetchFails \/ StartBroadcast(p) \/ BroadcastPanics(p)
              \/ (Send(p) /\ UNCHANGED <<clientVars, serverVars>>)
    PROVE  IInv'
<1>. USE DEF IInv, clientVars, serverVars
<1>0. NoCast \in Cast /\ "ingest" \in Senders
  BY DEF Cast, Senders
<1>1. CASE FetchFails
  <2>. USE <1>1 DEF FetchFails
  <2>1. casts' \in [Senders -> Cast]
    BY <1>0, Zenon DEF TypeOK
  <2>2. TypeOK'
    BY <2>1, Zenon DEF TypeOK
  <2>. QED  BY <2>2, MapsKept, Zenon
<1>2. CASE StartBroadcast(p)
  <2>. USE <1>2 DEF StartBroadcast, BroadcastEvent
  <2>1. casts[p] \in Cast /\ casts[p].phase = "ready"
    BY Zenon DEF TypeOK
  <2>2. PICK m \in Messages : m = casts[p].msg
    BY <2>1, ReadyCast, Zenon
  <2>3. m.game \in Topics /\ GlobalGameID \in Topics
    BY Zenon DEF Messages, Topics
  <2>4. SnapshotSubscribers(m.game) \in SUBSET Clients /\ gameSubscribers[GlobalGameID] \in SUBSET Clients
    BY <2>3 DEF TypeOK, SnapshotSubscribers
  <2>5. PICK x : x = IF SnapshotSubscribers(m.game) = {} THEN NoCast
                     ELSE [phase |-> "sending", msg |-> m, left |-> SnapshotSubscribers(m.game),
                           failed |-> {}, global |-> gameSubscribers[GlobalGameID]]
    BY Zenon
  <2>6. x \in Cast
    BY <1>0, <2>4, <2>5, Zenon DEF Cast
  <2>7. casts' = [casts EXCEPT ![p] = x]
    BY <2>2, <2>5
  <2>8. casts' \in [Senders -> Cast]
    BY <2>6, <2>7, ZenonT(40) DEF TypeOK
  <2>9. owed' \in [Clients -> SUBSET Messages]
    BY <2>2, Zenon DEF TypeOK
  <2>10. TypeOK'
    BY <2>8, <2>9, Zenon DEF TypeOK
  <2>. QED  BY <2>10, MapsKept, Zenon
<1>3. CASE BroadcastPanics(p)
  <2>. USE <1>3 DEF BroadcastPanics
  <2>1. casts' \in [Senders -> Cast] /\ owed' \in [Clients -> SUBSET Messages]
    BY <1>0, Zenon DEF TypeOK
  <2>2. TypeOK'
    BY <2>1, Zenon DEF TypeOK
  <2>. QED  BY <2>2, MapsKept, Zenon
<1>4. CASE Send(p) /\ UNCHANGED <<clientVars, serverVars>>
  <2>. USE <1>4 DEF Send
  <2>1. PICK c \in casts[p].left :
           \/ /\ Written(c, casts[p].msg)
              /\ casts' = [casts EXCEPT ![p] = Sent(casts[p], c)]
           \/ /\ casts' = [casts EXCEPT ![p].left = @ \ {c}, ![p].failed = @ \cup {c}]
              /\ UNCHANGED inbox
    BY Zenon
  <2>2. PICK x \in Cast : x = casts[p]
    BY Zenon DEF TypeOK
  <2>3. /\ x.phase = "sending" /\ x.msg \in Messages /\ x.left \in SUBSET Clients
        /\ x.failed \in SUBSET Clients /\ x.global \in SUBSET Clients /\ c \in Clients
    BY <2>1, <2>2, SendingCast, Zenon
  <2>4. x \in [phase : {"sending"}, msg : Messages, left : SUBSET Clients,
               failed : SUBSET Clients, global : SUBSET Clients]
    BY <2>2, <2>3 DEF Cast, NoCast
  <2>5. inbox' \in [Clients -> Seq(Messages)]
    BY <2>1, <2>2, <2>3, WrittenType
  <2>6. /\ [x EXCEPT !.left = @ \ {c}] \in Cast
        /\ [x EXCEPT !.left = @ \ {c}, !.failed = @ \cup {c}] \in Cast
    BY <2>3, <2>4, Zenon DEF Cast
  <2>7. PICK y \in Cast : casts' = [casts EXCEPT ![p] = y]
    <3>1. CASE casts' = [casts EXCEPT ![p].left = @ \ {c}, ![p].failed = @ \cup {c}]
      <4>1. casts' = [casts EXCEPT ![p] = [x EXCEPT !.left = @ \ {c}, !.failed = @ \cup {c}]]
        BY <2>2, <2>4, <3>1, Zenon DEF TypeOK
      <4>. QED  BY <2>6, <4>1, Zenon
    <3>2. CASE casts' = [casts EXCEPT ![p] = Sent(casts[p], c)]
      <4>1. Sent(x, c) \in Cast
        BY <1>0, <2>6 DEF Sent
      <4>. QED  BY <2>2, <3>2, <4>1, Zenon
    <3>. QED  BY <2>1, <3>1, <3>2
  <2>8. casts' \in [Senders -> Cast]
    BY <2>7, Zenon DEF TypeOK
  <2>9. TypeOK'
    BY <2>5, <2>8, Zenon DEF TypeOK
  <2>. QED  BY <2>9, MapsKept
<1>. QED  BY <1>1, <1>2, <1>3, <1>4

\* The cleanup of a broadcast drops, closes and counts the same connections.
LEMMA CleanupKeeps ==
    ASSUME IInv, NEW p \in Senders, CleanupFailedConnections(p),
           UNCHANGED <<clientVars, serverVars>>
    PROVE  IInv'
<1>. USE DEF IInv, CleanupFailedConnections, clientVars, serverVars
<1>1. casts[p] \in Cast /\ casts[p].phase = "sending"
  BY Zenon DEF TypeOK
<1>2. PICK g \in Games : g = casts[p].msg.game
  BY <1>1, SendingCast, Zenon DEF Messages
<1>3. g \in Topics /\ GlobalGameID \in Topics /\ g # GlobalGameID
  BY HubAssumption, Zenon DEF Topics
<1>4. PICK F, G : F = Failed(p, g) /\ G = Failed(p, GlobalGameID)
  BY Zenon
<1>5. F \subseteq gameSubscribers[g] /\ G \subseteq gameSubscribers[GlobalGameID]
  BY <1>4, Zenon DEF Failed
<1>6. /\ gameSubscribers' = [t \in Topics |->
            IF t \in {g, GlobalGameID} THEN gameSubscribers[t] \ Failed(p, t)
                                       ELSE gameSubscribers[t]]
      /\ activeConnections' = activeConnections - Cardinality(F \cup G)
      /\ conn' = [c \in Clients |-> IF c \in F \cup G THEN "closed" ELSE conn[c]]
  BY <1>2, <1>4, Zenon
<1>7. /\ gameSubscribers' \in [Topics -> SUBSET Clients]
      /\ gameSubscribers'[g] = gameSubscribers[g] \ F
      /\ gameSubscribers'[GlobalGameID] = gameSubscribers[GlobalGameID] \ G
      /\ \A t \in Topics \ {g, GlobalGameID} : gameSubscribers'[t] = gameSubscribers[t]
  BY <1>3, <1>4, <1>6, SMTT(30) DEF TypeOK
<1>8. \A t \in Topics, c \in Clients :
         c \in gameSubscribers'[t] <=> c \in gameSubscribers[t] /\ c \notin F \cup G
  <2>. SUFFICES ASSUME NEW t \in Topics, NEW c \in Clients
                PROVE  c \in gameSubscribers'[t] <=> c \in gameSubscribers[t] /\ c \notin F \cup G
    BY Zenon
  <2>1. c \in gameSubscribers[t] => topic[c] = t
    BY Zenon DEF InMap
  <2>2. (c \in F => topic[c] = g) /\ (c \in G => topic[c] = GlobalGameID)
    BY <1>3, <1>5, Zenon DEF InMap
  <2>. QED  BY <1>3, <1>7, <2>1, <2>2, Zenon
<1>9. Subscribers' = Subscribers \ (F \cup G) /\ F \cup G \subseteq Subscribers
  <2>1. Subscribers' \subseteq Clients /\ Subscribers \subseteq Clients
    BY <1>7 DEF Subscribers, TypeOK
  <2>2. \A c \in Clients : c \in Subscribers' <=> c \in Subscribers /\ c \notin F \cup G
    BY <1>8 DEF Subscribers
  <2>3. F \cup G \subseteq Subscribers
    BY <1>3, <1>5, Zenon DEF Subscribers
  <2>. QED  BY <2>1, <2>2, <2>3, Zenon
<1>10. Counted'
  <2>1. Subscribers \cap (F \cup G) = F \cup G
    BY <1>9
  <2>2. Cardinality(Subscribers') = Cardinality(Subscribers) - Cardinality(F \cup G)
    BY <1>9, <2>1, FiniteSubscribers, FS_Difference, ZenonT(40)
  <2>. QED  BY <1>6, <2>2, Zenon DEF Counted
<1>11. TypeOK'
  <2>1. NoCast \in Cast
    BY DEF Cast
  <2>2. casts' \in [Senders -> Cast] /\ conn' \in [Clients -> {"none", "open", "lost", "closed"}]
    BY <1>6, <2>1 DEF TypeOK
  <2>. QED  BY <1>7, <1>10, <2>2, CountIsNat DEF TypeOK
<1>12. InMap'
  BY <1>7, <1>8 DEF InMap
<1>13. OpenInMap'
  <2>. SUFFICES ASSUME NEW c \in Clients, conn'[c] = "open"
                PROVE  handler'[c] = "reading" /\ c \in gameSubscribers'[topic'[c]]
    BY Zenon DEF OpenInMap
  <2>1. c \notin F \cup G /\ conn[c] = "open"
    BY <1>6, Zenon
  <2>2. handler[c] = "reading" /\ c \in gameSubscribers[topic[c]] /\ topic[c] \in Topics
    BY <2>1 DEF OpenInMap, TypeOK
  <2>. QED  BY <1>8, <2>1, <2>2, Zenon
<1>. QED  BY <1>10, <1>11, <1>12, <1>13, Zenon

\* CloseAllConnections closes whatever is in the maps.
LEMMA ShutdownKeeps ==
    ASSUME IInv, Shutdown
    PROVE  IInv'
<1>. USE DEF IInv, Shutdown, CloseAllConnections, clientVars, serverVars
<1>1. gameSubscribers' \in [Topics -> SUBSET Clients] /\ Subscribers' = {}
  BY DEF Subscribers
<1>2. Counted'
  BY <1>1, FS_EmptySet, Zenon DEF Counted
<1>3. TypeOK'
  BY <1>1, Zenon DEF TypeOK
<1>4. InMap'
  BY Zenon DEF InMap
<1>5. \A c \in Clients : conn'[c] # "open"
  BY DEF OpenInMap, Subscribers, TypeOK
<1>6. OpenInMap'
  BY <1>5, Zenon DEF OpenInMap
<1>. QED  BY <1>2, <1>3, <1>4, <1>6, Zenon

\* After a crash the next process starts without connections.
LEMMA CrashKeeps ==
    ASSUME IInv, Crash
    PROVE  FreshState'
  BY DEF IInv, Crash, FreshState, serverVars, TypeOK

\* IInv is inductive.
LEMMA NextIInv == IInv /\ [Next]_vars => IInv' \/ FreshState'
<1>. SUFFICES ASSUME IInv, [Next]_vars PROVE IInv' \/ FreshState'
  OBVIOUS
<1>1. ASSUME NEW c \in Clients, Client(c) PROVE IInv'
  BY <1>1, HandleConnectionKeeps, HandlerReturnsKeeps, ClientKeeps DEF Client
<1>2. CASE (\E g \in Games : ApplyEvent(g)) \/ \E p \in Senders : Commit(p)
  BY <1>2, StoreKeeps
<1>3. CASE FetchFails
  <2>1. "ingest" \in Senders
    BY DEF Senders
  <2>. QED  BY <1>3, <2>1, SendKeeps
<1>4. ASSUME NEW p \in Senders, Broadcast(p) PROVE IInv'
  BY <1>4, SendKeeps, CleanupKeeps DEF Broadcast
<1>5. ASSUME NEW p \in Senders, BroadcastPanics(p) PROVE IInv'
  BY <1>5, SendKeeps
<1>6. CASE Crash
  BY <1>6, CrashKeeps
<1>7. CASE Shutdown
  BY <1>7, ShutdownKeeps, Zenon
<1>8. CASE UNCHANGED vars
  <2>1. TypeOK'
    BY <1>8 DEF IInv, TypeOK, vars
  <2>. QED  BY <1>8, <2>1, MapsKept, Zenon DEF IInv, vars
<1>. QED  BY <1>1, <1>2, <1>3, <1>4, <1>5, <1>6, <1>7, <1>8, Zenon DEF Next

\* Every reachable state satisfies the inductive invariant.
THEOREM Invariance == Spec => []IInv
<1>. QED  BY InitIInv, NextIInv, FreshHub, PTL DEF Spec

\* The variables of the hub and of the endpoints keep their types.
THEOREM TypeCorrect == Spec => []TypeOK
<1>1. IInv => TypeOK
  BY Zenon DEF IInv
<1>. QED  BY <1>1, Invariance, PTL

\* A connection that is open and being read is in the map of its topic, whatever
\* broadcasts fail, panic or clean up meanwhile.
THEOREM OpenIsSubscribedHolds == Spec => []OpenIsSubscribed
<1>1. IInv => OpenIsSubscribed
  BY DEF IInv, OpenInMap, OpenIsSubscribed
<1>. QED  BY <1>1, Invariance, PTL

\* One subscription for each subscriber.
LEMMA EntriesCounted ==
    ASSUME IInv
    PROVE  Cardinality(Entries) = Cardinality(Subscribers)
<1>. USE DEF IInv
<1>. DEFINE f == [c \in Subscribers |-> <<topic[c], c>>]
<1>1. Subscribers \subseteq Clients
  BY FiniteSubscribers, Zenon
<1>2. \A c \in Subscribers : topic[c] \in Topics /\ c \in gameSubscribers[topic[c]]
  BY <1>1 DEF Subscribers, InMap, TypeOK
<1>3. f \in [Subscribers -> Entries]
  BY <1>1, <1>2, Zenon DEF Entries
<1>4. \A e \in Entries : e[2] \in Subscribers /\ e = <<topic[e[2]], e[2]>>
  BY DEF Entries, Subscribers, InMap
<1>5. f \in Injection(Subscribers, Entries)
  BY <1>3 DEF Injection, IsInjective
<1>6. f \in Surjection(Subscribers, Entries)
  BY <1>3, <1>4, ZenonT(40) DEF Surjection
<1>7. ExistsBijection(Subscribers, Entries)
  BY <1>5, <1>6 DEF ExistsBijection, Bijection
<1>. QED  BY <1>7, FiniteSubscribers, FS_Bijection

\* The connection count never drifts from the subscriptions: whoever removes a
\* client first counts it, and nobody counts it twice.
THEOREM CountMatchesHolds == Spec => []CountMatches
<1>1. IInv => CountMatches
  BY EntriesCounted DEF IInv, Counted, CountMatches
<1>. QED  BY <1>1, Invariance, PTL
-----------------------------------------------------------------------------
\* What a message of a game may carry to a client whose inbox is given: a version
\* that is newer than all it received.
Newer(m, box) == \A i \in DOMAIN box : Update(box[i], m.game) => box[i].n < m.n

\* A client that never connected has and is owed nothing.
Unconnected == \A c \in Clients : handler[c] = "none" => inbox[c] = <<>> /\ owed[c] = {}

\* An answer belongs to a handler that reads, and is about the game of the client.
Replies ==
    \A c \in Clients : reply[c] # NoReply =>
        handler[c] = "reading" /\ reply[c].kind = "sync" /\ reply[c].game = topic[c]

\* A client of one game receives messages of that game.
Scoped ==
    \A c \in Clients : \A i \in DOMAIN inbox[c] :
        topic[c] # GlobalGameID => inbox[c][i].game = topic[c]

\* Nothing was received that is not stored.
Stored ==
    \A c \in Clients : \A i \in DOMAIN inbox[c] :
        inbox[c][i].kind = "update" => inbox[c][i].n <= row[inbox[c][i].game]

\* Updates are broadcast by one goroutine, after they are stored.
Announced ==
    \A p \in Senders : casts[p].phase # "none" /\ casts[p].msg.kind = "update" =>
        p = "ingest" /\ casts[p].msg.n <= row[casts[p].msg.game]

\* An update that is due is news to everybody; one that is being sent is to those
\* who have not got it.
News ==
    \A p \in Senders : \A c \in Clients :
        /\ casts[p].phase # "none" /\ casts[p].msg.kind = "update"
        /\ casts[p].phase = "sending" => c \in casts[p].left
        => Newer(casts[p].msg, inbox[c])

\* A broadcast writes to clients that connected to its game or to the global
\* stream, and knows which.
Addressed ==
    \A p \in Senders : casts[p].phase = "sending" =>
        \A c \in casts[p].left \cup casts[p].failed :
            /\ handler[c] # "none"
            /\ handler[c] = "reading" =>
                  /\ topic[c] \in {casts[p].msg.game, GlobalGameID}
                  /\ topic[c] = GlobalGameID <=> c \in casts[p].global

FeedInv ==
    /\ Unconnected /\ Replies /\ Scoped /\ Stored /\ UpdatesInOrder
    /\ Announced /\ News /\ Addressed /\ NothingMissed

\* A broadcast writes to clients.
LEMMA SendingClients ==
    ASSUME IInv, NEW p \in Senders, casts[p].phase = "sending"
    PROVE  /\ casts[p].left \in SUBSET Clients /\ casts[p].failed \in SUBSET Clients
           /\ casts[p].msg \in Messages
<1>1. casts[p] \in Cast
  BY DEF IInv, TypeOK
<1>. QED  BY <1>1, SendingCast

\* NoCast is no broadcast.
LEMMA NoCastPhase == NoCast.phase = "none"
  BY Zenon DEF NoCast

\* What is owed is not affected by a step that leaves the clients and the
\* broadcasts under way alone.
LEMMA MissedKept ==
    ASSUME NothingMissed, UNCHANGED <<conn, inbox, owed>>,
           \A q \in Senders : casts[q].phase = "sending" => casts'[q] = casts[q]
    PROVE  NothingMissed'
<1>1. \A c \in Clients : \A m : Outstanding(c, m) => Outstanding(c, m)'
  BY Zenon DEF Outstanding
<1>2. \A c \in Clients : \A m : Got(c, m) => Got(c, m)'
  BY Zenon DEF Got
<1>. QED  BY <1>1, <1>2 DEF NothingMissed

\* What a client, the peer or a shutdown may do to client d.
ClientStep(d) ==
    \/ /\ handler'[d] = handler[d] /\ topic'[d] = topic[d]
       /\ inbox'[d] = inbox[d] /\ owed'[d] = owed[d]
       /\ conn'[d] = "open" => conn[d] = "open"
       /\ \/ reply'[d] = reply[d]
          \/ handler[d] = "reading" /\ reply'[d].kind = "sync" /\ reply'[d].game = topic[d]
    \/ /\ handler[d] = "none" /\ handler'[d] = "reading"
       /\ inbox'[d] = inbox[d] /\ owed'[d] = owed[d] /\ reply'[d] = reply[d]
    \/ /\ \/ handler'[d] = handler[d] /\ topic'[d] = topic[d]
          \/ handler[d] = "reading" /\ handler'[d] = "ended" /\ topic'[d] = GlobalGameID
             /\ reply[d] = NoReply
       /\ inbox'[d] = <<>> /\ owed'[d] = {} /\ reply'[d] = reply[d]

ClientSteps == UNCHANGED <<casts, row>> /\ \A d \in Clients : ClientStep(d)

\* Steps that only concern the connections keep the feed intact.
LEMMA ClientStepsKeep ==
    ASSUME IInv, FeedInv, ClientSteps
    PROVE  FeedInv'
<1>. USE DEF FeedInv, ClientSteps
<1>1. ASSUME NEW d \in Clients
      PROVE  inbox'[d] = inbox[d] \/ inbox'[d] = <<>>
  BY Zenon DEF ClientStep
<1>2. Unconnected'
  BY Zenon DEF Unconnected, ClientStep
<1>3. Replies'
  BY Zenon DEF Replies, ClientStep
<1>4. Scoped'
  <2>. SUFFICES ASSUME NEW d \in Clients, NEW i \in DOMAIN inbox'[d], topic'[d] # GlobalGameID
                PROVE  inbox'[d][i].game = topic'[d]
    BY Zenon DEF Scoped
  <2>1. inbox'[d] # <<>>
    OBVIOUS
  <2>2. inbox'[d] = inbox[d] /\ topic'[d] = topic[d]
    BY <2>1, Zenon DEF ClientStep, Unconnected
  <2>. QED  BY <2>2, Zenon DEF Scoped
<1>5. Stored'
  BY <1>1 DEF Stored
<1>6. UpdatesInOrder'
  BY <1>1 DEF UpdatesInOrder
<1>7. Announced'
  BY Zenon DEF Announced
<1>8. News'
  BY <1>1 DEF News, Newer
<1>9. Addressed'
  <2>. SUFFICES ASSUME NEW p \in Senders, casts[p].phase = "sending",
                       NEW c \in casts[p].left \cup casts[p].failed
                PROVE  /\ handler'[c] # "none"
                       /\ handler'[c] = "reading" =>
                             /\ topic'[c] \in {casts[p].msg.game, GlobalGameID}
                             /\ topic'[c] = GlobalGameID <=> c \in casts[p].global
    BY Zenon DEF Addressed
  <2>1. c \in Clients
    BY SendingClients, Zenon
  <2>2. ClientStep(c) /\ handler[c] # "none"
    BY <2>1, Zenon DEF Addressed
  <2>3. (handler'[c] = handler[c] /\ topic'[c] = topic[c]) \/ handler'[c] = "ended"
    BY <2>2, Zenon DEF ClientStep
  <2>. QED  BY <2>3, Zenon DEF Addressed
<1>10. NothingMissed'
  <2>. SUFFICES ASSUME NEW d \in Clients, NEW m \in owed'[d], conn'[d] = "open"
                PROVE  Got(d, m)' \/ Outstanding(d, m)'
    BY Zenon DEF NothingMissed
  <2>1. inbox'[d] = inbox[d] /\ m \in owed[d] /\ conn[d] = "open"
    BY DEF ClientStep, Unconnected
  <2>. QED  BY <2>1 DEF NothingMissed, Got, Outstanding
<1>. QED  BY <1>2, <1>3, <1>4, <1>5, <1>6, <1>7, <1>8, <1>9, <1>10, Zenon

\* The steps of the connections.
LEMMA ConnectionKeeps ==
    ASSUME IInv, FeedInv,
           \/ \E c \in Clients : \/ HandleConnection(c) \/ HandleSyncRequest(c)
                                 \/ HandlerReturns(c) \/ PeerLost(c)
           \/ Shutdown
    PROVE  FeedInv'
<1>. USE DEF serverVars, clientVars
<1>1. ASSUME NEW c \in Clients, HandleConnection(c) PROVE ClientSteps
  BY <1>1, Zenon DEF IInv, TypeOK, HandleConnection, ClientSteps, ClientStep
<1>2. ASSUME NEW c \in Clients, HandleSyncRequest(c) PROVE ClientSteps
  BY <1>2, Zenon DEF IInv, TypeOK, HandleSyncRequest, hubVars, Message, ClientSteps, ClientStep
<1>3. ASSUME NEW c \in Clients, HandlerReturns(c) PROVE ClientSteps
  BY <1>3, Zenon DEF IInv, TypeOK, HandlerReturns, ClientSteps, ClientStep
<1>4. ASSUME NEW c \in Clients, PeerLost(c) PROVE ClientSteps
  BY <1>4, Zenon DEF IInv, TypeOK, PeerLost, ClientSteps, ClientStep
<1>5. ASSUME Shutdown PROVE ClientSteps
  BY <1>5 DEF IInv, TypeOK, Shutdown, CloseAllConnections, ClientSteps, ClientStep
<1>. QED  BY <1>1, <1>2, <1>3, <1>4, <1>5, ClientStepsKeep, Zenon

\* The elements of a sequence and of the one a message is appended to.
LEMMA Appended ==
    ASSUME NEW s \in Seq(Messages), NEW m \in Messages
    PROVE  /\ Len(s) \in Nat
           /\ DOMAIN Append(s, m) = DOMAIN s \cup {Len(s) + 1}
           /\ \A i \in DOMAIN s : i \in Nat /\ i < Len(s) + 1 /\ Append(s, m)[i] = s[i]
           /\ Append(s, m)[Len(s) + 1] = m
  OBVIOUS

\* What was written to a connection has arrived.
LEMMA WrittenIsGot ==
    ASSUME NEW c \in Clients, NEW m \in Messages, inbox[c] \in Seq(Messages),
           inbox'[c] = Append(inbox[c], m)
    PROVE  Got(c, m)'
<1>1. Len(inbox[c]) + 1 \in DOMAIN inbox'[c] /\ inbox'[c][Len(inbox[c]) + 1] = m
  BY Appended
<1>. QED  BY <1>1, Zenon DEF Got

\* What a write leaves in the inboxes.
Boxes(c, m) ==
    /\ \A d \in Clients \ {c} : inbox'[d] = inbox[d]
    /\ inbox'[c] = inbox[c] \/ (conn[c] = "open" /\ inbox'[c] = Append(inbox[c], m))

\* A write reaches one inbox, that of an open connection.
LEMMA WrittenBoxes ==
    ASSUME IInv, NEW c \in Clients, NEW m \in Messages, Written(c, m) \/ UNCHANGED inbox
    PROVE  Boxes(c, m)
  BY Zenon DEF IInv, TypeOK, Written, Boxes

\* What may be written to client c: a message of its game, and no update but one
\* that is stored and news to it.
Fits(c, m) ==
    /\ topic[c] \in {m.game, GlobalGameID}
    /\ m.kind = "update" => Newer(m, inbox[c]) /\ m.n <= row[m.game]

\* A message that fits keeps the inboxes in order and takes nothing out of them.
LEMMA DeliveryKeeps ==
    ASSUME IInv, FeedInv, NEW c \in Clients, NEW m \in Messages,
           conn[c] = "open" => Fits(c, m), Boxes(c, m), UNCHANGED <<row, topic>>
    PROVE  /\ Scoped' /\ Stored' /\ UpdatesInOrder'
           /\ \A d \in Clients : \A x : Got(d, x) => Got(d, x)'
<1>. USE DEF FeedInv
<1>0. \A d \in Clients : inbox[d] \in Seq(Messages)
  BY Zenon DEF IInv, TypeOK
<1>1. PICK s \in Seq(Messages) : s = inbox[c]
  BY <1>0
<1>2. CASE inbox'[c] = inbox[c]
  <2>1. \A d \in Clients : inbox'[d] = inbox[d]
    BY <1>2, Zenon DEF Boxes
  <2>. QED  BY <2>1, ZenonT(40) DEF Scoped, Stored, UpdatesInOrder, Got
<1>3. CASE conn[c] = "open" /\ inbox'[c] = Append(s, m)
  <2>0. Fits(c, m)
    BY <1>3, Zenon
  <2>1. /\ Len(s) \in Nat
        /\ DOMAIN inbox'[c] = DOMAIN s \cup {Len(s) + 1}
        /\ \A i \in DOMAIN s : i \in Nat /\ i < Len(s) + 1 /\ inbox'[c][i] = s[i]
        /\ inbox'[c][Len(s) + 1] = m
    BY <1>3, Appended
  <2>2. \A d \in Clients \ {c} : inbox'[d] = inbox[d]
    BY Zenon DEF Boxes
  <2>3. Scoped'
    BY <1>1, <2>0, <2>1, <2>2 DEF Scoped, Fits
  <2>4. Stored'
    BY <1>1, <2>0, <2>1, <2>2 DEF Stored, Fits
  <2>5. UpdatesInOrder'
    <3>. SUFFICES ASSUME NEW g \in Games, NEW i \in DOMAIN inbox'[c], NEW j \in DOMAIN inbox'[c],
                         i < j, Update(inbox'[c][i], g), Update(inbox'[c][j], g)
                  PROVE  inbox'[c][i].n < inbox'[c][j].n
      BY <2>2, Zenon DEF UpdatesInOrder
    <3>1. CASE j \in DOMAIN s
      <4>1. i \in DOMAIN s
        BY <2>1, <3>1
      <4>. QED  BY <1>1, <2>1, <3>1, <4>1, Zenon DEF UpdatesInOrder
    <3>2. CASE j = Len(s) + 1
      <4>1. i \in DOMAIN s
        BY <2>1, <3>2
      <4>2. m.kind = "update" /\ m.game = g /\ Update(s[i], g)
        BY <2>1, <3>2, <4>1, Zenon DEF Update
      <4>. QED  BY <1>1, <2>0, <2>1, <3>2, <4>1, <4>2, ZenonT(40) DEF Fits, Newer
    <3>. QED  BY <2>1, <3>1, <3>2, Zenon
  <2>6. \A d \in Clients : \A x : Got(d, x) => Got(d, x)'
    BY <1>1, <2>1, <2>2, Zenon DEF Got
  <2>. QED  BY <2>3, <2>4, <2>5, <2>6, Zenon
<1>. QED  BY <1>1, <1>2, <1>3, Zenon DEF Boxes

\* A message that is no update, or is the update of a game, is news if it was.
LEMMA StillNews ==
    ASSUME IInv, NEW c \in Clients, NEW m \in Messages, Boxes(c, m), NEW d \in Clients, NEW x,
           Newer(x, inbox[d]), d = c => m.kind # "update"
    PROVE  Newer(x, inbox'[d])
<1>1. PICK s \in Seq(Messages) : s = inbox[d]
  BY Zenon DEF IInv, TypeOK
<1>2. inbox'[d] = s \/ (d = c /\ inbox'[d] = Append(s, m))
  BY <1>1, Zenon DEF Boxes
<1>3. CASE d = c /\ inbox'[d] = Append(s, m)
  BY <1>1, <1>3, Appended DEF Newer, Update
<1>. QED  BY <1>1, <1>2, <1>3, Zenon

\* The answer to a sync request.
LEMMA WriteServerMessageKeeps ==
    ASSUME IInv, FeedInv, NEW c \in Clients, WriteServerMessage(c)
    PROVE  FeedInv'
<1>. USE DEF FeedInv, WriteServerMessage, serverVars
<1>1. PICK m \in Messages : m = reply[c]
  BY Zenon DEF IInv, TypeOK
<1>2. handler[c] = "reading" /\ m.kind = "sync" /\ m.game = topic[c]
  BY <1>1, Zenon DEF Replies
<1>3. Boxes(c, m)
  BY <1>1, WrittenBoxes, Zenon
<1>4. Fits(c, m)
  BY <1>2, Zenon DEF Fits
<1>5. /\ Scoped' /\ Stored' /\ UpdatesInOrder'
      /\ \A d \in Clients : \A x : Got(d, x) => Got(d, x)'
  BY <1>3, <1>4, DeliveryKeeps, Zenon
<1>6. Unconnected'
  BY <1>2, <1>3, Zenon DEF Unconnected, Boxes
<1>7. Replies'
  BY Zenon DEF Replies, IInv, TypeOK
<1>8. Announced' /\ Addressed'
  BY Zenon DEF Announced, Addressed
<1>9. News'
  <2>1. \A d \in Clients : \A x : Newer(x, inbox[d]) => Newer(x, inbox'[d])
    BY <1>2, <1>3, StillNews, Zenon
  <2>. QED  BY <2>1, Zenon DEF News
<1>10. NothingMissed'
  BY <1>5, Zenon DEF NothingMissed, Outstanding
<1>. QED  BY <1>5, <1>6, <1>7, <1>8, <1>9, <1>10, Zenon

\* What one write of a broadcast does to it: client c is done with, or failed.
Progress(x, y, c) ==
    \/ y = NoCast /\ x.left = {c} /\ x.failed = {}
    \/ /\ y.phase = "sending" /\ y.msg = x.msg /\ y.global = x.global
       /\ y.left = x.left \ {c} /\ y.failed \in {x.failed, x.failed \cup {c}}

\* Send writes to one client and leaves the other broadcasts alone.
LEMMA SendEffect ==
    ASSUME IInv, NEW p \in Senders, Send(p)
    PROVE  \E c \in casts[p].left :
              /\ \A q \in Senders \ {p} : casts'[q] = casts[q]
              /\ Progress(casts[p], casts'[p], c)
              /\ \/ Written(c, casts[p].msg)
                 \/ UNCHANGED inbox /\ casts'[p].phase = "sending" /\ c \in casts'[p].failed
<1>. USE DEF Send
<1>1. PICK c \in casts[p].left :
         \/ /\ Written(c, casts[p].msg)
            /\ casts' = [casts EXCEPT ![p] = Sent(casts[p], c)]
         \/ /\ casts' = [casts EXCEPT ![p].left = @ \ {c}, ![p].failed = @ \cup {c}]
            /\ UNCHANGED inbox
  BY Zenon
<1>2. PICK x \in Cast : x = casts[p] /\ x.phase = "sending"
  BY DEF IInv, TypeOK
<1>3. x \in [phase : {"sending"}, msg : Messages, left : SUBSET Clients,
             failed : SUBSET Clients, global : SUBSET Clients]
  BY <1>2 DEF Cast, NoCast
<1>4. casts \in [Senders -> Cast]
  BY DEF IInv, TypeOK
<1>5. CASE Written(c, casts[p].msg) /\ casts' = [casts EXCEPT ![p] = Sent(casts[p], c)]
  <2>1. casts'[p] = Sent(x, c) /\ \A q \in Senders \ {p} : casts'[q] = casts[q]
    BY <1>2, <1>4, <1>5, Zenon
  <2>2. Progress(x, Sent(x, c), c)
    BY <1>3 DEF Progress, Sent
  <2>. QED  BY <1>2, <1>5, <2>1, <2>2, Zenon
<1>6. CASE /\ casts' = [casts EXCEPT ![p].left = @ \ {c}, ![p].failed = @ \cup {c}]
           /\ UNCHANGED inbox
  <2>1. /\ casts'[p] = [x EXCEPT !.left = @ \ {c}, !.failed = @ \cup {c}]
        /\ \A q \in Senders \ {p} : casts'[q] = casts[q]
    BY <1>2, <1>3, <1>4, <1>6, Zenon
  <2>2. PICK y : y = [x EXCEPT !.left = @ \ {c}, !.failed = @ \cup {c}]
    OBVIOUS
  <2>3. Progress(x, y, c) /\ y.phase = "sending" /\ c \in y.failed
    BY <1>3, <2>2, Zenon DEF Progress
  <2>. QED  BY <1>2, <1>6, <2>1, <2>2, <2>3, Zenon
<1>. QED  BY <1>1, <1>5, <1>6

\* A broadcast that is not over is the same one, with c behind it.
Onward(x, y, c) ==
    /\ y.phase = x.phase /\ y.msg = x.msg
    /\ y.phase = "sending" =>
          /\ y.left \cup y.failed \subseteq x.left \cup x.failed
          /\ y.left \subseteq x.left /\ y.global = x.global /\ c \notin y.left

\* That is what a write makes of a broadcast.
LEMMA ProgressOnward ==
    ASSUME NEW x, NEW y, NEW c \in x.left, x.phase = "sending", Progress(x, y, c),
           y.phase # "none"
    PROVE  Onward(x, y, c)
  BY DEF Progress, NoCast, Onward

\* A write of a broadcast.
LEMMA SendKeepsFeed ==
    ASSUME IInv, FeedInv, NEW p \in Senders, Send(p), UNCHANGED <<clientVars, serverVars>>
    PROVE  FeedInv'
<1>. USE DEF FeedInv, clientVars, serverVars
<1>0. casts[p].phase = "sending" /\ UNCHANGED conn
  BY Zenon DEF Send
<1>1. PICK c \in casts[p].left :
         /\ \A q \in Senders \ {p} : casts'[q] = casts[q]
         /\ Progress(casts[p], casts'[p], c)
         /\ \/ Written(c, casts[p].msg)
            \/ UNCHANGED inbox /\ casts'[p].phase = "sending" /\ c \in casts'[p].failed
  BY SendEffect, Zenon
<1>2. PICK m \in Messages : m = casts[p].msg
  BY <1>0, SendingClients, Zenon
<1>3. c \in Clients /\ casts[p].left \in SUBSET Clients /\ casts[p].failed \in SUBSET Clients
  BY <1>0, SendingClients, Zenon
<1>4. Boxes(c, m)
  BY <1>1, <1>2, <1>3, WrittenBoxes, Zenon
<1>5. conn[c] = "open" => handler[c] = "reading"
  BY <1>3, Zenon DEF IInv, OpenInMap
<1>6. conn[c] = "open" => Fits(c, m)
  <2>1. conn[c] = "open" => topic[c] \in {m.game, GlobalGameID}
    BY <1>0, <1>2, <1>5, Zenon DEF Addressed
  <2>2. m.kind = "update" => Newer(m, inbox[c]) /\ m.n <= row[m.game]
    BY <1>0, <1>2, <1>3, Zenon DEF Announced, News
  <2>. QED  BY <2>1, <2>2, Zenon DEF Fits
<1>7. /\ Scoped' /\ Stored' /\ UpdatesInOrder'
      /\ \A d \in Clients : \A x : Got(d, x) => Got(d, x)'
  BY <1>3, <1>4, <1>6, DeliveryKeeps, Zenon
<1>8. Unconnected' /\ Replies'
  BY <1>3, <1>4, <1>5, Zenon DEF Unconnected, Boxes, Replies
<1>9. \A q \in Senders : casts'[q].phase # "none" =>
         /\ casts'[q].phase = casts[q].phase /\ casts'[q].msg = casts[q].msg
         /\ casts'[q].phase = "sending" =>
               /\ casts'[q].left \cup casts'[q].failed \subseteq casts[q].left \cup casts[q].failed
               /\ casts'[q].left \subseteq casts[q].left /\ casts'[q].global = casts[q].global
               /\ q = p => c \notin casts'[q].left
  <2>1. ASSUME casts'[p].phase # "none" PROVE Onward(casts[p], casts'[p], c)
    BY <1>0, <1>1, <2>1, ProgressOnward, Zenon
  <2>2. ASSUME NEW q \in Senders, q # p PROVE casts'[q] = casts[q]
    BY <1>1, <2>2, Zenon
  <2>. QED  BY <2>1, <2>2 DEF Onward
<1>10. Announced'
  BY <1>9, ZenonT(40) DEF Announced
<1>11. Addressed'
  BY <1>9 DEF Addressed
<1>12. News'
  <2>. SUFFICES ASSUME NEW q \in Senders, NEW d \in Clients,
                       casts'[q].phase # "none", casts'[q].msg.kind = "update",
                       casts'[q].phase = "sending" => d \in casts'[q].left
                PROVE  Newer(casts'[q].msg, inbox'[d])
    BY Zenon DEF News
  <2>1. casts'[q].msg = casts[q].msg /\ Newer(casts[q].msg, inbox[d])
    BY <1>9, Zenon DEF News
  <2>2. m.kind = "update" => q = p
    BY <1>0, <1>2, <1>9, Zenon DEF Announced
  <2>3. d = c => m.kind # "update"
    BY <1>0, <1>9, <2>2, Zenon
  <2>. QED  BY <1>3, <1>4, <2>1, <2>3, StillNews, ZenonT(40)
<1>13. NothingMissed'
  <2>. SUFFICES ASSUME NEW d \in Clients, NEW x \in owed[d], conn[d] = "open"
                PROVE  Got(d, x)' \/ Outstanding(d, x)'
    BY <1>0, ZenonT(40) DEF NothingMissed
  <2>1. CASE Got(d, x)
    BY <1>7, <2>1
  <2>2. ASSUME NEW q \in Senders, casts[q].phase = "sending", casts[q].msg = x,
               d \in casts[q].left \cup casts[q].failed
        PROVE  Got(d, x)' \/ Outstanding(d, x)'
    <3>1. CASE q # p
      BY <1>1, <2>2, <3>1, ZenonT(40) DEF Outstanding
    <3>2. CASE q = p /\ d # c
      BY <1>0, <1>1, <2>2, <3>2, ZenonT(40) DEF Outstanding, Progress
    <3>3. CASE q = p /\ d = c
      <4>1. CASE Written(c, m)
        <5>1. inbox'[c] = Append(inbox[c], m) /\ inbox[c] \in Seq(Messages)
          BY <1>3, <3>3, <4>1, Zenon DEF IInv, TypeOK, Written
        <5>2. m \in Messages /\ x = m
          BY <1>2, <2>2, <3>3, Zenon
        <5>3. Got(c, m)'
          BY <1>3, <5>1, <5>2, WrittenIsGot, Zenon
        <5>. QED  BY <3>3, <5>2, <5>3, Zenon
      <4>2. CASE casts'[p].phase = "sending" /\ c \in casts'[p].failed
        BY <1>9, <2>2, <3>3, <4>2, Zenon DEF Outstanding
      <4>. QED  BY <1>1, <1>2, <4>1, <4>2, ZenonT(40)
    <3>. QED  BY <3>1, <3>2, <3>3, ZenonT(40)
  <2>. QED  BY <2>1, <2>2 DEF NothingMissed, Outstanding
<1>. QED  BY <1>7, <1>8, <1>10, <1>11, <1>12, <1>13, Zenon

\* A stored change: what was received and announced is older than the new row.
LEMMA StoreKeepsFeed ==
    ASSUME IInv, FeedInv, (\E g \in Games : ApplyEvent(g)) \/ \E p \in Senders : Commit(p)
    PROVE  FeedInv'
<1>. USE DEF FeedInv
<1>0. /\ casts \in [Senders -> Cast] /\ row \in [Games -> Nat] /\ "ingest" \in Senders
      /\ \A c \in Clients : inbox[c] \in Seq(Messages)
  BY Zenon DEF IInv, TypeOK, Senders
<1>1. PICK p \in Senders, g \in Games, m \in Messages :
         /\ casts[p] = NoCast /\ m.game = g /\ Due(p, m)
         /\ \/ m.kind = "update" /\ m.n = row[g] + 1 /\ p = "ingest" /\ row' = [row EXCEPT ![g] = @ + 1]
            \/ m.kind = "notice" /\ row' = row
  <2>1. ASSUME NEW g \in Games, ApplyEvent(g)
        PROVE  /\ Message("update", g, row[g] + 1) \in Messages
               /\ casts["ingest"] = NoCast /\ Due("ingest", Message("update", g, row[g] + 1))
               /\ row' = [row EXCEPT ![g] = @ + 1]
    BY <1>0, <2>1 DEF Message, Messages, ApplyEvent
  <2>2. ASSUME NEW p \in Senders, Commit(p)
        PROVE  \E g \in Games : /\ Message("notice", g, changes + 1) \in Messages
                                /\ casts[p] = NoCast /\ Due(p, Message("notice", g, changes + 1))
                                /\ row' = row
    BY <2>2 DEF Message, Messages, Commit, IInv, TypeOK
  <2>3. CASE \E g \in Games : ApplyEvent(g)
    <3>1. PICK g \in Games : ApplyEvent(g)
      BY <2>3, Zenon
    <3>2. PICK m \in Messages : m = Message("update", g, row[g] + 1)
      BY <2>1, <3>1, Zenon
    <3>3. m.kind = "update" /\ m.game = g /\ m.n = row[g] + 1
      BY <3>2, Zenon DEF Message
    <3>. QED  BY <1>0, <2>1, <3>1, <3>2, <3>3
  <2>4. CASE \E p \in Senders : Commit(p)
    <3>1. PICK p \in Senders, g \in Games :
             /\ Message("notice", g, changes + 1) \in Messages
             /\ casts[p] = NoCast /\ Due(p, Message("notice", g, changes + 1))
             /\ row' = row
      BY <2>2, <2>4, Zenon
    <3>2. PICK m \in Messages : m = Message("notice", g, changes + 1)
      BY <3>1, Zenon
    <3>3. m.kind = "notice" /\ m.game = g
      BY <3>2, Zenon DEF Message
    <3>. QED  BY <3>1, <3>2, <3>3, Zenon
  <2>. QED  BY <2>3, <2>4, Zenon
<1>2. /\ casts'[p].phase = "ready" /\ casts'[p].msg = m
      /\ \A q \in Senders \ {p} : casts'[q] = casts[q]
      /\ UNCHANGED <<conn, inbox, handler, topic, owed, reply>>
  BY <1>0, <1>1, Zenon DEF Due, clientVars
<1>3. \A h \in Games : row[h] \in Nat /\ row'[h] \in Nat /\ row[h] <= row'[h]
  BY <1>0, <1>1
<1>4. \A q \in Senders : casts'[q].phase = "sending" =>
         q # p /\ casts'[q] = casts[q] /\ casts[q].phase = "sending"
  BY <1>2
<1>5. \A q \in Senders : casts[q].phase = "sending" => casts'[q] = casts[q]
  <2>1. casts[p].phase = "none"
    BY <1>1, NoCastPhase, Zenon
  <2>. QED  BY <1>2, <2>1, Zenon
<1>6. \A c \in Clients : \A i \in DOMAIN inbox[c] :
         inbox[c][i].game \in Games /\ inbox[c][i].n \in Nat
  <2>1. ASSUME NEW c \in Clients, NEW i \in DOMAIN inbox[c] PROVE inbox[c][i] \in Messages
    BY <1>0
  <2>. QED  BY <2>1, Zenon DEF Messages
<1>7. Stored'
  BY <1>2, <1>3, <1>6 DEF Stored
<1>8. Unconnected' /\ Replies' /\ Scoped' /\ UpdatesInOrder'
  BY <1>2, ZenonT(40) DEF Unconnected, Replies, Scoped, UpdatesInOrder
<1>9. Addressed'
  BY <1>2, <1>4, ZenonT(40) DEF Addressed
<1>10. NothingMissed'
  BY <1>2, <1>5, MissedKept, Zenon
<1>11. \A q \in Senders \ {p} : casts[q].phase # "none" /\ casts[q].msg.kind = "update" =>
          q = "ingest" /\ row' = row
  BY <1>1, Zenon DEF Announced
<1>12. Announced'
  BY <1>1, <1>2, <1>0, <1>11 DEF Announced
<1>13. News'
  <2>. SUFFICES ASSUME NEW q \in Senders, NEW d \in Clients,
                       casts'[q].phase # "none", casts'[q].msg.kind = "update",
                       casts'[q].phase = "sending" => d \in casts'[q].left
                PROVE  Newer(casts'[q].msg, inbox[d])
    BY <1>2, Zenon DEF News
  <2>1. CASE q # p
    BY <1>2, <2>1, Zenon DEF News
  <2>2. CASE q = p
    <3>1. m.n = row[g] + 1 /\ casts'[q].msg = m
      BY <1>1, <1>2, <2>2, Zenon
    <3>2. ASSUME NEW i \in DOMAIN inbox[d], Update(inbox[d][i], g)
          PROVE  inbox[d][i].n < m.n
      <4>1. inbox[d][i].n <= row[g]
        BY <3>2, Zenon DEF Stored, Update
      <4>. QED  BY <1>3, <1>6, <3>1, <4>1
    <3>. QED  BY <1>1, <3>1, <3>2, Zenon DEF Newer
  <2>. QED  BY <2>1, <2>2, Zenon
<1>. QED  BY <1>7, <1>8, <1>9, <1>10, <1>12, <1>13, Zenon

\* Broadcast p ends, and nothing else happens.
LEMMA EndKeepsFeed ==
    ASSUME IInv, FeedInv, NEW p \in Senders, casts' = [casts EXCEPT ![p] = NoCast],
           UNCHANGED <<inbox, handler, topic, reply, row>>
    PROVE  /\ Replies' /\ Scoped' /\ Stored' /\ UpdatesInOrder'
           /\ Announced' /\ News' /\ Addressed'
<1>. USE DEF FeedInv
<1>1. casts'[p] = NoCast /\ \A q \in Senders \ {p} : casts'[q] = casts[q]
  BY Zenon DEF IInv, TypeOK
<1>2. \A q \in Senders : casts'[q].phase # "none" => casts'[q] = casts[q] /\ q # p
  BY <1>1 DEF NoCast
<1>3. Replies' /\ Scoped' /\ Stored' /\ UpdatesInOrder'
  BY DEF Replies, Scoped, Stored, UpdatesInOrder
<1>4. Announced' /\ News'
  BY <1>2, ZenonT(40) DEF Announced, News
<1>5. Addressed'
  BY <1>2, Zenon DEF Addressed
<1>. QED  BY <1>3, <1>4, <1>5, Zenon

\* Broadcasts that are given up before or during their writes.
LEMMA GiveUpKeepsFeed ==
    ASSUME IInv, FeedInv, FetchFails \/ \E p \in Senders : BroadcastPanics(p)
    PROVE  FeedInv'
<1>. USE DEF FeedInv, clientVars, serverVars
<1>0. casts \in [Senders -> Cast] /\ "ingest" \in Senders /\ owed \in [Clients -> SUBSET Messages]
  BY DEF IInv, TypeOK, Senders
<1>1. CASE FetchFails
  <2>1. /\ casts["ingest"].phase = "ready" /\ casts' = [casts EXCEPT !["ingest"] = NoCast]
        /\ UNCHANGED <<inbox, handler, topic, reply, row, conn, owed>>
    BY <1>1, Zenon DEF FetchFails
  <2>2. \A q \in Senders : casts[q].phase = "sending" => casts'[q] = casts[q]
    BY <1>0, <2>1, Zenon
  <2>3. NothingMissed' /\ Unconnected'
    BY <2>1, <2>2 DEF NothingMissed, Got, Outstanding, Unconnected
  <2>. QED  BY <1>0, <2>1, <2>3, EndKeepsFeed, ZenonT(40)
<1>2. ASSUME NEW p \in Senders, BroadcastPanics(p) PROVE FeedInv'
  <2>1. /\ casts' = [casts EXCEPT ![p] = NoCast]
        /\ owed' = [c \in Clients |-> owed[c] \ {casts[p].msg}]
        /\ UNCHANGED <<inbox, handler, topic, reply, row, conn>>
    BY <1>2, Zenon DEF BroadcastPanics
  <2>2. \A q \in Senders \ {p} : casts'[q] = casts[q]
    BY <1>0, <2>1, Zenon
  <2>3. Unconnected'
    BY <2>1, Zenon DEF Unconnected
  <2>4. NothingMissed'
    <3>. SUFFICES ASSUME NEW c \in Clients, NEW m \in owed'[c], conn[c] = "open"
                  PROVE  Got(c, m) \/ Outstanding(c, m)'
      BY <2>1, Zenon DEF NothingMissed, Got
    <3>1. m \in owed[c] /\ m # casts[p].msg
      BY <2>1, Zenon
    <3>. QED  BY <2>2, <3>1 DEF NothingMissed, Outstanding
  <2>. QED  BY <2>1, <2>3, <2>4, EndKeepsFeed, ZenonT(40)
<1>. QED  BY <1>1, <1>2, Zenon

\* The snapshot of the subscribers: whoever is owed the message is written to.
LEMMA StartKeepsFeed ==
    ASSUME IInv, FeedInv, NEW p \in Senders, StartBroadcast(p)
    PROVE  FeedInv'
<1>. USE DEF FeedInv
<1>0. /\ casts \in [Senders -> Cast] /\ owed \in [Clients -> SUBSET Messages]
      /\ gameSubscribers \in [Topics -> SUBSET Clients]
  BY Zenon DEF IInv, TypeOK
<1>1. PICK m \in Messages : m = casts[p].msg /\ casts[p].phase = "ready"
  BY <1>0, ReadyCast, Zenon DEF StartBroadcast, BroadcastEvent
<1>2. m.game \in Games /\ m.game \in Topics /\ GlobalGameID \in Topics /\ m.game # GlobalGameID
  BY HubAssumption DEF Messages, Topics
<1>3. PICK A : A = SnapshotSubscribers(m.game)
  OBVIOUS
<1>4. PICK y : y = IF A = {} THEN NoCast
                   ELSE [phase |-> "sending", msg |-> m, left |-> A, failed |-> {},
                         global |-> gameSubscribers[GlobalGameID]]
  BY Zenon
<1>5. /\ casts' = [casts EXCEPT ![p] = y]
      /\ owed' = [c \in Clients |-> IF conn[c] = "open" /\ Hears(c, m)
                                    THEN owed[c] \cup {m} ELSE owed[c]]
      /\ UNCHANGED <<conn, inbox, handler, topic, reply, row>>
  BY <1>1, <1>3, <1>4, Zenon DEF StartBroadcast, BroadcastEvent, serverVars
<1>6. casts'[p] = y /\ \A q \in Senders \ {p} : casts'[q] = casts[q]
  BY <1>0, <1>5
<1>7. y.phase # "none" => /\ y.phase = "sending" /\ y.msg = m /\ y.left = A /\ y.failed = {}
                          /\ y.global = gameSubscribers[GlobalGameID]
  BY <1>4, Zenon DEF NoCast
<1>8. A \subseteq Clients /\ A = gameSubscribers[m.game] \cup gameSubscribers[GlobalGameID]
  BY <1>0, <1>2, <1>3, Zenon DEF SnapshotSubscribers
<1>9. Replies' /\ Scoped' /\ Stored' /\ UpdatesInOrder'
  BY <1>5, ZenonT(40) DEF Replies, Scoped, Stored, UpdatesInOrder
<1>10. Unconnected'
  BY <1>5, ZenonT(40) DEF Unconnected, IInv, OpenInMap
<1>11. Announced'
  <2>1. ASSUME NEW q \in Senders, casts'[q].phase # "none"
        PROVE  casts[q].phase # "none" /\ casts'[q].msg = casts[q].msg
    BY <1>1, <1>6, <1>7, <2>1, Zenon
  <2>2. row' = row
    BY <1>5, Zenon
  <2>. QED  BY <2>1, <2>2, Zenon DEF Announced
<1>12. News'
  <2>. SUFFICES ASSUME NEW q \in Senders, NEW d \in Clients,
                       casts'[q].phase # "none", casts'[q].msg.kind = "update",
                       casts'[q].phase = "sending" => d \in casts'[q].left
                PROVE  Newer(casts'[q].msg, inbox[d])
    BY <1>5, ZenonT(40) DEF News
  <2>1. CASE q # p
    BY <1>6, <2>1, ZenonT(40) DEF News
  <2>2. CASE q = p
    <3>1. casts'[q].msg = m
      BY <1>6, <1>7, <2>2, Zenon
    <3>. QED  BY <1>1, <2>2, <3>1, Zenon DEF News
  <2>. QED  BY <2>1, <2>2
<1>13. Addressed'
  <2>. SUFFICES ASSUME NEW q \in Senders, casts'[q].phase = "sending",
                       NEW c \in casts'[q].left \cup casts'[q].failed
                PROVE  /\ handler[c] # "none"
                       /\ handler[c] = "reading" =>
                             /\ topic[c] \in {casts'[q].msg.game, GlobalGameID}
                             /\ topic[c] = GlobalGameID <=> c \in casts'[q].global
    BY <1>5, ZenonT(40) DEF Addressed
  <2>1. CASE q # p
    BY <1>6, <2>1, Zenon DEF Addressed
  <2>2. CASE q = p
    <3>1. /\ c \in A /\ casts'[q].msg = m /\ casts'[q].global = gameSubscribers[GlobalGameID]
      BY <1>6, <1>7, <2>2, ZenonT(40)
    <3>2. \A t \in Topics : c \in gameSubscribers[t] => handler[c] = "reading" /\ topic[c] = t
      BY ZenonT(40) DEF IInv, InMap
    <3>. QED  BY <1>2, <1>8, <3>1, <3>2, Zenon
  <2>. QED  BY <2>1, <2>2, Zenon
<1>14. NothingMissed'
  <2>. SUFFICES ASSUME NEW c \in Clients, NEW x \in owed'[c], conn[c] = "open"
                PROVE  Got(c, x) \/ Outstanding(c, x)'
    BY <1>5, Zenon DEF NothingMissed, Got
  <2>1. CASE x \in owed[c]
    <3>1. Outstanding(c, x) => Outstanding(c, x)'
      BY <1>1, <1>6, Zenon DEF Outstanding
    <3>. QED  BY <2>1, <3>1, Zenon DEF NothingMissed
  <2>2. CASE x = m /\ Hears(c, m)
    <3>1. c \in A
      BY <1>8, <2>2, Zenon DEF Hears
    <3>2. y.phase = "sending" /\ y.msg = m /\ c \in y.left
      BY <1>4, <3>1, Zenon
    <3>. QED  BY <1>6, <2>2, <3>2, Zenon DEF Outstanding
  <2>. QED  BY <1>5, <2>1, <2>2, Zenon
<1>. QED  BY <1>9, <1>10, <1>11, <1>12, <1>13, <1>14, Zenon

\* The cleanup closes every connection that is open and was not written to.
LEMMA CleanupKeepsFeed ==
    ASSUME IInv, FeedInv, NEW p \in Senders, CleanupFailedConnections(p),
           UNCHANGED <<clientVars, serverVars>>
    PROVE  FeedInv'
<1>. USE DEF FeedInv, clientVars, serverVars
<1>1. PICK g : g = casts[p].msg.game
  BY Zenon
<1>2. /\ casts[p].phase = "sending" /\ casts[p].left = {}
      /\ conn' = [c \in Clients |-> IF c \in Failed(p, g) \cup Failed(p, GlobalGameID)
                                    THEN "closed" ELSE conn[c]]
      /\ casts' = [casts EXCEPT ![p] = NoCast] /\ UNCHANGED inbox
  BY <1>1 DEF CleanupFailedConnections
<1>3. \A q \in Senders \ {p} : casts'[q] = casts[q]
  BY <1>2, ZenonT(40) DEF IInv, TypeOK
<1>4. Unconnected'
  BY <1>2, ZenonT(40) DEF Unconnected
<1>5. ASSUME NEW c \in Clients, c \in casts[p].failed PROVE conn'[c] # "open"
  <2>1. CASE conn[c] = "open"
    <3>1. handler[c] = "reading" /\ c \in gameSubscribers[topic[c]]
      BY <2>1, ZenonT(40) DEF IInv, OpenInMap
    <3>2. topic[c] \in {g, GlobalGameID} /\ (topic[c] = GlobalGameID <=> c \in casts[p].global)
      BY <1>1, <1>2, <1>5, <3>1 DEF Addressed
    <3>3. c \in Failed(p, topic[c])
      BY <1>5, <3>1, <3>2, Zenon DEF Failed
    <3>4. c \in Failed(p, g) \cup Failed(p, GlobalGameID)
      BY <3>2, <3>3, Zenon
    <3>. QED  BY <1>2, <3>4, ZenonT(40)
  <2>2. CASE conn[c] # "open"
    BY <1>2, <2>2, Zenon
  <2>. QED  BY <2>1, <2>2
<1>6. NothingMissed'
  <2>. SUFFICES ASSUME NEW c \in Clients, NEW m \in owed[c], conn'[c] = "open"
                PROVE  Got(c, m) \/ Outstanding(c, m)'
    BY <1>2, ZenonT(40) DEF NothingMissed, Got
  <2>1. conn[c] = "open" /\ c \notin casts[p].failed
    BY <1>2, <1>5, Zenon
  <2>2. Outstanding(c, m) => Outstanding(c, m)'
    BY <1>2, <1>3, <2>1, Zenon DEF Outstanding
  <2>. QED  BY <2>1, <2>2, Zenon DEF NothingMissed
<1>. QED  BY <1>2, <1>4, <1>6, EndKeepsFeed, ZenonT(40)

\* A process without connections has delivered and announced nothing.
LEMMA FreshFeed == FreshState => FeedInv
<1>. SUFFICES ASSUME FreshState PROVE FeedInv
  BY Zenon
<1>1. /\ handler = [c \in Clients |-> "none"] /\ inbox = [c \in Clients |-> <<>>]
      /\ owed = [c \in Clients |-> {}] /\ reply = [c \in Clients |-> NoReply]
      /\ casts = [p \in Senders |-> NoCast]
  BY DEF FreshState, Fresh
<1>2. Unconnected /\ Replies /\ Scoped /\ Stored /\ UpdatesInOrder /\ NothingMissed
  <2>1. \A c \in Clients : inbox[c] = <<>> /\ owed[c] = {} /\ reply[c] = NoReply
    BY <1>1, Zenon
  <2>2. \A c \in Clients : DOMAIN inbox[c] = {}
    BY <2>1
  <2>3. Scoped /\ Stored /\ UpdatesInOrder
    BY <2>2, Zenon DEF Scoped, Stored, UpdatesInOrder
  <2>4. Unconnected /\ Replies /\ NothingMissed
    BY <2>1, Zenon DEF Unconnected, Replies, NothingMissed
  <2>. QED  BY <2>3, <2>4, Zenon
<1>3. \A p \in Senders : casts[p].phase = "none"
  BY <1>1, Zenon DEF NoCast
<1>4. Announced /\ News /\ Addressed
  BY <1>3, Zenon DEF Announced, News, Addressed
<1>. QED  BY <1>2, <1>4 DEF FeedInv

\* Every step keeps the feed intact.
LEMMA NextFeed == IInv /\ FeedInv /\ [Next]_vars => FeedInv' \/ FreshState'
<1>. SUFFICES ASSUME IInv, FeedInv, [Next]_vars PROVE FeedInv' \/ FreshState'
  BY Zenon
<1>1. ASSUME NEW c \in Clients, Client(c) PROVE FeedInv'
  BY <1>1, ConnectionKeeps, WriteServerMessageKeeps, Zenon DEF Client
<1>2. CASE (\E g \in Games : ApplyEvent(g)) \/ \E p \in Senders : Commit(p)
  BY <1>2, StoreKeepsFeed, Zenon
<1>3. CASE FetchFails \/ \E p \in Senders : BroadcastPanics(p)
  BY <1>3, GiveUpKeepsFeed, Zenon
<1>4. ASSUME NEW p \in Senders, Broadcast(p) PROVE FeedInv'
  BY <1>4, StartKeepsFeed, SendKeepsFeed, CleanupKeepsFeed, Zenon DEF Broadcast
<1>5. CASE Crash
  BY <1>5, CrashKeeps, Zenon
<1>6. CASE Shutdown
  BY <1>6, ConnectionKeeps, Zenon
<1>7. CASE UNCHANGED vars
  <2>1. ClientSteps
    BY <1>7 DEF vars, ClientSteps, ClientStep
  <2>. QED  BY <2>1, ClientStepsKeep, Zenon
<1>. QED  BY <1>1, <1>2, <1>3, <1>4, <1>5, <1>6, <1>7, Zenon DEF Next

\* Every reachable state satisfies the invariant of the feed.
THEOREM FeedInvariance == Spec => []FeedInv
<1>1. Init => FeedInv
  <2>1. Init => FreshState
    BY FeedAssumption DEF Init, FreshState
  <2>. QED  BY <2>1, FreshFeed, Zenon
<1>. QED  BY <1>1, Invariance, NextFeed, FreshFeed, PTL DEF Spec

\* One goroutine stores and broadcasts, so a client receives the updates of a game
\* in the order of the chain and none twice, whatever else is sent to it.
THEOREM UpdatesInOrderHolds == Spec => []UpdatesInOrder
<1>1. FeedInv => UpdatesInOrder
  BY Zenon DEF FeedInv
<1>. QED  BY <1>1, FeedInvariance, PTL

\* The snapshot costs nobody a message: a connected client has got, or will be sent
\* or dropped by, every broadcast that began while it was subscribed.
THEOREM NothingMissedHolds == Spec => []NothingMissed
<1>1. FeedInv => NothingMissed
  BY Zenon DEF FeedInv
<1>. QED  BY <1>1, FeedInvariance, PTL

\* Nobody but its own sync request gives a client an answer.
LEMMA OnlySyncAnswers ==
    ASSUME IInv, Next, NEW c \in Clients, reply[c] = NoReply, reply'[c] # NoReply
    PROVE  HandleSyncRequest(c)
<1>. USE DEF clientVars, serverVars
<1>0. reply \in [Clients -> Messages \cup {NoReply}]
  BY DEF IInv, TypeOK
<1>1. ASSUME NEW d \in Clients, Client(d) PROVE HandleSyncRequest(c)
  <2>1. CASE HandleSyncRequest(d)
    BY <1>0, <2>1, Zenon DEF HandleSyncRequest
  <2>2. CASE WriteServerMessage(d)
    BY <1>0, <2>2, Zenon DEF WriteServerMessage
  <2>3. CASE HandleConnection(d) \/ HandlerReturns(d) \/ PeerLost(d)
    BY <2>3, Zenon DEF HandleConnection, HandlerReturns, PeerLost
  <2>. QED  BY <1>1, <2>1, <2>2, <2>3, ZenonT(40) DEF Client
<1>2. ~\E g \in Games : ApplyEvent(g)
  BY Zenon DEF ApplyEvent, Due
<1>3. ~FetchFails /\ ~Shutdown
  BY DEF FetchFails, Shutdown
<1>4. ASSUME NEW p \in Senders PROVE ~(Commit(p) \/ Broadcast(p) \/ BroadcastPanics(p))
  BY ZenonT(40) DEF Commit, Due, Broadcast, StartBroadcast, BroadcastPanics
<1>5. ~Crash
  BY DEF Crash, Fresh
<1>. QED  BY <1>1, <1>2, <1>3, <1>4, <1>5, Zenon DEF Next

\* What a client can fetch is never behind what it was sent.
THEOREM SyncCoversPastHolds == Spec => SyncCoversPast
<1>1. IInv /\ FeedInv /\ [Next]_vars =>
        [\A c \in Clients : reply[c] = NoReply /\ reply'[c] # NoReply =>
            \A i \in DOMAIN inbox[c] :
                inbox[c][i].kind = "update" => inbox[c][i].n <= reply'[c].n]_vars
  <2>. SUFFICES ASSUME IInv, FeedInv, Next, NEW c \in Clients,
                       reply[c] = NoReply, reply'[c] # NoReply,
                       NEW i \in DOMAIN inbox[c], inbox[c][i].kind = "update"
                PROVE  inbox[c][i].n <= reply'[c].n
    BY Zenon
  <2>1. HandleSyncRequest(c)
    BY OnlySyncAnswers
  <2>2. topic[c] # GlobalGameID /\ reply'[c].n = row[topic[c]]
    BY <2>1, Zenon DEF HandleSyncRequest, Message, IInv, TypeOK
  <2>. QED  BY <2>2, Zenon DEF FeedInv, Scoped, Stored
<1>. QED  BY <1>1, Invariance, FeedInvariance, PTL DEF Spec, SyncCoversPast
=============================================================================
