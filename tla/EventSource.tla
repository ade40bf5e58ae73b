----------------------------- MODULE EventSource -----------------------------
(***************************************************************************)
(* The event source as a whole: WebSocketSubscriber on the client,         *)
(* EventSourceFactory with its fallback to polling, and TONEventHandler,   *)
(* which starts and stops the source and stores the checkpoint.            *)
(* SwitchToWebSocket and SwitchToHTTP have no caller and are left out.     *)
(***************************************************************************)
EXTENDS WebSocketClient

\* resolveInitialEventSourceType.
Resolved(type) == IF ResumeEventSource THEN type ELSE EventSourceType

\* What NewTONEventHandler builds: a poller runs with the event handler.
PollerOf(type) == IF type = "http" THEN "events" ELSE "none"
ReaderOf(type) == IF type = "http" THEN "off" ELSE "connect"

\* The first start: an empty checkpoint row.
Init ==
    /\ chain = 0 /\ handled = {} /\ failed = {} /\ missed = {} /\ restarts = 0
    /\ stored = [lt |-> 0, type |-> EventSourceType]
    /\ source = EventSourceType /\ lt = 0
    /\ poller = PollerOf(source) /\ pollCtx = "live"
    /\ reader = ReaderOf(source) /\ pinger = "off" /\ msg = 0
    /\ conn = "none" /\ listening = FALSE /\ wire = <<>>
    /\ attempt = 0 /\ disconnecting = "nobody"
    /\ stopped = "no" /\ notify = FALSE /\ snapshot = Unread
    /\ times = [n \in Tx |-> 0]

\* The checkpoint as GetSyncCheckpoint composes it.
SyncCheckpoint == [lt |-> lt, type |-> source]

StartEmitFrame ==
    UNCHANGED <<chain, clientVars, missed, stopped, source, poller, pollCtx, notify,
                lt, resultVars, restarts>>

\* TONEventHandler.Start reads a checkpoint while the source starts.
StartReads ==
    /\ snapshot = Unread
    /\ snapshot' = SyncCheckpoint
    /\ UNCHANGED stored /\ StartEmitFrame

\* And writes it, by then possibly an old one.
StartWrites ==
    /\ snapshot \in Checkpoint
    /\ snapshot' = Written
    /\ Persist(snapshot) /\ StartEmitFrame
-----------------------------------------------------------------------------
\* Mutant: the poller gets the context of the handler.
FallbackCtxParent == "live"

\* The fallback poller gets the subscriber's context, which Stop has just
\* cancelled.
FallbackCtx == "cancelled"

\* WebSocketSubscriber.Stop with WebSocketClient.Stop.
StopSubscriber(why) == conn' = "none" /\ WireCut /\ stopped' = why

\* fallbackToHTTP: stops the subscriber and starts a poller from its lt, with
\* the handler the factory was given: tempEventHandler, which accepts all.
FallbackToHTTP ==
    /\ StopSubscriber("fallback")
    /\ source' = "http"
    /\ poller' = "placeholder"
    /\ pollCtx' = FallbackCtx
    /\ notify' = TRUE
    /\ UNCHANGED <<chain, disconnecting, pinger, msg, lt, snapshot, stored, resultVars, restarts>>

\* reconnect, no attempt left: the fallback, in the goroutine of the reader.
MaxReconnectExceeded ==
    /\ reader = "top" /\ Running
    /\ conn = "none"
    /\ attempt >= MaxReconnect
    /\ attempt' = attempt + 1
    /\ UNCHANGED reader
    /\ FallbackToHTTP

StartFrame == UNCHANGED <<chain, stopped, disconnecting, msg, stored, factoryVars, lt, resultVars, restarts>>

\* WebSocketSubscriber.Start: the first connection, or the fallback.
StartConnect ==
    /\ reader = "connect"
    /\ \/ Dialled /\ reader' = "start" /\ UNCHANGED pinger /\ StartFrame
       \/ reader' = "off" /\ UNCHANGED attempt /\ FallbackToHTTP

\* Then the subscription and the two loops, or the fallback.
StartSubscribe ==
    /\ reader = "start"
    /\ \/ /\ conn = "open"
          /\ listening' = TRUE
          /\ reader' = "top" /\ pinger' = "wait"
          /\ UNCHANGED <<conn, wire, missed, attempt>> /\ StartFrame
       \/ /\ conn # "open"
          /\ reader' = "off" /\ UNCHANGED attempt /\ FallbackToHTTP

\* The callback of the factory: RecordFallback and the checkpoint, two writes
\* of which either may fail.
EmitFallback ==
    /\ notify
    /\ notify' = FALSE
    /\ \/ Persist(SyncCheckpoint)
       \/ stored' = [stored EXCEPT !.type = "http"]
    /\ UNCHANGED <<chain, clientVars, missed, stopped, source, poller, pollCtx, snapshot,
                   lt, resultVars, restarts>>
-----------------------------------------------------------------------------
\* Mutant: only the transaction at the checkpoint is skipped.
IsOldEqual(n) == n = lt

\* Mutant: the transaction after the checkpoint is skipped, too.
IsOldByOne(n) == n <= lt + 1

\* WebSocketSubscriber skips what is at or behind its checkpoint.
IsOld(n) == n <= lt

HandleFrame ==
    UNCHANGED <<chain, conn, wireVars, attempt, disconnecting, pinger, stopped, factoryVars, restarts>>

\* WebSocketSubscriber.HandleTransaction: skip, accept or fail.  An error is
\* only logged by the client.  The notification is forgotten when it returns.
HandleTransaction ==
    /\ reader = "handle"
    /\ \/ IsOld(msg) /\ reader' = "top" /\ msg' = 0 /\ UNCHANGED resultVars
       \/ ~IsOld(msg) /\ reader' = "advance" /\ UNCHANGED msg /\ Accepts(msg)
       \/ ~IsOld(msg) /\ reader' = "top" /\ msg' = 0 /\ Refuses(msg)
    /\ UNCHANGED <<lt, stored>> /\ HandleFrame

\* The checkpoint follows an accepted transaction.
Advance ==
    /\ reader = "advance"
    /\ reader' = "top" /\ msg' = 0
    /\ lt' = SetMax(lt, msg)
    /\ \/ msg > lt /\ Persist([lt |-> msg, type |-> source])
       \/ msg <= lt /\ UNCHANGED stored
    /\ UNCHANGED resultVars /\ HandleFrame

\* The poller takes the transactions after its checkpoint in order and stops
\* at one that fails; module Poller has the detail.
Poll ==
    /\ poller # "none" /\ pollCtx = "live"
    /\ lt < chain
    /\ LET n == lt + 1
       IN \/ /\ IF poller = "events" THEN Accepts(n) ELSE UNCHANGED resultVars
             /\ lt' = n
             /\ Persist([lt |-> n, type |-> source])
          \/ /\ poller = "events" /\ Refuses(n)
             /\ UNCHANGED <<lt, stored>>
    /\ UNCHANGED <<chain, clientVars, missed, stopped, factoryVars, restarts>>

\* The poller's goroutine returns when its context is cancelled.
PollerEnds ==
    /\ poller # "none" /\ pollCtx = "cancelled"
    /\ poller' = "none"
    /\ UNCHANGED <<chain, clientVars, missed, stopped, source, pollCtx, notify, snapshot,
                   lt, stored, resultVars, restarts>>

\* TONEventHandler.Stop: cancels the context, stops the source the process
\* started with and writes a last checkpoint.
Stop ==
    /\ StopSubscriber("shutdown")
    /\ pollCtx' = "cancelled"
    /\ Persist(SyncCheckpoint)
    /\ UNCHANGED <<chain, attempt, disconnecting, reader, pinger, msg, source, poller, notify,
                   snapshot, lt, resultVars, restarts>>
-----------------------------------------------------------------------------
\* The contract makes a transaction; a listening connection is told.
Transaction ==
    /\ chain < MaxTx
    /\ chain' = chain + 1
    /\ \/ listening /\ conn = "open" /\ Len(wire) < MaxWire /\ wire' = Append(wire, chain + 1)
          /\ UNCHANGED missed
       \/ ~(listening /\ conn = "open") /\ missed' = missed \cup {chain + 1} /\ UNCHANGED wire
    /\ UNCHANGED <<conn, listening, attempt, disconnecting, reader, pinger, msg, stopped,
                   factoryVars, lt, stored, resultVars, restarts>>

\* TON Center sends a notification again.
Redeliver ==
    /\ listening /\ conn = "open" /\ Len(wire) < MaxWire
    /\ \E n \in 1 .. chain : wire' = Append(wire, n)
    /\ UNCHANGED <<chain, conn, listening, missed, attempt, disconnecting, reader, pinger, msg, stopped,
                   factoryVars, lt, stored, resultVars, restarts>>

\* The connection is lost, with what is on its way.
Break ==
    /\ conn = "open"
    /\ conn' = "broken" /\ WireCut
    /\ UNCHANGED <<chain, attempt, disconnecting, reader, pinger, msg, stopped,
                   factoryVars, lt, stored, resultVars, restarts>>

\* The process is restarted, after Stop or a crash, and resumes from the row.
Restart ==
    /\ restarts < MaxRestarts
    /\ restarts' = restarts + 1
    /\ source' = Resolved(stored.type) /\ lt' = stored.lt
    /\ poller' = PollerOf(source') /\ pollCtx' = "live"
    /\ reader' = ReaderOf(source') /\ pinger' = "off" /\ msg' = 0
    /\ conn' = "none" /\ listening' = FALSE /\ wire' = <<>>
    /\ attempt' = 0 /\ disconnecting' = "nobody"
    /\ stopped' = "no" /\ notify' = FALSE /\ snapshot' = Unread
    /\ times' = [n \in Tx |-> 0]
    /\ missed' = missed \cup Range(wire) \cup (IF reader = "handle" THEN {msg} ELSE {})
    /\ UNCHANGED <<chain, stored, handled, failed>>

Client ==
    \/ Backoff \/ Dial \/ Resubscribe \/ ReadLoop \/ ReadMessage \/ Ping
    \/ \E p \in Goroutine : Disconnect(p) \/ Close(p) \/ LoopEnds(p)

Factory == MaxReconnectExceeded \/ StartConnect \/ StartSubscribe \/ EmitFallback
           \/ StartReads \/ StartWrites

Delivery == HandleTransaction \/ Advance \/ Poll \/ PollerEnds

Environment == Transaction \/ Redeliver \/ Break \/ Restart

Next == Client \/ Factory \/ Delivery \/ Stop \/ Environment

Spec == Init /\ [][Next]_sourceVars

\* What the reader's goroutine does.
ReaderStep ==
    \/ StartConnect \/ StartSubscribe
    \/ Backoff \/ Dial \/ Resubscribe \/ MaxReconnectExceeded
    \/ ReadLoop \/ ReadMessage \/ HandleTransaction \/ Advance
    \/ Disconnect("reader") \/ Close("reader") \/ LoopEnds("reader")

\* Goroutines are scheduled, and the ticker of the poller keeps firing.  No
\* ping has to fail, and nothing has to succeed.
FairSpec ==
    /\ Spec
    /\ WF_sourceVars(ReaderStep)
    /\ WF_sourceVars(Disconnect("pinger") \/ Close("pinger") \/ LoopEnds("pinger"))
    /\ WF_sourceVars(Poll \/ PollerEnds)
-----------------------------------------------------------------------------
\* Every variable holds values of the kind the program keeps in it.
TypeOK ==
    /\ chain \in 0 .. MaxTx
    /\ conn \in {"none", "open", "broken"} /\ listening \in BOOLEAN
    /\ wire \in Seq(Tx) /\ Len(wire) <= MaxWire
    /\ attempt \in 0 .. MaxReconnect + 1
    /\ disconnecting \in Goroutine \cup {"nobody"}
    /\ reader \in {"connect", "start", "top", "dial", "subscribe", "read", "handle", "advance",
                   "failed", "closing", "off"}
    /\ pinger \in {"wait", "failed", "closing", "off"}
    /\ msg \in 0 .. MaxTx /\ lt \in 0 .. MaxTx
    /\ stopped \in {"no", "fallback", "shutdown"} /\ notify \in BOOLEAN
    /\ source \in SourceType /\ pollCtx \in {"live", "cancelled"}
    /\ poller \in {"none", "events", "placeholder"}
    /\ snapshot \in Checkpoint \cup {Unread, Written} /\ stored \in Checkpoint
    /\ handled \subseteq Tx /\ failed \subseteq Tx /\ missed \subseteq Tx
    /\ times \in [Tx -> Nat] /\ restarts \in 0 .. MaxRestarts

\* "LT checkpoints advance only after successful transaction handling"
\* (README): the checkpoint in memory and the stored one are transactions the
\* event handler accepted, also after a fallback, whose poller has a handler
\* that accepts everything and does nothing.
CheckpointHandled == {lt, stored.lt} \subseteq handled \cup {0}

\* Out-of-order notifications, the write Start makes next to the running
\* source, and the writes of a fallback never move the stored lt back.
CheckpointAdvances == [][stored'.lt >= stored.lt]_sourceVars

\* Redelivered and reordered notifications and the handoff to the poller do
\* not make one process handle a transaction twice.
AtMostOnce == \A n \in Tx : times[n] <= 1

\* The checkpoint passes over a transaction only if the event handler refused
\* it or no connection delivered it.
PassedOver == 1 .. lt \subseteq handled \cup failed \cup missed

Down == source = "websocket" /\ conn # "open" /\ Running

\* However the reader and the ping loop race for a disconnect, a lost
\* connection is dialled again until it is back or the fallback takes over.
ConnectionRestored == Down ~> ~Down

\* After Stop or a fallback all goroutines of the source end.
Quiesces == ~Running ~> (Running \/ (reader = "off" /\ pinger = "off" /\ poller = "none"))

\* The fallback "switches from WebSocket to HTTP polling": the polled source
\* gets what the chain has, unless the process stops.
FallbackDelivers ==
    (source = "http" /\ chain = MaxTx) ~> (lt = MaxTx \/ source # "http" \/ stopped = "shutdown")
=============================================================================
