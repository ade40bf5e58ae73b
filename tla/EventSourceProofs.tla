-------------------------- MODULE EventSourceProofs --------------------------
(***************************************************************************)
(* The event source for any number of transactions, notifications on their *)
(* way, reconnects and restarts: type correctness, what the checkpoint     *)
(* stands for, that it never moves back, that one process handles a        *)
(* transaction at most once, and that the health report is honest.         *)
(***************************************************************************)
EXTENDS Health, TLAPS

\* Transactions nobody can account for yet.
Pending == (1 .. chain) \ (handled \cup failed \cup missed)

\* The client reads the notification before its handler looks at it.
InHand(n) == reader = "handle" /\ n = msg

\* PassedOver is not inductive: when the checkpoint jumps to the transaction in
\* hand, everything before it must be accounted for.  That is so because the
\* pending transactions are all on the wire or in hand, and whatever is on the
\* wire, sent again or not, has the smaller pending ones in front of it.
InOrder ==
    /\ \A n \in Pending : InHand(n) \/ \E j \in 1 .. Len(wire) : wire[j] = n
    /\ \A i \in 1 .. Len(wire) :
          /\ wire[i] \in 1 .. chain
          /\ \A n \in Pending : n < wire[i] => InHand(n) \/ \E j \in 1 .. i - 1 : wire[j] = n
    /\ reader \in {"handle", "advance"} => msg \in 1 .. chain /\ \A n \in Pending : ~(n < msg)
    /\ reader = "advance" => msg \in handled

\* The checkpoints that the process has, wrote and is about to write.
Checkpoints ==
    /\ handled \subseteq 1 .. chain
    /\ {lt, stored.lt, snapshot.lt} \subseteq handled \cup {0}

\* What this process handled is at or behind its checkpoint, or in hand.
Counted ==
    \A n \in Tx : /\ times[n] <= 1
                  /\ times[n] > 0 => n <= lt \/ (reader = "advance" /\ n = msg)

Polling == poller # "none" /\ pollCtx = "live"

\* A poller that may run has the event handler, and the client is not running.
PollerAlone == Polling => poller = "events" /\ reader = "off"

\* While the client runs it has not used up its attempts.
AttemptsLeft == Running => attempt <= MaxReconnect

IInv ==
    /\ TypeOK
    /\ Checkpoints
    /\ PassedOver
    /\ InOrder
    /\ Counted
    /\ PollerAlone
    /\ AttemptsLeft
-----------------------------------------------------------------------------
\* A checkpoint row stays one.
LEMMA PersistType ==
    ASSUME stored \in Checkpoint, NEW c \in Checkpoint, Persist(c)
    PROVE  /\ stored' \in Checkpoint /\ stored'.lt >= stored.lt
           /\ stored'.lt \in {stored.lt, c.lt}
BY EventSourceAssumption DEF Persist, Persisted, SetMax, Checkpoint

\* What a sequence ranges over.
LEMMA RangeType == ASSUME NEW S, NEW s \in Seq(S) PROVE Range(s) \subseteq S
BY DEF Range

\* TypeOK in two parts, for the provers: the flags and the rest.
FlagsOK == listening \in BOOLEAN /\ notify \in BOOLEAN

ValuesOK ==
    /\ chain \in 0 .. MaxTx
    /\ conn \in {"none", "open", "broken"}
    /\ wire \in Seq(Tx) /\ Len(wire) <= MaxWire
    /\ attempt \in 0 .. MaxReconnect + 1 /\ AttemptsLeft
    /\ disconnecting \in Goroutine \cup {"nobody"}
    /\ reader \in {"connect", "start", "top", "dial", "subscribe", "read", "handle", "advance",
                   "failed", "closing", "off"}
    /\ pinger \in {"wait", "failed", "closing", "off"}
    /\ msg \in 0 .. MaxTx /\ lt \in 0 .. MaxTx
    /\ stopped \in {"no", "fallback", "shutdown"}
    /\ source \in SourceType /\ pollCtx \in {"live", "cancelled"}
    /\ poller \in {"none", "events", "placeholder"}
    /\ snapshot \in Checkpoint \cup {Unread, Written} /\ stored \in Checkpoint
    /\ handled \subseteq Tx /\ failed \subseteq Tx /\ missed \subseteq Tx
    /\ times \in [Tx -> Nat] /\ restarts \in 0 .. MaxRestarts

\* The type invariant in the two halves.
LEMMA TypeParts == TypeOK /\ AttemptsLeft <=> FlagsOK /\ ValuesOK
BY DEF TypeOK, FlagsOK, ValuesOK

\* The flags are set and cleared, never anything else.
LEMMA FlagsStep == ASSUME FlagsOK, Next PROVE FlagsOK'
<1> USE DEF FlagsOK, clientVars, factoryVars, resultVars, wireVars, LoopFrame, WireCut
<1>1. CASE Client
  BY <1>1, Zenon DEF Client, Backoff, Dial, Dialled, DialFails, Resubscribe, ReadLoop, ReadMessage,
         Ping, Disconnect, Close, LoopEnds
<1>2. CASE Factory
  BY <1>2, Zenon DEF Factory, MaxReconnectExceeded, StartConnect, StartSubscribe, EmitFallback, StartReads,
         StartWrites, FallbackToHTTP, StopSubscriber, StartFrame, StartEmitFrame, Dialled
<1>3. CASE Delivery
  BY <1>3, Zenon DEF Delivery, HandleTransaction, Advance, Poll, PollerEnds, HandleFrame
<1>4. CASE Stop
  BY <1>4, Zenon DEF Stop, StopSubscriber
<1>5. CASE Environment
  BY <1>5, Zenon DEF Environment, Transaction, Redeliver, Break, Restart
<1>. QED  BY <1>1, <1>2, <1>3, <1>4, <1>5 DEF Next

\* A connection that ends, and a notification that is read.
LEMMA WireType ==
    ASSUME ValuesOK
    PROVE  /\ WireCut => /\ wire' \in Seq(Tx) /\ Len(wire') <= MaxWire /\ missed' \subseteq Tx
           /\ wire # <<>> => /\ Head(wire) \in Tx /\ Tail(wire) \in Seq(Tx)
                            /\ Len(Tail(wire)) <= MaxWire
<1>1. wire \in Seq(Tx) /\ Len(wire) <= MaxWire /\ missed \subseteq Tx /\ MaxWire \in Nat
  BY EventSourceAssumption DEF ValuesOK
<1>2. Range(wire) \subseteq Tx
  BY <1>1, RangeType
<1>3. <<>> \in Seq(Tx) /\ Len(<<>>) = 0
  OBVIOUS
<1>4. ASSUME wire # <<>>
      PROVE  Head(wire) \in Tx /\ Tail(wire) \in Seq(Tx) /\ Len(Tail(wire)) <= MaxWire
  <2>1. Len(Tail(wire)) = Len(wire) - 1 /\ Len(wire) \in Nat
    BY <1>1, <1>4
  <2>2. Head(wire) \in Tx /\ Tail(wire) \in Seq(Tx)
    BY <1>1, <1>4
  <2>. QED  BY <1>1, <2>1, <2>2
<1>5. ASSUME WireCut
      PROVE  wire' \in Seq(Tx) /\ Len(wire') <= MaxWire /\ missed' \subseteq Tx
  BY <1>1, <1>2, <1>3, <1>5 DEF WireCut
<1>. QED  BY <1>4, <1>5

\* The client's steps keep the types.
LEMMA ClientType == ASSUME ValuesOK, Client PROVE ValuesOK'
<1> USE EventSourceAssumption
        DEF ValuesOK, AttemptsLeft, Running, clientVars, factoryVars, resultVars, wireVars, LoopFrame
<1>g. Goroutine = {"reader", "pinger"}
  BY DEF Goroutine
<1>1. CASE Backoff
  BY <1>1 DEF Backoff
<1>2. CASE Dial
  BY <1>2, WireType DEF Dial, Dialled, DialFails
<1>3. CASE Resubscribe
  BY <1>3 DEF Resubscribe
<1>4. CASE ReadLoop
  BY <1>4 DEF ReadLoop
<1>5. CASE ReadMessage
  <2>1. CASE wire # <<>> /\ msg' = Head(wire) /\ wire' = Tail(wire) /\ reader' = "handle"
    <3>1. msg' \in 0 .. MaxTx /\ wire' \in Seq(Tx) /\ Len(wire') <= MaxWire
      BY <2>1, WireType DEF Tx
    <3>. QED  BY <1>5, <2>1, <3>1 DEF ReadMessage
  <2>2. CASE reader' = "failed" /\ UNCHANGED <<msg, wire>>
    BY <1>5, <2>2 DEF ReadMessage
  <2>. QED  BY <1>5, <2>1, <2>2 DEF ReadMessage
<1>6. CASE Ping
  BY <1>6 DEF Ping
<1>7. ASSUME NEW p \in Goroutine, Disconnect(p) PROVE ValuesOK'
  <2>1. CASE p = "reader"
    BY <1>7, <2>1, <1>g DEF Disconnect, GoesTo, Resumes
  <2>2. CASE p = "pinger"
    BY <1>7, <2>2, <1>g DEF Disconnect, GoesTo, Resumes
  <2>. QED  BY <2>1, <2>2, <1>g
<1>8. ASSUME NEW p \in Goroutine, Close(p) PROVE ValuesOK'
  <2>1. CASE p = "reader"
    BY <1>8, <2>1, WireType DEF Close, Closed, GoesTo, Resumes
  <2>2. CASE p = "pinger"
    BY <1>8, <2>2, WireType DEF Close, Closed, GoesTo, Resumes
  <2>. QED  BY <2>1, <2>2, <1>g
<1>9. ASSUME NEW p \in Goroutine, LoopEnds(p) PROVE ValuesOK'
  BY <1>9, <1>g DEF LoopEnds, GoesTo
<1>. QED  BY <1>1, <1>2, <1>3, <1>4, <1>5, <1>6, <1>7, <1>8, <1>9 DEF Client

\* So do those of the factory and of Start.
LEMMA FactoryType == ASSUME ValuesOK, Factory PROVE ValuesOK'
<1> USE EventSourceAssumption
        DEF ValuesOK, AttemptsLeft, Running, clientVars, factoryVars, resultVars, wireVars
<1>s. SourceType = {"websocket", "http"} /\ SyncCheckpoint \in Checkpoint
  BY DEF SourceType, SyncCheckpoint, Checkpoint
<1>f. ASSUME FallbackToHTTP, attempt' \in 0 .. MaxReconnect + 1, reader' \in {reader, "off"}
      PROVE  ValuesOK'
  BY <1>f, <1>s, WireType DEF FallbackToHTTP, StopSubscriber, FallbackCtx
<1>1. CASE MaxReconnectExceeded
  BY <1>1, <1>f DEF MaxReconnectExceeded
<1>2. CASE StartConnect
  <2>1. CASE reader' = "off" /\ UNCHANGED attempt /\ FallbackToHTTP
    BY <2>1, <1>f
  <2>2. CASE Dialled /\ reader' = "start" /\ UNCHANGED pinger /\ StartFrame
    BY <2>2, WireType DEF Dialled, StartFrame
  <2>. QED  BY <1>2, <2>1, <2>2 DEF StartConnect
<1>3. CASE StartSubscribe
  <2>1. CASE reader' = "off" /\ UNCHANGED attempt /\ FallbackToHTTP
    BY <2>1, <1>f
  <2>2. CASE /\ reader' = "top" /\ pinger' = "wait"
             /\ UNCHANGED <<conn, wire, missed, attempt>> /\ StartFrame
    BY <2>2 DEF StartFrame
  <2>. QED  BY <1>3, <2>1, <2>2 DEF StartSubscribe
<1>4. CASE EmitFallback
  <2>1. stored' \in Checkpoint
    <3>1. CASE Persist(SyncCheckpoint)
      BY <3>1, <1>s, PersistType
    <3>2. CASE stored' = [stored EXCEPT !.type = "http"]
      BY <3>2, <1>s DEF Checkpoint
    <3>. QED  BY <1>4, <3>1, <3>2 DEF EmitFallback
  <2>. QED  BY <1>4, <2>1 DEF EmitFallback
<1>5. CASE StartReads
  BY <1>5, <1>s DEF StartReads, StartEmitFrame
<1>6. CASE StartWrites
  <2>1. stored' \in Checkpoint
    BY <1>6, PersistType DEF StartWrites
  <2>. QED  BY <1>6, <2>1 DEF StartWrites, StartEmitFrame
<1>. QED  BY <1>1, <1>2, <1>3, <1>4, <1>5, <1>6 DEF Factory

\* The deliveries, Stop and the environment.
LEMMA OtherType == ASSUME ValuesOK, FlagsOK, InOrder, Delivery \/ Stop \/ Environment PROVE ValuesOK'
<1> USE EventSourceAssumption
        DEF ValuesOK, AttemptsLeft, Running, clientVars, factoryVars, resultVars, wireVars
<1>s. SourceType = {"websocket", "http"} /\ SyncCheckpoint \in Checkpoint
  BY DEF SourceType, SyncCheckpoint, Checkpoint
<1>a. ASSUME NEW n \in Tx, Accepts(n) \/ Refuses(n)
      PROVE  handled' \subseteq Tx /\ failed' \subseteq Tx /\ times' \in [Tx -> Nat]
  BY <1>a DEF Accepts, Refuses
<1>m. ASSUME reader \in {"handle", "advance"} PROVE msg \in Tx
  BY <1>m DEF InOrder, Tx
<1>1. CASE HandleTransaction
  <2>1. handled' \subseteq Tx /\ failed' \subseteq Tx /\ times' \in [Tx -> Nat]
    BY <1>1, <1>a, <1>m DEF HandleTransaction
  <2>2. msg' \in 0 .. MaxTx /\ reader' \in {"top", "advance"} /\ UNCHANGED <<lt, stored>> /\ HandleFrame
    BY <1>1 DEF HandleTransaction
  <2>. QED  BY <2>1, <2>2 DEF HandleFrame
<1>2. CASE Advance
  <2>1. msg \in Tx
    BY <1>2, <1>m DEF Advance
  <2>2. [lt |-> msg, type |-> source] \in Checkpoint
    BY <2>1 DEF Checkpoint, Tx
  <2>3. stored' \in Checkpoint
    BY <1>2, <2>2, PersistType DEF Advance
  <2>4. lt' \in 0 .. MaxTx
    BY <1>2, <2>1 DEF Advance, SetMax, Tx
  <2>. QED  BY <1>2, <2>3, <2>4 DEF Advance, HandleFrame
<1>3. CASE Poll
  <2>0. PICK n \in Tx : n = lt + 1
    BY <1>3 DEF Poll, Tx
  <2>1. [lt |-> n, type |-> source] \in Checkpoint
    BY DEF Checkpoint, Tx
  <2>2. stored' \in Checkpoint
    BY <1>3, <2>0, <2>1, PersistType DEF Poll
  <2>3. lt' \in 0 .. MaxTx
    BY <1>3, <2>0 DEF Poll, Tx
  <2>4. handled' \subseteq Tx /\ failed' \subseteq Tx /\ times' \in [Tx -> Nat]
    BY <1>3, <2>0, <1>a DEF Poll
  <2>5. UNCHANGED <<chain, clientVars, missed, stopped, factoryVars, restarts>>
    BY <1>3 DEF Poll
  <2>. QED  BY <2>2, <2>3, <2>4, <2>5
<1>4. CASE PollerEnds
  BY <1>4 DEF PollerEnds
<1>5. CASE Stop
  <2>1. stored' \in Checkpoint
    BY <1>5, <1>s, PersistType DEF Stop
  <2>. QED  BY <1>5, <2>1, WireType DEF Stop, StopSubscriber
<1>6. CASE Transaction
  <2>1. chain + 1 \in Tx /\ chain' = chain + 1
    BY <1>6 DEF Transaction, Tx
  <2>2. wire' \in Seq(Tx) /\ Len(wire') <= MaxWire
    BY <1>6, <2>1 DEF Transaction
  <2>3. missed' \subseteq Tx
    BY <1>6, <2>1 DEF Transaction
  <2>. QED  BY <1>6, <2>1, <2>2, <2>3 DEF Transaction, Tx
<1>7. CASE Redeliver
  <2>1. PICK n \in 1 .. chain : wire' = Append(wire, n)
    BY <1>7 DEF Redeliver
  <2>2. n \in Tx
    BY DEF Tx
  <2>3. wire' \in Seq(Tx) /\ Len(wire') <= MaxWire
    BY <1>7, <2>1, <2>2 DEF Redeliver
  <2>. QED  BY <1>7, <2>3 DEF Redeliver
<1>8. CASE Break
  BY <1>8, WireType DEF Break
<1>9. CASE Restart
  <2>1. missed' \subseteq Tx
    <3>1. Range(wire) \subseteq Tx
      BY RangeType
    <3>. QED  BY <1>9, <1>m, <3>1 DEF Restart
  <2>2. source' \in SourceType /\ lt' \in 0 .. MaxTx /\ stored' = stored
    BY <1>9, <1>s DEF Restart, Resolved, Checkpoint
  <2>3. poller' \in {"none", "events"} /\ reader' \in {"off", "connect"}
    BY <1>9 DEF Restart, PollerOf, ReaderOf
  <2>4. wire' \in Seq(Tx) /\ Len(wire') <= MaxWire /\ times' \in [Tx -> Nat]
    BY <1>9 DEF Restart
  <2>. QED  BY <1>9, <2>1, <2>2, <2>3, <2>4 DEF Restart
<1>. QED  BY <1>1, <1>2, <1>3, <1>4, <1>5, <1>6, <1>7, <1>8, <1>9 DEF Delivery, Environment
-----------------------------------------------------------------------------
\* What the steps that deliver nothing have in common: notifications get lost
\* at most, the reader neither takes nor drops one, the row gets a checkpoint
\* the process has or had, and no poller starts running.
Quiet ==
    /\ UNCHANGED <<chain, handled, failed, times, msg, lt>>
    /\ \/ UNCHANGED <<wire, missed>>
       \/ wire' = <<>> /\ missed' = missed \cup Range(wire)
    /\ reader' = reader \/ {reader, reader'} \cap {"handle", "advance"} = {}
    /\ stored'.lt \in {stored.lt, lt, snapshot.lt} /\ stored'.lt >= stored.lt
    /\ snapshot'.lt \in {snapshot.lt, lt, 0}
    /\ Polling' => Polling /\ poller' = poller /\ (reader = "off" => reader' = "off")

\* The client but for a notification it reads.
LEMMA ClientQuiet ==
    ASSUME ValuesOK, Client
    PROVE  \/ Quiet
           \/ ReadMessage /\ reader' = "handle"
<1> USE DEF Quiet, ValuesOK, Polling, Running, WireCut, clientVars, factoryVars, resultVars,
            wireVars, LoopFrame
<1>s. stored.lt \in Nat /\ stored.lt >= stored.lt
  BY EventSourceAssumption DEF Checkpoint
<1>1. CASE Backoff
  BY <1>1, <1>s DEF Backoff
<1>2. CASE Dial
  BY <1>2, <1>s DEF Dial, Dialled, DialFails
<1>3. CASE Resubscribe
  BY <1>3, <1>s DEF Resubscribe
<1>4. CASE ReadLoop
  BY <1>4, <1>s DEF ReadLoop
<1>5. CASE ReadMessage
  BY <1>5, <1>s DEF ReadMessage
<1>6. CASE Ping
  BY <1>6, <1>s DEF Ping
<1>7. ASSUME NEW p \in Goroutine, Disconnect(p) \/ Close(p) \/ LoopEnds(p) PROVE Quiet
  <2>1. CASE p = "reader"
    BY <1>7, <2>1, <1>s DEF Disconnect, Close, Closed, LoopEnds, GoesTo, Resumes, At
  <2>2. CASE p = "pinger"
    BY <1>7, <2>2, <1>s, SMTT(30) DEF Disconnect, Close, Closed, LoopEnds, GoesTo, Resumes
  <2>. QED  BY <2>1, <2>2 DEF Goroutine
<1>. QED  BY <1>1, <1>2, <1>3, <1>4, <1>5, <1>6, <1>7 DEF Client

\* The factory and Start, whose writes run next to the source.
LEMMA FactoryQuiet ==
    ASSUME ValuesOK, Factory \/ PollerEnds \/ Stop \/ Break
    PROVE  Quiet
<1> USE DEF Quiet, ValuesOK, Polling, WireCut, clientVars, factoryVars, resultVars, wireVars
<1>s. /\ stored.lt \in Nat /\ stored.lt >= stored.lt
      /\ SyncCheckpoint \in Checkpoint /\ SyncCheckpoint.lt = lt
  BY EventSourceAssumption DEF Checkpoint, SyncCheckpoint
<1>f. ASSUME FallbackToHTTP, reader' = reader \/ {reader, reader'} \cap {"handle", "advance"} = {}
      PROVE  Quiet
  BY <1>f, <1>s DEF FallbackToHTTP, StopSubscriber, FallbackCtx
<1>1. CASE MaxReconnectExceeded
  BY <1>1, <1>f DEF MaxReconnectExceeded
<1>2. CASE StartConnect
  <2>1. CASE reader' = "off" /\ FallbackToHTTP
    BY <1>2, <2>1, <1>f DEF StartConnect
  <2>2. CASE Dialled /\ reader' = "start" /\ StartFrame
    BY <1>2, <2>2, <1>s DEF StartConnect, Dialled, StartFrame
  <2>. QED  BY <1>2, <2>1, <2>2 DEF StartConnect
<1>3. CASE StartSubscribe
  <2>1. CASE reader' = "off" /\ FallbackToHTTP
    BY <1>3, <2>1, <1>f DEF StartSubscribe
  <2>2. CASE reader' = "top" /\ UNCHANGED <<wire, missed>> /\ StartFrame
    BY <1>3, <2>2, <1>s DEF StartSubscribe, StartFrame
  <2>. QED  BY <1>3, <2>1, <2>2 DEF StartSubscribe
<1>4. CASE EmitFallback
  <2>1. stored'.lt \in {stored.lt, lt} /\ stored'.lt >= stored.lt
    <3>1. CASE Persist(SyncCheckpoint)
      BY <3>1, <1>s, PersistType
    <3>2. CASE stored' = [stored EXCEPT !.type = "http"]
      BY <3>2, <1>s DEF Checkpoint
    <3>. QED  BY <1>4, <3>1, <3>2 DEF EmitFallback
  <2>. QED  BY <1>4, <2>1 DEF EmitFallback
<1>5. CASE StartReads
  BY <1>5, <1>s DEF StartReads, StartEmitFrame
<1>6. CASE StartWrites
  <2>1. stored'.lt \in {stored.lt, snapshot.lt} /\ stored'.lt >= stored.lt
    BY <1>6, PersistType DEF StartWrites
  <2>2. snapshot'.lt = 0
    BY <1>6 DEF StartWrites, Written
  <2>. QED  BY <1>6, <2>1, <2>2 DEF StartWrites, StartEmitFrame
<1>7. CASE PollerEnds
  BY <1>7, <1>s DEF PollerEnds
<1>8. CASE Stop
  <2>1. stored'.lt \in {stored.lt, lt} /\ stored'.lt >= stored.lt
    BY <1>8, <1>s, PersistType DEF Stop
  <2>. QED  BY <1>8, <2>1 DEF Stop, StopSubscriber
<1>9. CASE Break
  BY <1>9, <1>s DEF Break
<1>. QED  BY <1>1, <1>2, <1>3, <1>4, <1>5, <1>6, <1>7, <1>8, <1>9 DEF Factory

\* What the steps have to keep beyond the types.
Core ==
    /\ Checkpoints
    /\ PassedOver
    /\ InOrder
    /\ Counted
    /\ PollerAlone

\* A quiet step keeps what is claimed of the handled transactions.
LEMMA QuietKeeps == ASSUME ValuesOK, Core, Quiet PROVE Core'
<1> USE DEF Core, Checkpoints, ValuesOK, Quiet
<1>1. Checkpoints'
  OBVIOUS
<1>2. PassedOver'
  BY DEF PassedOver
<1>3. InOrder'
  <2>1. Pending' \subseteq Pending
    BY DEF Pending
  <2>2. \A n : InHand(n)' <=> InHand(n)
    BY DEF InHand
  <2>3. reader' \in {"handle", "advance"} => reader' = reader
    OBVIOUS
  <2>4. CASE UNCHANGED <<wire, missed>>
    BY <2>1, <2>2, <2>3, <2>4 DEF InOrder
  <2>5. CASE wire' = <<>> /\ missed' = missed \cup Range(wire)
    <3>1. ASSUME NEW n \in Pending' PROVE InHand(n)
      <4>1. n \in Pending /\ n \notin Range(wire)
        BY <2>1, <2>5 DEF Pending
      <4>2. ASSUME NEW j \in 1 .. Len(wire) PROVE wire[j] # n
        BY <4>1 DEF Range
      <4>. QED  BY <4>1, <4>2 DEF InOrder
    <3>2. Len(wire') = 0
      BY <2>5
    <3>. QED  BY <2>1, <2>2, <2>3, <3>1, <3>2 DEF InOrder
  <2>. QED  BY <2>4, <2>5
<1>4. Counted'
  BY DEF Counted
<1>5. PollerAlone'
  BY DEF PollerAlone
<1>. QED  BY <1>1, <1>2, <1>3, <1>4, <1>5

\* The client takes the first notification: nothing pending is before it.
LEMMA ReadKeeps ==
    ASSUME ValuesOK, Core, ReadMessage, reader' = "handle"
    PROVE  Core'
<1> USE DEF Core, Checkpoints, ValuesOK
<1>0. /\ reader = "read" /\ wire # <<>> /\ msg' = Head(wire) /\ wire' = Tail(wire)
      /\ UNCHANGED <<chain, handled, failed, missed, times, lt, stored, snapshot, poller, pollCtx>>
  BY DEF ReadMessage, LoopFrame, factoryVars, resultVars
<1>1. /\ Len(wire) \in Nat \ {0} /\ Len(wire') = Len(wire) - 1 /\ msg' = wire[1]
      /\ \A j \in 1 .. Len(wire') : wire'[j] = wire[j + 1]
  BY <1>0
<1>2. Pending' = Pending /\ \A n \in Pending : ~InHand(n)
  BY <1>0 DEF Pending, InHand
<1>3. InOrder'
  <2>1. ASSUME NEW n \in Pending PROVE InHand(n)' \/ \E j \in 1 .. Len(wire') : wire'[j] = n
    <3>1. PICK j \in 1 .. Len(wire) : wire[j] = n
      BY <1>2 DEF InOrder
    <3>2. CASE j = 1
      BY <1>1, <3>1, <3>2 DEF InHand
    <3>3. CASE j # 1
      <4>1. PICK m \in 1 .. Len(wire') : m + 1 = j
        <5>1. j - 1 \in 1 .. Len(wire') /\ (j - 1) + 1 = j
          BY <1>1, <3>1, <3>3
        <5>. QED  BY <5>1
      <4>2. wire'[m] = wire[m + 1]
        BY <1>1
      <4>. QED  BY <3>1, <4>1, <4>2
    <3>. QED  BY <3>2, <3>3
  <2>2. ASSUME NEW i \in 1 .. Len(wire')
        PROVE  /\ wire'[i] \in 1 .. chain
               /\ \A n \in Pending : n < wire'[i] =>
                      InHand(n)' \/ \E j \in 1 .. i - 1 : wire'[j] = n
    <3>1. wire'[i] = wire[i + 1] /\ i + 1 \in 1 .. Len(wire)
      <4>1. wire'[i] = wire[i + 1]
        BY <1>1
      <4>2. i + 1 \in 1 .. Len(wire)
        BY <1>1
      <4>. QED  BY <4>1, <4>2
    <3>2. ASSUME NEW n \in Pending, n < wire'[i]
          PROVE  InHand(n)' \/ \E j \in 1 .. i - 1 : wire'[j] = n
      <4>1. PICK j \in 1 .. (i + 1) - 1 : wire[j] = n
        BY <1>2, <3>1, <3>2 DEF InOrder
      <4>2. CASE j = 1
        BY <1>1, <4>1, <4>2 DEF InHand
      <4>3. CASE j # 1
        <5>1. PICK m \in 1 .. i - 1 : m + 1 = j
          <6>1. j - 1 \in 1 .. i - 1 /\ (j - 1) + 1 = j
            BY <1>1, <4>1, <4>3
          <6>. QED  BY <6>1
        <5>2. m \in 1 .. Len(wire')
          BY <1>1
        <5>3. wire'[m] = wire[m + 1]
          BY <1>1, <5>2
        <5>. QED  BY <4>1, <5>1, <5>3
      <4>. QED  BY <4>2, <4>3
    <3>. QED  BY <3>1, <3>2 DEF InOrder
  <2>3. msg' \in 1 .. chain /\ \A n \in Pending : ~(n < msg')
    <3>1. wire[1] \in 1 .. chain
      BY <1>1 DEF InOrder
    <3>2. ASSUME NEW n \in Pending, n < wire[1] PROVE FALSE
      <4>1. \E j \in 1 .. 1 - 1 : wire[j] = n
        BY <1>1, <1>2, <3>2 DEF InOrder
      <4>. QED  BY <4>1
    <3>. QED  BY <1>1, <3>1, <3>2
  <2>. QED  BY <1>0, <1>2, <2>1, <2>2, <2>3 DEF InOrder
<1>4. PassedOver' /\ Counted'
  BY <1>0 DEF PassedOver, Counted
<1>5. PollerAlone'
  BY <1>0 DEF PollerAlone, Polling
<1>. QED  BY <1>0, <1>3, <1>4, <1>5

\* The transaction in hand is skipped, accepted or refused.
LEMMA HandleKeeps == ASSUME ValuesOK, Core, HandleTransaction PROVE Core'
<1> USE DEF Core, Checkpoints, ValuesOK
<1>0. /\ reader = "handle" /\ msg \in 1 .. chain /\ chain \in Nat /\ lt \in Nat
      /\ UNCHANGED <<chain, wire, missed, lt, stored, snapshot, poller, pollCtx>>
  BY EventSourceAssumption DEF HandleTransaction, HandleFrame, wireVars, factoryVars, InOrder
<1>t. msg \in Tx
  BY <1>0 DEF Tx
<1>1. /\ handled \subseteq handled' /\ handled' \subseteq handled \cup {msg}
      /\ failed \subseteq failed' /\ msg \notin Pending'
      /\ reader' = "top" \/ (reader' = "advance" /\ msg' = msg /\ msg \in handled')
  <2>1. CASE IsOld(msg) /\ reader' = "top" /\ UNCHANGED resultVars
    BY <1>0, <2>1 DEF IsOld, resultVars, PassedOver, Pending
  <2>2. CASE reader' = "advance" /\ UNCHANGED msg /\ Accepts(msg)
    BY <1>0, <2>2 DEF Accepts, Pending
  <2>3. CASE reader' = "top" /\ Refuses(msg)
    BY <1>0, <2>3 DEF Refuses, Pending
  <2>. QED  BY <2>1, <2>2, <2>3 DEF HandleTransaction
<1>2. Checkpoints'
  BY <1>0, <1>1
<1>3. PassedOver'
  BY <1>0, <1>1 DEF PassedOver
<1>4. InOrder'
  <2>1. Pending' \subseteq Pending \ {msg}
    BY <1>0, <1>1 DEF Pending
  <2>2. \A n \in Pending' : ~InHand(n)
    BY <2>1 DEF InHand
  <2>3. \A n \in Pending : ~(n < msg)
    BY <1>0 DEF InOrder
  <2>. QED  BY <1>0, <1>1, <2>1, <2>2, <2>3 DEF InOrder
<1>5. Counted'
  <2>1. CASE UNCHANGED times /\ reader' = "top"
    BY <1>0, <2>1 DEF Counted
  <2>2. CASE ~IsOld(msg) /\ reader' = "advance" /\ UNCHANGED msg /\ Accepts(msg)
    <3>1. times[msg] = 0
      BY <1>0, <1>t, <2>2 DEF Counted, IsOld
    <3>2. times'[msg] = 1 /\ \A n \in Tx : n # msg => times'[n] = times[n]
      BY <1>t, <2>2, <3>1 DEF Accepts
    <3>. QED  BY <1>0, <2>2, <3>2 DEF Counted
  <2>. QED  BY <2>1, <2>2 DEF HandleTransaction, Refuses, resultVars
<1>6. PollerAlone'
  BY <1>0 DEF PollerAlone, Polling
<1>. QED  BY <1>2, <1>3, <1>4, <1>5, <1>6

\* The checkpoint jumps to the accepted transaction.
LEMMA AdvanceKeeps == ASSUME ValuesOK, Core, Advance PROVE Core' /\ stored'.lt >= stored.lt
<1> USE DEF Core, Checkpoints, ValuesOK
<1>0. /\ reader = "advance" /\ reader' = "top" /\ msg \in 1 .. chain /\ msg \in handled
      /\ chain \in Nat /\ lt \in Nat /\ stored.lt \in Nat
      /\ UNCHANGED <<chain, wire, missed, handled, failed, times, snapshot, poller, pollCtx>>
  BY EventSourceAssumption
     DEF Advance, HandleFrame, wireVars, factoryVars, resultVars, InOrder, Checkpoint
<1>1. lt' = IF lt > msg THEN lt ELSE msg
  BY DEF Advance, SetMax
<1>2. [lt |-> msg, type |-> source] \in Checkpoint
  BY <1>0 DEF Checkpoint
<1>3. stored'.lt \in {stored.lt, msg} /\ stored'.lt >= stored.lt
  BY <1>0, <1>2, PersistType DEF Advance
<1>4. Checkpoints'
  BY <1>0, <1>1, <1>3
<1>5. PassedOver'
  <2>1. ASSUME NEW n \in 1 .. msg PROVE n \in handled \cup failed \cup missed
    <3>1. n = msg \/ n < msg
      BY <1>0
    <3>2. n \in 1 .. chain
      BY <1>0
    <3>3. n < msg => n \notin Pending
      BY <1>0 DEF InOrder
    <3>. QED  BY <1>0, <3>1, <3>2, <3>3 DEF Pending
  <2>. QED  BY <1>0, <1>1, <2>1 DEF PassedOver
<1>6. InOrder'
  BY <1>0 DEF InOrder, Pending, InHand
<1>7. Counted'
  BY <1>0, <1>1 DEF Counted, Tx
<1>8. PollerAlone'
  BY <1>0 DEF PollerAlone, Polling
<1>. QED  BY <1>3, <1>4, <1>5, <1>6, <1>7, <1>8

\* The poller takes the next transaction, or stays where it is.
LEMMA PollKeeps == ASSUME ValuesOK, Core, Poll PROVE Core' /\ stored'.lt >= stored.lt
<1> USE DEF Core, Checkpoints, ValuesOK
<1>0. /\ poller = "events" /\ reader = "off" /\ lt < chain /\ chain \in Nat /\ lt \in Nat
      /\ stored.lt \in Nat
      /\ UNCHANGED <<chain, wire, missed, snapshot, poller, pollCtx, reader, msg>>
  BY EventSourceAssumption DEF Poll, PollerAlone, Polling, clientVars, factoryVars, Checkpoint
<1>n. PICK n \in Tx : n = lt + 1
  BY <1>0, EventSourceAssumption DEF Tx
<1>c. [lt |-> n, type |-> source] \in Checkpoint
  BY DEF Checkpoint, Tx
<1>1. CASE Accepts(n) /\ lt' = n /\ Persist([lt |-> n, type |-> source])
  <2>1. stored'.lt \in {stored.lt, n} /\ stored'.lt >= stored.lt
    BY <1>1, <1>c, PersistType
  <2>2. handled' = handled \cup {n} /\ failed' = failed /\ Pending' \subseteq Pending
    BY <1>0, <1>1 DEF Accepts, Pending
  <2>3. Checkpoints'
    <3>1. handled' \subseteq 1 .. chain'
      BY <1>0, <1>n, <2>2
    <3>. QED  BY <1>0, <1>1, <2>1, <2>2, <3>1
  <2>4. PassedOver'
    BY <1>0, <1>n, <1>1, <2>2 DEF PassedOver
  <2>5. InOrder'
    BY <1>0, <2>2 DEF InOrder, InHand
  <2>6. Counted'
    <3>1. times[n] = 0
      BY <1>0, <1>n DEF Counted
    <3>2. times'[n] = 1 /\ \A m \in Tx : m # n => times'[m] = times[m]
      BY <1>1, <3>1 DEF Accepts
    <3>. QED  BY <1>0, <1>n, <1>1, <3>2 DEF Counted, Tx
  <2>. QED  BY <1>0, <2>1, <2>3, <2>4, <2>5, <2>6 DEF PollerAlone, Polling
<1>2. CASE Refuses(n) /\ UNCHANGED <<lt, stored>>
  <2>1. handled' = handled /\ times' = times /\ failed \subseteq failed' /\ Pending' \subseteq Pending
    BY <1>0, <1>2 DEF Refuses, Pending
  <2>2. Checkpoints'
    BY <1>0, <1>2, <2>1
  <2>3. PassedOver' /\ Counted'
    BY <1>0, <1>2, <2>1 DEF PassedOver, Counted
  <2>4. InOrder'
    BY <1>0, <2>1 DEF InOrder, InHand
  <2>. QED  BY <1>0, <1>2, <2>2, <2>3, <2>4 DEF PollerAlone, Polling
<1>. QED  BY <1>0, <1>n, <1>1, <1>2 DEF Poll

\* The contract makes a transaction, or an old notification is sent again: the
\* smaller pending ones are in front of it.
LEMMA SentKeeps == ASSUME ValuesOK, Core, Transaction \/ Redeliver PROVE Core' /\ stored' = stored
<1> USE DEF Core, Checkpoints, ValuesOK
<1>0. /\ chain \in Nat
      /\ UNCHANGED <<handled, failed, times, lt, stored, snapshot, poller, pollCtx, reader, msg>>
  BY DEF Transaction, Redeliver, factoryVars, resultVars
<1>1. Counted' /\ PollerAlone'
  BY <1>0 DEF Counted, PollerAlone, Polling
<1>2. missed \subseteq missed' /\ chain' \in {chain, chain + 1}
  BY DEF Transaction, Redeliver
<1>c. Checkpoints'
  BY <1>0, <1>2
<1>3. PassedOver'
  BY <1>0, <1>2 DEF PassedOver
<1>4. InOrder'
  <2>1. CASE chain' = chain + 1 /\ missed' = missed \cup {chain + 1} /\ UNCHANGED wire
    <3>1. Pending' \subseteq Pending
      BY <1>0, <2>1 DEF Pending
    <3>2. 1 .. chain \subseteq 1 .. chain'
      BY <1>0, <2>1
    <3>. QED  BY <1>0, <2>1, <3>1, <3>2 DEF InOrder, InHand
  <2>2. ASSUME NEW n \in 1 .. chain', wire' = Append(wire, n), missed' = missed,
               \/ chain' = chain
               \/ chain' = chain + 1 /\ n = chain + 1
        PROVE  InOrder'
    <3>0. n \in Nat /\ chain' \in Nat
      BY <1>0, <2>2
    <3>1. /\ Len(wire) \in Nat /\ Len(wire') = Len(wire) + 1 /\ wire'[Len(wire')] = n
          /\ \A j \in 1 .. Len(wire) : wire'[j] = wire[j]
      BY <2>2
    <3>2. Pending' \subseteq Pending \cup {n}
      BY <1>0, <2>2 DEF Pending
    <3>3. 1 .. chain \subseteq 1 .. chain'
      BY <1>0, <1>2
    <3>4. \A m : InHand(m)' <=> InHand(m)
      BY <1>0 DEF InHand
    <3>5. ASSUME NEW m \in Pending'
          PROVE  InHand(m) \/ \E j \in 1 .. Len(wire') : wire'[j] = m
      <4>1. CASE m = n
        BY <3>1, <4>1
      <4>2. CASE m # n
        <5>1. InHand(m) \/ \E j \in 1 .. Len(wire) : wire[j] = m
          BY <3>2, <4>2 DEF InOrder
        <5>. QED  BY <3>1, <5>1
      <4>. QED  BY <4>1, <4>2
    <3>6. ASSUME NEW i \in 1 .. Len(wire'), NEW m \in Pending', m < wire'[i]
          PROVE  InHand(m) \/ \E j \in 1 .. i - 1 : wire'[j] = m
      <4>1. CASE i = Len(wire')
        <5>1. m # n /\ m \in Pending
          BY <3>0, <3>1, <3>2, <3>6, <4>1
        <5>2. InHand(m) \/ \E j \in 1 .. Len(wire) : wire[j] = m
          BY <5>1 DEF InOrder
        <5>. QED  BY <3>1, <4>1, <5>2
      <4>2. CASE i # Len(wire')
        <5>1. i \in 1 .. Len(wire) /\ wire'[i] = wire[i]
          BY <3>1, <4>2
        <5>2. wire[i] \in 1 .. chain
          BY <5>1 DEF InOrder
        <5>3. m \in Pending
          BY <1>0, <2>2, <3>0, <3>2, <3>6, <5>1, <5>2 DEF Pending
        <5>4. InHand(m) \/ \E j \in 1 .. i - 1 : wire[j] = m
          BY <3>6, <5>1, <5>3 DEF InOrder
        <5>5. \A j \in 1 .. i - 1 : wire'[j] = wire[j]
          BY <3>1, <5>1
        <5>. QED  BY <5>4, <5>5, SMTT(30)
      <4>. QED  BY <4>1, <4>2
    <3>7. ASSUME NEW i \in 1 .. Len(wire') PROVE wire'[i] \in 1 .. chain'
      <4>1. CASE i = Len(wire')
        BY <2>2, <3>1, <4>1
      <4>2. CASE i # Len(wire')
        <5>1. i \in 1 .. Len(wire) /\ wire'[i] = wire[i]
          BY <3>1, <4>2
        <5>. QED  BY <3>3, <5>1 DEF InOrder
      <4>. QED  BY <4>1, <4>2
    <3>8. reader' \in {"handle", "advance"} =>
              msg' \in 1 .. chain' /\ \A m \in Pending' : ~(m < msg')
      <4>1. ASSUME reader \in {"handle", "advance"}, NEW m \in Pending', m < msg PROVE FALSE
        <5>1. msg \in 1 .. chain
          BY <4>1 DEF InOrder
        <5>2. m \in Pending
          BY <1>0, <2>2, <3>0, <3>2, <4>1, <5>1 DEF Pending
        <5>. QED  BY <4>1, <5>2 DEF InOrder
      <4>. QED  BY <1>0, <3>3, <4>1 DEF InOrder
    <3>. QED  BY <1>0, <3>4, <3>5, <3>6, <3>7, <3>8 DEF InOrder
  <2>3. CASE Transaction
    <3>1. chain' = chain + 1 /\ chain + 1 \in 1 .. chain'
      BY <1>0, <2>3 DEF Transaction
    <3>. QED  BY <2>1, <2>2, <2>3, <3>1 DEF Transaction
  <2>4. CASE Redeliver
    <3>1. PICK n \in 1 .. chain : wire' = Append(wire, n)
      BY <2>4 DEF Redeliver
    <3>2. n \in 1 .. chain' /\ chain' = chain /\ missed' = missed
      BY <2>4, <3>1 DEF Redeliver
    <3>. QED  BY <2>2, <3>1, <3>2, SMTT(30)
  <2>. QED  BY <2>3, <2>4
<1>. QED  BY <1>0, <1>1, <1>c, <1>3, <1>4

\* A new process starts at the row; what was on its way counts as missed.
LEMMA RestartKeeps == ASSUME ValuesOK, Core, Restart PROVE Core' /\ stored' = stored
<1> USE DEF Core, Checkpoints, ValuesOK
<1>0. /\ lt' = stored.lt /\ wire' = <<>> /\ snapshot' = Unread
      /\ reader' \in {"off", "connect"} /\ poller' \in {"none", "events"}
      /\ poller' = "events" => reader' = "off"
      /\ UNCHANGED <<chain, stored, handled, failed>> /\ missed \subseteq missed'
  BY DEF Restart, PollerOf, ReaderOf
<1>1. Checkpoints'
  BY <1>0 DEF Unread
<1>2. Pending' = {}
  <2>1. ASSUME NEW n \in Pending' PROVE FALSE
    <3>1. n \in Pending /\ n \notin missed'
      BY <1>0 DEF Pending
    <3>2. ~InHand(n) /\ n \notin Range(wire)
      BY <3>1 DEF Restart, InHand
    <3>3. \A j \in 1 .. Len(wire) : wire[j] # n
      BY <3>2 DEF Range
    <3>. QED  BY <3>1, <3>2, <3>3 DEF InOrder
  <2>. QED  BY <2>1
<1>3. InOrder'
  BY <1>0, <1>2 DEF InOrder
<1>4. PassedOver'
  <2>1. 1 .. stored.lt \subseteq handled \cup failed \cup missed'
    <3>1. stored.lt \in 0 .. chain /\ chain \in Nat
      BY EventSourceAssumption DEF Checkpoint
    <3>. QED  BY <1>0, <1>2, <3>1 DEF Pending
  <2>. QED  BY <1>0, <2>1 DEF PassedOver
<1>5. Counted'
  <2>1. \A n \in Tx : times'[n] = 0
    BY DEF Restart
  <2>. QED  BY <2>1 DEF Counted
<1>6. PollerAlone'
  BY <1>0 DEF PollerAlone, Polling
<1>. QED  BY <1>0, <1>1, <1>3, <1>4, <1>5, <1>6
-----------------------------------------------------------------------------
\* The first process satisfies the invariant.
LEMMA InitInv == Init => IInv
<1> SUFFICES ASSUME Init PROVE IInv
  OBVIOUS
<1> USE EventSourceAssumption DEF Init
<1>1. FlagsOK
  BY DEF FlagsOK
<1>2. ValuesOK
  <2>1. source \in SourceType /\ poller \in {"none", "events"} /\ reader \in {"off", "connect"}
    BY DEF PollerOf, ReaderOf
  <2>2. wire \in Seq(Tx) /\ Len(wire) = 0 /\ times \in [Tx -> Nat]
    OBVIOUS
  <2>3. stored \in Checkpoint
    BY DEF Checkpoint
  <2>. QED  BY <2>1, <2>2, <2>3 DEF ValuesOK, AttemptsLeft
<1>3. Pending = {}
  BY DEF Pending
<1>4. Core
  <2>1. InOrder
    BY <1>3 DEF InOrder, ReaderOf
  <2>2. PassedOver /\ Checkpoints
    BY DEF PassedOver, Checkpoints, Unread
  <2>3. Counted /\ PollerAlone
    BY DEF Counted, PollerAlone, Polling, PollerOf, ReaderOf
  <2>. QED  BY <2>1, <2>2, <2>3 DEF Core
<1>. QED  BY <1>1, <1>2, <1>4, TypeParts DEF IInv, Core

\* Every step preserves the invariant and leaves the row where it is or ahead.
LEMMA NextInv == ASSUME IInv, [Next]_sourceVars PROVE IInv' /\ stored'.lt >= stored.lt
<1>0. FlagsOK /\ ValuesOK /\ Core
  BY TypeParts DEF IInv, Core
<1>s. stored.lt \in Nat
  BY <1>0 DEF ValuesOK, Checkpoint
<1>1. CASE Next
  <2>1. FlagsOK' /\ ValuesOK'
    BY <1>0, <1>1, FlagsStep, ClientType, FactoryType, OtherType DEF Next, Core
  <2>2. Core' /\ stored'.lt >= stored.lt
    <3>1. CASE ReadMessage /\ reader' = "handle"
      <4>1. stored' = stored
        BY <3>1 DEF ReadMessage, LoopFrame
      <4>. QED  BY <1>0, <1>s, <3>1, <4>1, ReadKeeps
    <3>2. CASE Client
      BY <1>0, <3>1, <3>2, ClientQuiet, QuietKeeps, SMTT(30) DEF Quiet
    <3>3. CASE Factory \/ PollerEnds \/ Stop \/ Break
      BY <1>0, <3>3, FactoryQuiet, QuietKeeps DEF Quiet
    <3>4. CASE HandleTransaction
      <4>1. stored' = stored
        BY <3>4 DEF HandleTransaction
      <4>. QED  BY <1>0, <1>s, <3>4, <4>1, HandleKeeps
    <3>5. CASE Advance \/ Poll
      BY <1>0, <3>5, AdvanceKeeps, PollKeeps
    <3>6. CASE Transaction \/ Redeliver \/ Restart
      BY <1>0, <1>s, <3>6, SentKeeps, RestartKeeps
    <3>. QED  BY <1>1, <3>2, <3>3, <3>4, <3>5, <3>6 DEF Next, Delivery, Environment
  <2>3. (TypeOK /\ AttemptsLeft)'
    BY <2>1, TypeParts, PTL
  <2>. QED  BY <2>2, <2>3 DEF IInv, Core
<1>2. CASE UNCHANGED sourceVars
  <2>0. /\ UNCHANGED <<chain, missed, stopped, lt, stored, restarts>>
        /\ UNCHANGED <<conn, listening, wire, attempt, disconnecting, reader, pinger, msg>>
        /\ UNCHANGED <<source, poller, pollCtx, notify, snapshot, handled, failed, times>>
    BY <1>2 DEF sourceVars, clientVars, factoryVars, resultVars
  <2>1. FlagsOK'
    BY <1>0, <2>0 DEF FlagsOK
  <2>2. ValuesOK'
    BY <1>0, <2>0 DEF ValuesOK, AttemptsLeft, Running
  <2>3. (TypeOK /\ AttemptsLeft)'
    BY <2>1, <2>2, TypeParts, PTL
  <2>4. Quiet
    BY <1>s, <2>0 DEF Quiet, Polling
  <2>5. Core' /\ stored'.lt >= stored.lt
    BY <1>0, <1>s, <2>0, <2>4, QuietKeeps
  <2>. QED  BY <2>3, <2>5 DEF IInv, Core
<1>. QED  BY <1>1, <1>2

\* The inductive invariant holds in every reachable state.
THEOREM Invariance == Spec => []IInv
<1>1. IInv /\ [Next]_sourceVars => IInv'
  BY NextInv
<1>. QED  BY InitInv, <1>1, PTL DEF Spec

\* For any number of transactions, reconnects and restarts: the checkpoint in
\* memory and the stored one are transactions the event handler accepted.
THEOREM CheckpointHandledHolds == Spec => [](TypeOK /\ CheckpointHandled)
<1>1. IInv => TypeOK /\ CheckpointHandled
  BY DEF IInv, Checkpoints, CheckpointHandled
<1>. QED  BY <1>1, Invariance, PTL

\* The checkpoint passes over nothing but what was refused or never delivered.
THEOREM PassedOverHolds == Spec => []PassedOver
<1>1. IInv => PassedOver
  BY DEF IInv
<1>. QED  BY <1>1, Invariance, PTL

\* One process handles no transaction twice, however often it is told of it.
THEOREM AtMostOnceHolds == Spec => []AtMostOnce
<1>1. IInv => AtMostOnce
  BY DEF IInv, Counted, AtMostOnce
<1>. QED  BY <1>1, Invariance, PTL

\* No write moves the stored checkpoint back.
THEOREM CheckpointAdvancesHolds == Spec => CheckpointAdvances
<1>1. IInv /\ [Next]_sourceVars => [stored'.lt >= stored.lt]_sourceVars
  BY NextInv
<1>. QED  BY <1>1, Invariance, PTL DEF Spec, CheckpointAdvances
-----------------------------------------------------------------------------
(***************************************************************************)
(* What the health report rests on: a stopped source has no connection,    *)
(* the goroutine that reads ends only with the source, and only an open    *)
(* connection has a subscription.                                          *)
(***************************************************************************)
Linked ==
    /\ ~Running => conn = "none"
    /\ source # "http" /\ reader = "off" => ~Running
    /\ listening => conn = "open"

\* No step of the client, of the factory or of the environment breaks the link.
LEMMA LinkedStep == ASSUME Linked, Next PROVE Linked'
<1> USE DEF Linked, Running, clientVars, factoryVars, resultVars, wireVars, LoopFrame, WireCut
<1>f. ASSUME FallbackToHTTP PROVE Linked'
  BY <1>f, Zenon DEF FallbackToHTTP, StopSubscriber
<1>1. CASE Backoff
  BY <1>1, Zenon DEF Backoff
<1>2. CASE Dial
  BY <1>2 DEF Dial, Dialled, DialFails
<1>3. CASE Resubscribe
  BY <1>3 DEF Resubscribe
<1>4. CASE ReadLoop \/ ReadMessage \/ Ping
  BY <1>4 DEF ReadLoop, ReadMessage, Ping
<1>5. ASSUME NEW p \in Goroutine, Disconnect(p) \/ Close(p) \/ LoopEnds(p) PROVE Linked'
  <2>1. CASE p = "reader"
    BY <1>5, <2>1 DEF Disconnect, Close, Closed, LoopEnds, GoesTo, Resumes
  <2>2. CASE p = "pinger"
    BY <1>5, <2>2 DEF Disconnect, Close, Closed, LoopEnds, GoesTo, Resumes
  <2>. QED  BY <1>5, <2>1, <2>2 DEF Goroutine
<1>6. CASE MaxReconnectExceeded
  BY <1>6, <1>f DEF MaxReconnectExceeded
<1>7. CASE StartConnect
  <2>1. CASE Dialled /\ reader' = "start" /\ UNCHANGED pinger /\ StartFrame
    BY <2>1 DEF Dialled, StartFrame
  <2>. QED  BY <1>7, <1>f, <2>1 DEF StartConnect
<1>8. CASE StartSubscribe
  <2>1. CASE /\ conn = "open" /\ listening' = TRUE /\ reader' = "top" /\ pinger' = "wait"
             /\ UNCHANGED <<conn, wire, missed, attempt>> /\ StartFrame
    BY <2>1 DEF StartFrame
  <2>. QED  BY <1>8, <1>f, <2>1 DEF StartSubscribe
<1>9. CASE EmitFallback \/ StartReads \/ StartWrites
  BY <1>9 DEF EmitFallback, StartReads, StartWrites, StartEmitFrame
<1>10. CASE HandleTransaction
  BY <1>10 DEF HandleTransaction, HandleFrame
<1>11. CASE Advance
  BY <1>11 DEF Advance, HandleFrame
<1>12. CASE Poll \/ PollerEnds
  BY <1>12 DEF Poll, PollerEnds
<1>13. CASE Stop
  BY <1>13 DEF Stop, StopSubscriber
<1>14. CASE Transaction \/ Redeliver
  BY <1>14 DEF Transaction, Redeliver
<1>15. CASE Break
  BY <1>15 DEF Break
<1>16. CASE Restart
  BY <1>16 DEF Restart, ReaderOf
<1>. QED
  BY <1>1, <1>2, <1>3, <1>4, <1>5, <1>6, <1>7, <1>8, <1>9, <1>10, <1>11, <1>12, <1>13, <1>14,
     <1>15, <1>16, Zenon
  DEF Next, Client, Factory, Delivery, Environment

\* What GET /api/v1/health derives from a source that is connected, and from one
\* that is not, whatever the breaker and the row say.
LEMMA Derived ==
    ASSUME NEW breaker \in Breaker, NEW row \in SyncState
    PROVE  /\ ~IsConnected => DeriveParserHealth(breaker, row).status = "unhealthy"
           /\ IsConnected => DeriveParserHealth(breaker, row).recovery # "stalled"
<1>1. CASE ~IsConnected
  BY <1>1 DEF DeriveParserHealth
<1>2. CASE IsConnected /\ breaker # "closed"
  BY <1>2 DEF DeriveParserHealth
<1>3. CASE IsConnected /\ breaker = "closed" /\ source = "http" /\ row = "fallback"
  BY <1>3 DEF DeriveParserHealth
<1>4. CASE IsConnected /\ breaker = "closed" /\ ~(source = "http" /\ row = "fallback")
  BY <1>4 DEF DeriveParserHealth
<1>. QED  BY <1>1, <1>2, <1>3, <1>4

\* An unhealthy part makes the service unhealthy.
LEMMA UnhealthyWins == \A a : MergeHealthStatus(a, "unhealthy") = "unhealthy"
BY DEF MergeHealthStatus

\* For any number of reconnects, fallbacks and restarts the health report is
\* honest: a source whose goroutines have ended makes the service unhealthy, and
\* one that gets transactions is never reported as stalled.
THEOREM HealthHonestHolds == Spec => []HealthHonest
<1>1. Init => Linked
  BY DEF Init, Linked, Running, ReaderOf
<1>2. Linked /\ [Next]_sourceVars => Linked'
  <2>1. Linked /\ UNCHANGED sourceVars => Linked'
    BY DEF Linked, Running, sourceVars, clientVars, factoryVars, wireVars
  <2>. QED  BY <2>1, LinkedStep
<1>3. Linked => HealthHonest
  <2>. SUFFICES ASSUME Linked PROVE HealthHonest
    OBVIOUS
  <2>1. ~Ingesting => ~IsConnected
    BY DEF Linked, Ingesting, IsConnected
  <2>2. (IF source = "http" THEN poller # "none" ELSE listening) => IsConnected
    BY DEF Linked, IsConnected
  <2>3. ASSUME ~IsConnected, NEW breaker \in Breaker, NEW row \in SyncState, NEW database \in BOOLEAN
        PROVE  GetHealth(database, breaker, row).status = "unhealthy"
    BY <2>3, Derived, UnhealthyWins DEF GetHealth
  <2>4. ASSUME IsConnected, NEW breaker \in Breaker, NEW row \in SyncState, NEW database \in BOOLEAN
        PROVE  GetHealth(database, breaker, row).parser.recovery # "stalled"
    BY <2>4, Derived DEF GetHealth
  <2>. QED  BY <2>1, <2>2, <2>3, <2>4, Zenon DEF HealthHonest
<1>. QED  BY <1>1, <1>2, <1>3, PTL DEF Spec
=============================================================================
