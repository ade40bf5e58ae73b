--------------------------- MODULE WebSocketClient ---------------------------
(***************************************************************************)
(* WebSocketClient: the read loop with reconnects, the ping loop and the   *)
(* disconnect both may ask for.  connMu makes Connect, the writes and the  *)
(* body of handleDisconnect atomic; isConnected is set and cleared with    *)
(* conn under that mutex, so conn stands for both.                         *)
(***************************************************************************)
EXTENDS EventSourceState

LoopFrame == UNCHANGED <<chain, stopped, stored, restarts>>

\* Dialling succeeds while the context lives; the new connection has no
\* subscription yet and the count of failed attempts starts again.
Dialled ==
    /\ Running
    /\ conn' = "open"
    /\ attempt' = 0
    /\ WireCut

DialFails == UNCHANGED <<conn, attempt, wireVars>>

\* reconnect, while attempts are left: counts the attempt and sleeps.
\* readLoop comes here when it finds itself disconnected.
Backoff ==
    /\ reader = "top" /\ Running
    /\ conn = "none"
    /\ attempt < MaxReconnect
    /\ attempt' = attempt + 1
    /\ reader' = "dial"
    /\ UNCHANGED <<conn, wireVars, disconnecting, pinger, msg, lt>>
    /\ UNCHANGED factoryVars /\ UNCHANGED resultVars /\ LoopFrame

\* Connect, from reconnect.
Dial ==
    /\ reader = "dial"
    /\ \/ Dialled /\ reader' = "subscribe"
       \/ DialFails /\ reader' = "top"
    /\ UNCHANGED <<disconnecting, pinger, msg, lt>>
    /\ UNCHANGED factoryVars /\ UNCHANGED resultVars /\ LoopFrame

\* Subscribe, from reconnect: it fails when the connection is gone.
Resubscribe ==
    /\ reader = "subscribe"
    /\ \/ conn = "open" /\ listening' = TRUE /\ reader' = "read"
       \/ conn # "open" /\ reader' = "failed" /\ UNCHANGED listening
    /\ UNCHANGED <<conn, wire, missed, attempt, disconnecting, pinger, msg, lt>>
    /\ UNCHANGED factoryVars /\ UNCHANGED resultVars /\ LoopFrame

\* readLoop, connected: on to readMessage.
ReadLoop ==
    /\ reader = "top" /\ Running
    /\ conn # "none"
    /\ reader' = "read"
    /\ UNCHANGED <<conn, wireVars, attempt, disconnecting, pinger, msg, lt>>
    /\ UNCHANGED factoryVars /\ UNCHANGED resultVars /\ LoopFrame

\* readMessage and processMessage up to the event handler.  Confirmations,
\* error replies and malformed messages are logged and change nothing.
ReadMessage ==
    /\ reader = "read"
    /\ \/ /\ conn = "open" /\ wire # <<>>
          /\ msg' = Head(wire) /\ wire' = Tail(wire)
          /\ reader' = "handle"
       \/ /\ conn # "open"
          /\ reader' = "failed"
          /\ UNCHANGED <<msg, wire>>
    /\ UNCHANGED <<conn, listening, missed, attempt, disconnecting, pinger, lt>>
    /\ UNCHANGED factoryVars /\ UNCHANGED resultVars /\ LoopFrame

\* pingLoop: the ping cannot be written, or the last pong is too old, which
\* also happens to a sound connection while the reader is busy.
Ping ==
    /\ pinger = "wait" /\ Running
    /\ conn # "none"
    /\ pinger' = "failed"
    /\ UNCHANGED <<conn, wireVars, attempt, disconnecting, reader, msg, lt>>
    /\ UNCHANGED factoryVars /\ UNCHANGED resultVars /\ LoopFrame

At(p) == IF p = "reader" THEN reader ELSE pinger

GoesTo(p, pc) == IF p = "reader" THEN reader' = pc /\ UNCHANGED pinger
                                 ELSE pinger' = pc /\ UNCHANGED reader

Resumes(p) == GoesTo(p, IF p = "reader" THEN "top" ELSE "wait")

\* handleDisconnect, first part: only one goroutine at a time.
Disconnect(p) ==
    /\ At(p) = "failed"
    /\ \/ disconnecting = "nobody" /\ disconnecting' = p /\ GoesTo(p, "closing")
       \/ disconnecting # "nobody" /\ UNCHANGED disconnecting /\ Resumes(p)
    /\ UNCHANGED <<conn, wireVars, attempt, msg, lt>>
    /\ UNCHANGED factoryVars /\ UNCHANGED resultVars /\ LoopFrame

\* Mutant: the flag is not given back.
ClosedForGood(p) == conn' = "none" /\ UNCHANGED disconnecting

\* The connection is closed, whichever it is by now, and the flag given back.
Closed(p) == conn' = "none" /\ disconnecting' = "nobody"

\* handleDisconnect, second part: under connMu.
Close(p) ==
    /\ At(p) = "closing"
    /\ Closed(p)
    /\ WireCut
    /\ Resumes(p)
    /\ UNCHANGED <<attempt, msg, lt>>
    /\ UNCHANGED factoryVars /\ UNCHANGED resultVars /\ LoopFrame

\* Mutant: only the ping loop looks.
LoopEndsPinger(p) ==
    /\ ~Running
    /\ p = "pinger" /\ pinger = "wait" /\ GoesTo(p, "off")
    /\ UNCHANGED <<conn, wireVars, attempt, disconnecting, msg, lt>>
    /\ UNCHANGED factoryVars /\ UNCHANGED resultVars /\ LoopFrame

\* Both loops end once the source is stopped.
LoopEnds(p) ==
    /\ ~Running
    /\ At(p) = (IF p = "reader" THEN "top" ELSE "wait")
    /\ GoesTo(p, "off")
    /\ UNCHANGED <<conn, wireVars, attempt, disconnecting, msg, lt>>
    /\ UNCHANGED factoryVars /\ UNCHANGED resultVars /\ LoopFrame
=============================================================================
