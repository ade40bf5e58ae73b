------------------------------- MODULE Health --------------------------------
(***************************************************************************)
(* GET /api/v1/health over the event source: what the response says of     *)
(* the service and of the parser, given the database, the circuit breaker  *)
(* of the TON Center client and the checkpoint row at that moment.         *)
(***************************************************************************)
EXTENDS EventSource

Breaker == {"closed", "half-open", "open"}

\* The row: not readable, or whether it has counted a fallback.
SyncState == {"unreadable", "no fallback", "fallback"}

\* Mutant: HTTP polling counts as connected, started or not.
IsConnectedPolling == IF source = "http" THEN TRUE ELSE conn # "none"

\* isRunning of the poller, isConnected of the WebSocket client.
IsConnected == IF source = "http" THEN poller # "none" ELSE conn # "none"

MergeHealthStatus(a, b) ==
    CASE "unhealthy" \in {a, b} -> "unhealthy"
      [] "unhealthy" \notin {a, b} /\ "degraded" \in {a, b} -> "degraded"
      [] OTHER -> "healthy"

DeriveParserHealth(breaker, row) ==
    CASE ~IsConnected -> [status |-> "unhealthy", recovery |-> "stalled"]
      [] IsConnected /\ breaker # "closed" -> [status |-> "degraded", recovery |-> "recovering"]
      [] IsConnected /\ breaker = "closed" /\ source = "http" /\ row = "fallback" ->
            [status |-> "degraded", recovery |-> "fallback_active"]
      [] OTHER -> [status |-> "healthy", recovery |-> "live"]

\* Before the parser's health is derived.
PopulateHealth(breaker, row) ==
    IF \/ breaker = "open"
       \/ ~IsConnected /\ source = "http"
       \/ row = "unreadable"
    THEN "degraded" ELSE "healthy"

\* Without the database the response is sent before the parser is looked at.
GetHealth(database, breaker, row) ==
    IF ~database
    THEN [status |-> "unhealthy", parser |-> [status |-> "healthy", recovery |-> "live"]]
    ELSE LET parser == DeriveParserHealth(breaker, row)
         IN  [status |-> MergeHealthStatus(PopulateHealth(breaker, row), parser.status),
              parser |-> parser]
-----------------------------------------------------------------------------
\* A goroutine that can bring transactions is there.
Ingesting == IF source = "http" THEN poller # "none" ELSE reader # "off"

\* "confirm which event source is active, whether the parser is live or
\* recovering" (README): whatever the breaker and the row say, a source whose
\* goroutines have ended, after a failed fallback too, makes the service
\* unhealthy, and "stalled" is said only of a source that gets nothing.
HealthHonest ==
    /\ ~Ingesting => \A breaker \in Breaker, row \in SyncState, database \in BOOLEAN :
                        GetHealth(database, breaker, row).status = "unhealthy"
    /\ (IF source = "http" THEN poller # "none" ELSE listening) =>
          \A breaker \in Breaker, row \in SyncState, database \in BOOLEAN :
              GetHealth(database, breaker, row).parser.recovery # "stalled"
=============================================================================
