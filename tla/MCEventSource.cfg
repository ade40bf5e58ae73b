\* Two transactions, one reconnect before the fallback and one restart; the connection
\* breaks and notifications are repeated at any time.
CONSTANTS
    MaxTx = 2
    MaxReconnect = 1
    EventSourceType = "websocket"
    ResumeEventSource = TRUE
    MaxWire = 2
    MaxRestarts = 1
SPECIFICATION FairSpec
INVARIANTS CheckpointHandled AtMostOnce  HealthHonest
PROPERTIES CheckpointAdvances ConnectionRestored 
CHECK_DEADLOCK FALSE
