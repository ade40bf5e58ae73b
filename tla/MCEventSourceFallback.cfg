\* One process, without restarts, whose WebSocket connection fails for good.
CONSTANTS
    MaxTx = 2
    MaxReconnect = 1
    EventSourceType = "websocket"
    ResumeEventSource = TRUE
    MaxWire = 2
    MaxRestarts = 0
SPECIFICATION FairSpec
PROPERTIES FallbackDelivers
CHECK_DEADLOCK FALSE
