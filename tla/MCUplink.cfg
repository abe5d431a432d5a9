\* One sender (dump1090 feeder) or a GPS thread that sends as well (Radarcape,
\* gplib): losses, stop and restart.  A failed assertion stops the process.
SPECIFICATION FairSpec
CONSTANTS
    Fds = {1, 2, 3}
    MaxConns = 3
    GpsMaxConns = 2
    GpsThreads = {TRUE, FALSE}
    SerialConfigured = {TRUE, FALSE}
    MaxStops = 1
INVARIANTS
    AssertionHolds
    SenderKeepsSocket
    ReceiverKeepsSocket
    NoSocketLeak
    SyncInv
    LoneSenderLogsIn
PROPERTIES
    Reconnects
CHECK_DEADLOCK FALSE
