\* Two senders: login before frames.
SPECIFICATION Spec
CONSTANTS
    Fds = {1, 2, 3}
    MaxConns = 2
    GpsMaxConns = 2
    GpsThreads = {TRUE}
    SerialConfigured = {TRUE}
    MaxStops = 0
INVARIANTS
    LoginBeforeFrames
