\* The library, threads may need longer than stopUntil() waits.
SPECIFICATION Spec
CONSTANTS
    RELAY = RELAY
    NET = NET
    BUF = BUF
    Components <- MCComponents
    Systems <- SlowLibrary
    MaxStarts = 2
INVARIANT StartedIsRunning
