\* Two losses of the connection at any point, the retained command only.
SPECIFICATION FairSpec
CONSTANTS
    MAX_CONNECTION_ATTEMPTS = 2
    MAX_RETRIES = 2
    MaxGpioTries = 2
    StatusTicks = 1
    MaxCommands = 0
    MaxLosses = 2
    MaxMeddling = 0
INVARIANTS
    NeverDeaf
PROPERTIES
    HearsAgain
    SignalEnds
\* The program may end.
CHECK_DEADLOCK FALSE
