\* Two commands beside the retained one, two foreign unexports.
SPECIFICATION FairSpec
CONSTANTS
    MAX_CONNECTION_ATTEMPTS = 2
    MAX_RETRIES = 2
    MaxGpioTries = 2
    StatusTicks = 0
    MaxCommands = 2
    MaxLosses = 0
    MaxMeddling = 2
PROPERTIES
    CommandObeyed
    StatusCatchesUp
\* The program may end.
CHECK_DEADLOCK FALSE
