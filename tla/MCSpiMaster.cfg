\* What the comment on turnLedOn says, against a line that goes silent.
SPECIFICATION SpiSpec
CONSTANTS
    Apps <- AllApps
    Readings <- SomeReadings
    Garbage <- SomeGarbage
    MaxFaults = 0
    LineMayDie = TRUE
INVARIANTS
    AckIsDone
\* The program may end.
CHECK_DEADLOCK FALSE
