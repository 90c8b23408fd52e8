\* Each component at its own small size; the bounds are explained in the README.
SPECIFICATION BoardSpec
CONSTANTS
    r1 = r1
    r2 = r2
    Readers <- TwoReaders
    MaxReads = 5
    Apps <- AllApps
    Readings <- SomeReadings
    Garbage <- SomeGarbage
    MaxFaults = 3
    LineMayDie = TRUE
    Pollers <- TwoReaders
    MaxPushes = 3
    Window = 8
    Wrap = 16
    Bounce = 2
    Latency = 1
    Gap = 5
    Procs <- TwoReaders
    Followers <- OneFollower
    MaxCalls = 3
    Trains <- ShortTrains
    MaxSteps = 3
    Turns = 100
    DutyWrap = 99
    Clients <- TwoReaders
    NULL = NULL
INVARIANTS
    NothingInvented
    AnswerInStep
    ObeyedOnce
    PrintsBacked
    TogglesPerMovement
    QuietIsSequential
    PeriodAddsUp
    PulseIsDuty
    TaskIsLast
PROPERTIES
    EventServed
    IdleThreadStops
    MailboxKept
    CtrlCEndsMaster
    PushSeen
    LedFollowsButton
    WaitEnds
\* A module may be removed, a program ended.
CHECK_DEADLOCK FALSE
