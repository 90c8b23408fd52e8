\* The three designs, one hidden edge anywhere, two runs of the application.
SPECIFICATION FairSpec
CONSTANTS
    NBits = 3
    Words <- OneWord
    ZeroGaps <- ZeroGap
    OneGaps <- OneGap
    LeadGaps <- LeadGap
    RepeatGaps <- RepeatGap
    QuietGaps <- QuietGap
    NoiseGaps <- NoNoise
    MaxFaults = 1
    WindowLo = 2
    WindowHi = 2
    KeyTable <- TwoKeys
    KeyPressed <- OnePressed
    Designs <- AllDesigns
    MaxPending = 1
    MaxRuns = 2
PROPERTIES
    DecodeFaithful
    SentReachesApp
    CtrlCEndsApp
    MailboxImplemented
\* The module may be removed and the application ended: nothing is left to do.
CHECK_DEADLOCK FALSE
