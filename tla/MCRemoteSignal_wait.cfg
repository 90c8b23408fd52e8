\* What the application's "Waiting for signal..." says of its wait.
SPECIFICATION FairSpec
CONSTANTS
    NBits = 3
    Words <- TwoWords
    ZeroGaps <- ZeroGap
    OneGaps <- OneGap
    LeadGaps <- LeadGap
    RepeatGaps <- RepeatGap
    QuietGaps <- QuietGap
    NoiseGaps <- NoiseGap
    MaxFaults = 0
    WindowLo = 2
    WindowHi = 2
    KeyTable <- TwoKeys
    KeyPressed <- Pressed
    Designs <- LastDesign
    MaxPending = 1
    MaxRuns = 1
PROPERTIES
    SignalEndsWait
\* The module may be removed and the application ended: nothing is left to do.
CHECK_DEADLOCK FALSE
