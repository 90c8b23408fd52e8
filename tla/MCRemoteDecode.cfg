\* The sizes of the code, ten keys, one hidden or spurious edge anywhere.
SPECIFICATION IrSpec
CONSTANTS
    NBits = 32
    Words <- NecWords
    ZeroGaps <- ZeroGap
    OneGaps <- OneGap
    LeadGaps <- LeadGap
    RepeatGaps <- RepeatGap
    QuietGaps <- QuietGap
    NoiseGaps <- NoiseGap
    MaxFaults = 1
    WindowLo = 16
    WindowHi = 23
    KeyTable <- NecTable
    KeyPressed <- NecPressed
INVARIANTS
    IrTypeOK
    CleanFrameMeasured
    FaultFreeAligned
    CleanRepeatRealigns
    CleanKeyDecoded
    OneEdgeOffIsNoKey
