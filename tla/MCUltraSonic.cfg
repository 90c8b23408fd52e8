\* The five drivers, pulses of five lengths, the longest nearly a period.
SPECIFICATION Spec
CONSTANTS
    Drivers <- Fleet
    Latency = 1
    BusyRise = 2
    BusyFall = 2
    BusyPrint = 2
    Period = 10
    Widths <- Lengths
    Fits = 22
    Forever = 24
INVARIANTS
    EchoMeasured
    OnlyGapsPrinted
