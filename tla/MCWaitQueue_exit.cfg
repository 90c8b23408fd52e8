\* What the thread's message says of the module's exit.
SPECIFICATION FairSpec
CONSTANTS
    r1 = r1
    r2 = r2
    Readers <- TwoReaders
    MaxReads = 2
PROPERTIES
    ExitEndsThread
\* After the module exit and the last read nothing is left to do.
CHECK_DEADLOCK FALSE
