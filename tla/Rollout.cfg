SPECIFICATION FairSpec
CONSTANTS
    Items = {a, b}
    Callers = {c1, c2}
    Capacity = 2
    MaxItems = 3
    MaxFaults = 2
    MaxCrashes = 1
    Meta = Meta
    NoCaller = NoCaller
\* A process that ends before the file exists leaves nothing to resume.
CHECK_DEADLOCK FALSE
INVARIANTS TypeOK NothingLost MetaFirst
PROPERTIES ImplementsTranscript BarrierAnswered
