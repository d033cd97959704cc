SPECIFICATION Spec
CONSTANTS
    Threads = {t1, t2}
    Workers = {w1, w2}
    MaxRunning = 1
    MaxSelected = 1
    Retries = 1
    MaxAge = 1
    MaxClock = 3
    MaxEvents = 2
    NoWorker = NoWorker
    NoRow = NoRow
    NoJob = NoJob
SYMMETRY MCSymmetry
INVARIANTS TypeOK NothingMissed BaselineConsolidated OutputAtWatermark
