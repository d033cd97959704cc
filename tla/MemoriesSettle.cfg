SPECIFICATION FairSpec
CONSTANTS
    Threads = {t1}
    Workers = {w1, w2}
    MaxRunning = 1
    MaxSelected = 1
    Retries = 1
    MaxAge = 1
    MaxClock = 3
    MaxEvents = 3
    NoWorker = NoWorker
    NoRow = NoRow
    NoJob = NoJob
PROPERTIES Settles
