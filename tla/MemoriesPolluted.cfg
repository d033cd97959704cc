SPECIFICATION Spec
CONSTANTS
    Threads = {t1}
    Workers = {w1, w2}
    MaxRunning = 1
    MaxSelected = 1
    Retries = 1
    MaxAge = 1
    MaxClock = 3
    MaxEvents = 1
    NoWorker = NoWorker
    NoRow = NoRow
    NoJob = NoJob
INVARIANTS PollutedForgotten
