SPECIFICATION Spec
CONSTANTS
    Requests = {q1, q2}
    Hosts = {h1}
    Execs = {e1, e2}
    Shells = {s1, s2}
    Calls <- MCCalls
    Scenarios <- MCScenarios
    None = None
    MaxProcesses = 1
    Protected = 0
\* Every request and call is made once: the session may come to rest.
CHECK_DEADLOCK FALSE
INVARIANTS TypeOK DecisionsExclusive RegistrationsOwned NoOrphans
PROPERTIES RequestsAnswered RefusalKept
