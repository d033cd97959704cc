SPECIFICATION FairSpec
CONSTANTS
    i1 = i1  i2 = i2  m1 = m1
    Loop = Loop  Guardian = Guardian  NoTurn = NoTurn  NoObj = NoObj
    MaxTurns = 3
    UserOps = {i1}
    Mails = {m1}
    Triggers = {m1}
    MaxInterrupts = 1
CHECK_DEADLOCK FALSE
INVARIANTS TypeOK ActiveTurnServed RunningTasksAbortable
PROPERTIES TurnsEnd MailWakes
