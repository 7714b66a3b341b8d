CONSTANTS
    m1 = m1
    m2 = m2
    Msgs <- MCMsgs
    Nil = Nil
    MaxCrashes = 2
    ClockSteps <- TickingClock
SPECIFICATION Spec
INVARIANTS
    TypeOK
    NoMsgLost
PROPERTIES
    SavedMsgsEventuallySent
