CONSTANTS
    m1 = m1
    m2 = m2
    Msgs <- MCMsgs
    Nil = Nil
    MaxCrashes = 2
    ClockSteps <- CoarseClock
SPECIFICATION Spec
INVARIANTS
    NoMsgLost
