--------------------------- MODULE MCNodeRecovery ---------------------------
EXTENDS NodeRecovery

CONSTANTS m1, m2

MCMsgs == {m1, m2}

\* A clock that moves on every reading, and one that may return the same
\* nanosecond twice in a row.
TickingClock == {1}
CoarseClock == {0, 1}
=============================================================================
