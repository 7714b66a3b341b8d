CONSTANTS
    Senders = {s1, s2}
    Msgs = {m1, m2}
    MaxAppends = 4
    MaxPending = 2
SPECIFICATION Spec
INVARIANTS
    QueueReadsBack
