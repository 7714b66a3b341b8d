CONSTANTS
    Nil = Nil
    MaxInfos = 4
    MaxL2Block = 4
    MaxHeight = 6
    IntWidth = 8
SPECIFICATION Spec
INVARIANTS
    
    DequeueKeepsRelevantSuffix
