CONSTANTS
    Nil = Nil
    EmptyRootHash = EmptyRootHash
    Corrupt = Corrupt
    MaxBlock = 5
    MaxPerBlock = 2
    MaxCorruptions = 0
    MaxCrashes = 2

SPECIFICATION Spec

INVARIANTS
    ProofsVerify
    FinalizedContiguous
    WorkingTreeIsReference

PROPERTIES
    RefinesWithdrawalLog
