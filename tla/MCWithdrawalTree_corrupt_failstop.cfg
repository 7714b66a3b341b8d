CONSTANTS
    Nil = Nil
    EmptyRootHash = EmptyRootHash
    Corrupt = Corrupt
    MaxBlock = 3
    MaxPerBlock = 2
    MaxCorruptions = 1
    MaxCrashes = 1

SPECIFICATION Spec

INVARIANTS
    ProofsVerify
    FinalizedContiguous

PROPERTIES
    RefinesWithdrawalLog
