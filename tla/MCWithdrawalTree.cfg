CONSTANTS
    Nil = Nil
    EmptyRootHash = EmptyRootHash
    Corrupt = Corrupt
    MaxBlock = 3
    MaxPerBlock = 2
    MaxCorruptions = 0
    MaxCrashes = 1

SPECIFICATION Spec

INVARIANTS
    TypeOK
    ProofsVerify
    ProvableExactly
    RootIsReference
    FinalizedContiguous
    WorkingTreeIsReference

PROPERTIES
    RefinesWithdrawalLog
    RecordsImmutable
    AllWithdrawalsProvable
