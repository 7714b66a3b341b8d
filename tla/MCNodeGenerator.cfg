CONSTANTS
    Digest = {d1, d2}
SPECIFICATION Spec
INVARIANTS
    ConstructedOnlyWhenCommutative
