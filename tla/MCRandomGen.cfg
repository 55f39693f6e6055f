CONSTANTS
    v1 = v1
    v2 = v2
    v3 = v3
    Validators <- MCValidators
    SeedBound = 18
    Sha3 <- MCSha3

SPECIFICATION Spec

INVARIANTS
    TypeOK
    UniformShuffle
