\* The builder's wait loop spins forever over an incomplete copy: there is
\* then no step left but arrivals, which end too.
CHECK_DEADLOCK FALSE
CONSTANTS
    v0 = v0
    v1 = v1
    v2 = v2
    Validators = {v0, v1, v2}
    RandomList <- MCRandomList
    MinValidators = 2
    VTxs <- MCVTxs
SPECIFICATION Spec
INVARIANTS TypeOK OrderRespected
PROPERTIES CompleteCopyFinishes
