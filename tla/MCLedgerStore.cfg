\* Balances survive save and load in a build with signed char and a stack
\* that leaves garbage in bytesToUint32's accumulator.
CONSTANTS
    a1 = a1
    a2 = a2
    Addr = {a1, a2}
    Genesis = {a1}
    GenesisBalance = 300
    Balances <- MCBalances
    BalanceBytes = 2
    NonceBytes = 2
    MaxNonce = 2
    CharSigned = TRUE
    Garbage = {0, 5}
SPECIFICATION Spec
INVARIANTS TypeOK BalancesRestored
