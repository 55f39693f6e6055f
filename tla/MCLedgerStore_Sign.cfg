\* A build with signed char whose uninitialised accumulator happens to be
\* zero: a nonce of 128 does not survive save and load.
CONSTANTS
    a1 = a1
    a2 = a2
    Addr = {a1}
    Genesis = {a1}
    GenesisBalance = 300
    Balances = {300}
    BalanceBytes = 2
    NonceBytes = 2
    MaxNonce = 130
    CharSigned = TRUE
    Garbage = {0}
SPECIFICATION Spec
INVARIANT NoncesRestored
