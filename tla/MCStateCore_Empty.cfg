CONSTANTS
    a1 = a1
    a2 = a2
    Addr = {a1, a2}
    Genesis = {a1}
    GenesisBalance = 2
    Faucet = 1
    Txs <- MCTxsEmpty
    Threads = {w1, w2}
    NoThread = NoThread
    NoTx = NoTx
    BalanceBound = 8
    NonceBound = 4
    MaxChain = 3
    MaxBlockTxs = 1
    MaxMints = 1
SYMMETRY ThreadSymmetry
SPECIFICATION Spec
INVARIANT MempoolSendersExist
