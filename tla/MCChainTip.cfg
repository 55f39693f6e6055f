\* ChainTip refines ChainTipCache on two hashes.
CONSTANTS
    b1 = b1
    b2 = b2
    Hashes <- MCHashes
    NoBlock = NoBlock
    NoHash = NoHash
SPECIFICATION Spec

PROPERTY CacheSpec
