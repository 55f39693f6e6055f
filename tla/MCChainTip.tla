------------------------------ MODULE MCChainTip ------------------------------
(***************************************************************************)
(* Two block hashes: enough for a query of one hash to run between a      *)
(* processBlock and an accept of the other, and for every status, null    *)
(* and erased entry of both maps to occur together.                        *)
(***************************************************************************)
EXTENDS ChainTip

CONSTANTS b1, b2

MCHashes == {b1, b2}

=============================================================================
