-------------------------- MODULE MCValidatorOrder --------------------------
(***************************************************************************)
(* ValidatorOrder for TLC: this node v0 and two validators, minValidators *)
(* 2, their four coordination transactions and this node's own           *)
(* randomHash, which must never be picked.                                 *)
(***************************************************************************)
EXTENDS ValidatorOrder, TLC

CONSTANTS v0, v1, v2

MCRandomList == << v0, v1, v2 >>

VTx(v, k, d) == [from |-> v, kind |-> k, data |-> d]

MCVTxs == {VTx(v1, "randomHash", 1), VTx(v2, "randomHash", 1),
           VTx(v1, "randomSeed", 1), VTx(v2, "randomSeed", 1),
           VTx(v0, "randomHash", 1)}
=============================================================================
