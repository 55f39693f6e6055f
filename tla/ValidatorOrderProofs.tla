------------------------- MODULE ValidatorOrderProofs -------------------------
(***************************************************************************)
(* Proofs about ValidatorOrder for every validator list, minValidators     *)
(* and set of validator transactions: the builder's types, and that the   *)
(* transactions it picks fill the protocol's slots in order.              *)
(***************************************************************************)
EXTENDS ValidatorOrder, TLAPS

USE OrderAssumption

(* The inductive invariant: the types, the order, and that a scanning     *)
(* builder has not yet picked all 2 * minValidators transactions.          *)
OrderInv ==
    /\ TypeOK
    /\ OrderRespected
    /\ phase = "scan" => Len(vtxs) < 2 * MinValidators

(* An iteration order of a set of transactions is a sequence of them.      *)
LEMMA OrderingsSeq ==
    ASSUME NEW S \in SUBSET VTxs, NEW s \in Orderings(S)
    PROVE  s \in Seq(VTxs)
<1>1. PICK n \in 0 .. Cardinality(S) : s \in [1 .. n -> S]
  BY DEF Orderings
<1>2. n \in Nat
  BY <1>1
<1> QED
  BY <1>1, <1>2

(* The transaction the loop picks fills the next slot.                     *)
LEMMA WantedSlot ==
    ASSUME NEW size \in 0 .. 2 * MinValidators - 1, NEW tx, Wanted(size, tx)
    PROVE  /\ tx.from = Slot(size + 1).from
           /\ tx.kind = Slot(size + 1).kind
<1>1. CASE size < MinValidators
  <2>1. size + 1 <= MinValidators
    BY <1>1
  <2> QED
    BY <1>1, <2>1 DEF Wanted, Slot
<1>2. CASE ~(size < MinValidators)
  <2>1. ~(size + 1 <= MinValidators) /\ size + 1 - MinValidators + 1 = size - MinValidators + 2
    BY <1>2
  <2> QED
    BY <1>2, <2>1 DEF Wanted, Slot
<1> QED
  BY <1>1, <1>2

LEMMA InitOrderInv == Init => OrderInv
BY DEF Init, OrderInv, TypeOK, OrderRespected

(* One case per action of Next.                                            *)
LEMMA NextOrderInv == OrderInv /\ [Next]_vars => OrderInv'
<1> SUFFICES ASSUME OrderInv, [Next]_vars PROVE OrderInv'
  OBVIOUS
<1> USE DEF OrderInv, TypeOK
<1>1. ASSUME NEW tx \in VTxs, Arrive(tx) PROVE OrderInv'
  BY <1>1 DEF Arrive, OrderRespected
<1>2. ASSUME TakeCopy PROVE OrderInv'
  <2>1. copy' \in Seq(VTxs)
    BY <1>2, OrderingsSeq DEF TakeCopy
  <2> QED
    BY <1>2, <2>1 DEF TakeCopy, OrderRespected
<1>3. ASSUME Scan PROVE OrderInv'
  <2> DEFINE tx == copy[pos]
             picked == IF Wanted(Len(vtxs), tx) THEN Append(vtxs, tx) ELSE vtxs
  <2>1. /\ phase = "scan" /\ pos \in 1 .. Len(copy)
        /\ vtxs' = picked
        /\ phase' = IF Len(picked) = 2 * MinValidators THEN "done" ELSE "scan"
        /\ pos' = IF pos = Len(copy) THEN 1 ELSE pos + 1
        /\ UNCHANGED <<bmMempool, copy>>
    BY <1>3 DEF Scan
  <2>2. tx \in VTxs
    BY <2>1
  <2>3. Len(vtxs) \in 0 .. 2 * MinValidators - 1
    BY <2>1
  <2>4. picked \in Seq(VTxs) /\ Len(picked) <= 2 * MinValidators
    BY <2>2, <2>3
  <2>5. \A i \in DOMAIN picked : /\ picked[i].from = Slot(i).from
                                 /\ picked[i].kind = Slot(i).kind
    <3>1. CASE Wanted(Len(vtxs), tx)
      <4>1. tx.from = Slot(Len(vtxs) + 1).from /\ tx.kind = Slot(Len(vtxs) + 1).kind
        BY <2>3, <3>1, WantedSlot
      <4> QED
        BY <3>1, <4>1 DEF OrderRespected
    <3>2. CASE ~Wanted(Len(vtxs), tx)
      BY <3>2 DEF OrderRespected
    <3> QED
      BY <3>1, <3>2
  <2> QED
    BY <2>1, <2>4, <2>5 DEF OrderRespected
<1>4. ASSUME Restart PROVE OrderInv'
  BY <1>4 DEF Restart, OrderRespected
<1>5. CASE UNCHANGED vars
  BY <1>5 DEF vars, OrderRespected
<1> QED
  BY <1>1, <1>2, <1>3, <1>4, <1>5 DEF Next

(* For every validator list and minValidators, whatever order the copy   *)
(* of the validator mempool is scanned in and whatever arrives when, the *)
(* transactions createNewBlock picks fill the protocol's slots in order   *)
(* (validator k's randomHash at k, its randomSeed at minValidators + k,   *)
(* this node skipped), and a finalized block has all 2 * minValidators.   *)
THEOREM OrderRespectedHolds == Spec => []OrderRespected
<1>1. OrderInv => OrderRespected
  BY DEF OrderInv
<1> QED
  BY InitOrderInv, NextOrderInv, <1>1, PTL DEF Spec

(* The builder's variables keep their types.                               *)
THEOREM OrderTypeCorrect == Spec => []TypeOK
<1>1. OrderInv => TypeOK
  BY DEF OrderInv
<1> QED
  BY InitOrderInv, NextOrderInv, <1>1, PTL DEF Spec

=============================================================================
