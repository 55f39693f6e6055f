--------------------------- MODULE ValidatorOrder ---------------------------
(***************************************************************************)
(* The validator-transaction ordering of State::createNewBlock             *)
(* (old_src/core/state.cpp): the builder copies the BlockManager's         *)
(* validator mempool once, then scans that copy again and again, picking   *)
(* the randomHash transaction of validatorRandomList[1], [2], ...,        *)
(* [minValidators] and then their randomSeed transactions, until it has   *)
(* 2 * minValidators of them; the block is then finalized.                *)
(*                                                                         *)
(* The BlockManager's mempool is the collaborator's: validators' coordin-  *)
(* ation transactions arrive in it at any time.  One step of the builder  *)
(* is one iteration of the inner for loop.                                 *)
(***************************************************************************)
EXTENDS Integers, Sequences, FiniteSets

CONSTANTS
    Validators,      \* validator addresses
    RandomList,      \* validatorRandomList; RandomList[1] is this node
    MinValidators,   \* blockManager->minValidators
    VTxs             \* the validator transactions that may arrive

(* A validator transaction as the builder reads it: its sender and the    *)
(* type getTransactionType gives it; data tells apart two transactions of *)
(* one sender and one type.                                                *)
Kinds == {"randomHash", "randomSeed", "other"}

ASSUME OrderAssumption ==
    /\ MinValidators \in Nat \ {0}
    /\ RandomList \in Seq(Validators)
    /\ Len(RandomList) >= MinValidators + 1
    /\ \A tx \in VTxs : tx.from \in Validators /\ tx.kind \in Kinds

VARIABLES
    bmMempool,   \* the BlockManager's validator mempool
    copy,        \* validatorsMempool: the copy, in its iteration order
    vtxs,        \* validatorTxs: the ordered transactions picked so far
    pos,         \* the iteration of the for loop over the copy
    phase        \* "copy" before the copy is taken, "scan", "done"

vars == <<bmMempool, copy, vtxs, pos, phase>>

Elems(s) == {s[i] : i \in DOMAIN s}

(* The iteration orders of an unordered_map holding the set S.             *)
Orderings(S) ==
    {s \in UNION {[1 .. n -> S] : n \in 0 .. Cardinality(S)} :
        /\ Elems(s) = S
        /\ \A i, j \in DOMAIN s : i # j => s[i] # s[j]}

----------------------------------------------------------------------------
Init ==
    /\ bmMempool = {}
    /\ copy = << >>
    /\ vtxs = << >>
    /\ pos = 1
    /\ phase = "copy"

(* A validator's coordination transaction reaches the BlockManager.        *)
Arrive(tx) ==
    /\ tx \notin bmMempool
    /\ bmMempool' = bmMempool \cup {tx}
    /\ UNCHANGED <<copy, vtxs, pos, phase>>

(* getMempoolCopy and getRandomListCopy: the builder takes its copy.       *)
TakeCopy ==
    /\ phase = "copy"
    /\ copy' \in Orderings(bmMempool)
    /\ vtxs' = << >>
    /\ pos' = 1
    /\ phase' = "scan"
    /\ UNCHANGED bmMempool

(* Mutant: index 0 of validatorRandomList, this node, is not skipped.     *)
WantedNoSkip(size, tx) ==
    IF size < MinValidators
    THEN tx.from = RandomList[size + 1] /\ tx.kind = "randomHash"
    ELSE tx.from = RandomList[size - MinValidators + 1] /\ tx.kind = "randomSeed"

(* The slot the next picked transaction must fill: while fewer than       *)
(* minValidators are picked, the randomHash of validatorRandomList[size + *)
(* 1] (0-based, skipping this node at [0]); then the randomSeed of        *)
(* validatorRandomList[size - minValidators + 1].                          *)
Wanted(size, tx) ==
    IF size < MinValidators
    THEN tx.from = RandomList[size + 2] /\ tx.kind = "randomHash"
    ELSE tx.from = RandomList[size - MinValidators + 2] /\ tx.kind = "randomSeed"

(* Mutant: the for loop restarts at a 0-based index.                      *)
ScanZeroBased ==
    /\ phase = "scan"
    /\ pos <= Len(copy)
    /\ LET tx == copy[pos]
           picked == IF Wanted(Len(vtxs), tx) THEN Append(vtxs, tx) ELSE vtxs
       IN /\ vtxs' = picked
          /\ phase' = IF Len(picked) = 2 * MinValidators THEN "done" ELSE "scan"
          /\ pos' = IF pos = Len(copy) THEN 0 ELSE pos + 1
    /\ UNCHANGED <<bmMempool, copy>>

(* Mutant: the loop over the copy stops one short of its end.             *)
ScanSkipLast ==
    /\ phase = "scan"
    /\ pos <= Len(copy)
    /\ LET tx == copy[pos]
           picked == IF Wanted(Len(vtxs), tx) THEN Append(vtxs, tx) ELSE vtxs
       IN /\ vtxs' = picked
          /\ phase' = IF Len(picked) = 2 * MinValidators THEN "done" ELSE "scan"
          /\ pos' = IF pos >= Len(copy) - 1 THEN 1 ELSE pos + 1
    /\ UNCHANGED <<bmMempool, copy>>

(* One iteration of the for loop over the copy: the transaction is picked *)
(* if it fills the slot; at 2 * minValidators the loop breaks, the picked  *)
(* transactions are appended and the block finalized; at the end of the  *)
(* copy the while loop starts the for loop over.                           *)
Scan ==
    /\ phase = "scan"
    /\ pos <= Len(copy)
    /\ LET tx == copy[pos]
           picked == IF Wanted(Len(vtxs), tx) THEN Append(vtxs, tx) ELSE vtxs
       IN /\ vtxs' = picked
          /\ phase' = IF Len(picked) = 2 * MinValidators THEN "done" ELSE "scan"
          /\ pos' = IF pos = Len(copy) THEN 1 ELSE pos + 1
    /\ UNCHANGED <<bmMempool, copy>>

(* The consensus layer asks for the next block: createNewBlock runs again. *)
Restart ==
    /\ phase = "done"
    /\ phase' = "copy"
    /\ UNCHANGED <<bmMempool, copy, vtxs, pos>>

Next ==
    \/ \E tx \in VTxs : Arrive(tx)
    \/ TakeCopy
    \/ Scan
    \/ Restart

(* The builder's loop runs whenever it can; createNewBlock is called      *)
(* again after each block; the validators' transactions keep arriving.    *)
Fairness ==
    /\ WF_vars(Scan)
    /\ WF_vars(TakeCopy)
    /\ WF_vars(Restart)
    /\ \A tx \in VTxs : WF_vars(Arrive(tx))

Spec == Init /\ [][Next]_vars /\ Fairness

----------------------------------------------------------------------------
(* The order the consensus randomness protocol requires (spec, Block     *)
(* Builder step 5): validator k's randomHash in position k, validator k's *)
(* randomSeed in position minValidators + k, validators counted from 1 in *)
(* validatorRandomList, this node at position 0 excluded.                  *)
Slot(i) ==
    IF i <= MinValidators
    THEN [from |-> RandomList[i + 1], kind |-> "randomHash"]
    ELSE [from |-> RandomList[i - MinValidators + 1], kind |-> "randomSeed"]

(* The types.                                                              *)
TypeOK ==
    /\ bmMempool \subseteq VTxs
    /\ copy \in Seq(VTxs)
    /\ vtxs \in Seq(VTxs)
    /\ pos \in Nat \ {0}
    /\ phase \in {"copy", "scan", "done"}

(* Whatever order the copy is scanned in, the picked transactions fill    *)
(* the slots in protocol order, never more than 2 * minValidators of      *)
(* them, and a finalized block has all of them.                            *)
OrderRespected ==
    /\ Len(vtxs) <= 2 * MinValidators
    /\ \A i \in DOMAIN vtxs :
          /\ vtxs[i].from = Slot(i).from
          /\ vtxs[i].kind = Slot(i).kind
    /\ phase = "done" => Len(vtxs) = 2 * MinValidators

(* The copy holds a transaction for every slot.                            *)
Complete(S) ==
    \A i \in 1 .. 2 * MinValidators :
        \E tx \in S : tx.from = Slot(i).from /\ tx.kind = Slot(i).kind

(* Once the builder scans a copy that holds every transaction it needs,   *)
(* it finishes the block, whatever the copy's iteration order.            *)
CompleteCopyFinishes ==
    (phase = "scan" /\ Complete(Elems(copy))) ~> (phase = "done")

(* The builder waits for missing validator transactions: once all of      *)
(* them have reached the BlockManager, the block is finished.             *)
ArrivalsFinish ==
    (phase = "scan" /\ Complete(bmMempool)) ~> (phase = "done")

=============================================================================
