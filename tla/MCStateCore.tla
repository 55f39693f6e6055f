---------------------------- MODULE MCStateCore ----------------------------
(***************************************************************************)
(* A small instance of StateCore for TLC: two accounts of which one is a  *)
(* genesis account, a handful of transactions chosen so that signature,   *)
(* unknown-sender, nonce, fee and duplicate-nonce cases all occur, and two *)
(* worker threads.                                                         *)
(***************************************************************************)
EXTENDS StateCore, FiniteSets, TLC

LOCAL INSTANCE Functions

CONSTANTS a1, a2

\* a1 pays a2 from its genesis balance, nonce 0, no fee.
TxPay == [from |-> a1, to |-> a2, value |-> 1, fee |-> 0, nonce |-> 0, sig |-> TRUE]
\* A second transaction of a1 with the same nonce and a fee.
TxPayFee == [from |-> a1, to |-> a2, value |-> 1, fee |-> 1, nonce |-> 0, sig |-> TRUE]
\* a1's next transaction.
TxNext == [from |-> a1, to |-> a2, value |-> 1, fee |-> 0, nonce |-> 1, sig |-> TRUE]
\* A zero-value transaction of a2, which holds nothing at genesis.
TxEmpty == [from |-> a2, to |-> a1, value |-> 0, fee |-> 1, nonce |-> 0, sig |-> TRUE]
\* a1 spends its whole genesis balance and pays a fee on top.
TxDrain == [from |-> a1, to |-> a2, value |-> 2, fee |-> 1, nonce |-> 0, sig |-> TRUE]
\* A transaction whose signature did not verify.
TxForged == [from |-> a1, to |-> a2, value |-> 0, fee |-> 0, nonce |-> 0, sig |-> FALSE]

MCTxs == {TxPay, TxPayFee, TxNext, TxEmpty, TxForged}

\* The transactions of the linkage and signature run.
MCTxsLinked == {TxPay, TxEmpty, TxForged}
\* The transactions of the violation runs.
MCTxsDrain == {TxDrain}
MCTxsSameNonce == {TxPay, TxPayFee}
MCTxsReplay == {TxPay}
MCTxsEmpty == {TxEmpty}

ThreadSymmetry == Permutations(Threads)

----------------------------------------------------------------------------
(* The positions of applied transactions: block index, index in the block. *)
Positions == UNION {{<<i, j>> : j \in DOMAIN chain[i].txs} : i \in DOMAIN chain}

TxAt(p) == chain[p[1]].txs[p[2]]

Before(p, q) == p[1] < q[1] \/ (p[1] = q[1] /\ p[2] < q[2])

(* The transactions processNewBlock has applied so far: those of the      *)
(* chain and those of the block being applied under the exclusive lock.   *)
InProgress == IF writer = NoThread THEN {}
              ELSE {j \in DOMAIN vblk[writer].txs : j < vidx[writer]}

FeesPaid ==
    SumFunctionOnSet([p \in Positions |-> TxAt(p).fee], Positions)
    + SumFunctionOnSet([j \in InProgress |-> vblk[writer].txs[j].fee],
                       InProgress)

(* No coins are created: the balances add up to what genesis seeded and   *)
(* addBalance credited, less the fees processNewTransaction burnt.  A     *)
(* debit below zero in processNewTransaction wraps the uint256 balance and *)
(* breaks this.                                                            *)
SupplyConserved ==
    SumFunction(balance) + FeesPaid
        = Cardinality(Genesis) * GenesisBalance + Faucet * SumFunction(minted)

(* Replay protection: every applied transaction carries the nonce its     *)
(* sender had when processNewTransaction applied it, so the nonces of a   *)
(* sender's applied transactions run 0, 1, 2, ... in chain order.         *)
AppliedNoncesInOrder ==
    \A p \in Positions :
        TxAt(p).nonce =
            Cardinality({q \in Positions : Before(q, p) /\ TxAt(q).from = TxAt(p).from})

(* No transaction is applied twice.                                        *)
NoReplay ==
    \A p, q \in Positions : p # q => TxAt(p) # TxAt(q)

(* A transaction is admitted only from an account that exists: one seeded *)
(* at genesis, credited by addBalance, or touched by an applied transfer.  *)
(* A balance query is not a mutation and must not make an account exist.  *)
MempoolSendersExist ==
    \A tx \in mempool :
        tx.from \in Genesis \cup {a \in Addr : minted[a] > 0}
                  \cup {TxAt(p).from : p \in Positions} \cup {TxAt(p).to : p \in Positions}
=============================================================================
