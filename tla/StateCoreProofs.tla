-------------------------- MODULE StateCoreProofs --------------------------
(***************************************************************************)
(* Proofs about StateCore for every value of its constants.               *)
(***************************************************************************)
EXTENDS StateCore, TLAPS

USE ConstantsAssumption

(* The sequences createNewBlock may build from the mempool are sequences  *)
(* of transactions.                                                        *)
LEMMA OrderingsType ==
    ASSUME NEW S, S \subseteq Txs
    PROVE  Orderings(S) \subseteq Seq(Txs)
<1> SUFFICES ASSUME NEW s \in Orderings(S) PROVE s \in Seq(Txs)
  OBVIOUS
<1>1. PICK n \in 0 .. Cardinality(S) : s \in [1 .. n -> S]
  BY DEF Orderings
<1>2. n \in Nat
  OBVIOUS
<1> QED
  BY <1>1, <1>2

(* The chain is a non-empty sequence of blocks, so its last one is one.    *)
LEMMA LastBlock ==
    ASSUME chain \in Seq(Blocks), Len(chain) >= 1
    PROVE  Last(chain) \in Blocks
BY DEF Last

(* Unsigned arithmetic stays in range: a value reduced modulo 2^w.       *)
LEMMA ModRange ==
    ASSUME NEW x \in Int, NEW N \in Nat \ {0}
    PROVE  x % N \in 0 .. N - 1
OBVIOUS

(* A peer's block is a block.                                              *)
LEMMA PeerBlocksType ==
    ASSUME chain \in Seq(Blocks), Len(chain) >= 1
    PROVE  PeerBlocks \subseteq Blocks
<1>1. Last(chain).height \in Nat
  BY LastBlock DEF Blocks
<1>2. TxSeqs \subseteq Seq(Txs)
  BY DEF TxSeqs
<1> QED
  BY <1>1, <1>2 DEF PeerBlocks, Blocks

(* The three debits and credits of processNewTransaction keep a balance   *)
(* function a balance function.                                            *)
LEMMA TransferType ==
    ASSUME NEW bal \in [Addr -> 0 .. BalanceBound - 1], NEW tx \in Txs
    PROVE  Credit(DebitFee(DebitValue(bal, tx), tx), tx)
               \in [Addr -> 0 .. BalanceBound - 1]
<1>1. tx.from \in Addr /\ tx.to \in Addr /\ tx.value \in Nat /\ tx.fee \in Nat
  BY DEF TxRecords
<1>2. DebitValue(bal, tx) \in [Addr -> 0 .. BalanceBound - 1]
  BY <1>1 DEF DebitValue
<1>3. DebitFee(DebitValue(bal, tx), tx) \in [Addr -> 0 .. BalanceBound - 1]
  BY <1>1, <1>2 DEF DebitFee
<1> QED
  BY <1>1, <1>3 DEF Credit

----------------------------------------------------------------------------
(* TypeOK is not inductive by itself: an admitting thread between its two  *)
(* critical sections holds the transaction it checked, which RpcInsert     *)
(* puts into the mempool.                                                  *)
TypeInv ==
    /\ TypeOK
    /\ \A t \in Threads : pc[t] = "rpc_insert" => ttx[t] \in Txs

LEMMA InitTypeInv == Init => TypeInv
BY DEF Init, TypeInv, TypeOK, GenesisBlock, Blocks, PcValues

(* A thread that returns from a handler leaves the thread-local state     *)
(* well typed, and no admitting thread without its transaction.           *)
LEMMA ReleaseType ==
    ASSUME TypeInv, NEW t \in Threads, Release(t), ttx' = ttx
    PROVE  /\ pc' \in [Threads -> PcValues]
           /\ vblk' \in [Threads -> Blocks]
           /\ vidx' \in [Threads -> Nat \ {0}]
           /\ \A u \in Threads : pc'[u] = "rpc_insert" => ttx'[u] \in Txs
<1>1. GenesisBlock \in Blocks
  BY DEF GenesisBlock, Blocks
<1> QED
  BY <1>1 DEF TypeInv, TypeOK, Release, PcValues

LEMMA NextTypeInv == TypeInv /\ [Next]_vars => TypeInv'
<1> SUFFICES ASSUME TypeInv, [Next]_vars PROVE TypeInv'
  OBVIOUS
<1> USE DEF TypeInv, TypeOK
<1>1. ASSUME NEW t \in Threads, NEW tx \in Txs, RpcCheck(t, tx)
      PROVE  TypeInv'
  BY <1>1 DEF RpcCheck, PcValues
<1>2. ASSUME NEW t \in Threads, RpcInsert(t) PROVE TypeInv'
  BY <1>2 DEF RpcInsert, PcValues
<1>3. ASSUME NEW t \in Threads, CreateNewBlock(t) PROVE TypeInv'
  <2>1. PICK i \in DOMAIN chain, s \in Orderings(mempool) :
            vblk' = [vblk EXCEPT ![t] = [parent |-> i,
                                         height |-> chain[i].height + 1,
                                         txs |-> s]]
    BY <1>3, Zenon DEF CreateNewBlock
  <2>2. s \in Seq(Txs)
    BY OrderingsType
  <2>3. i \in 1 .. Len(chain) /\ chain[i] \in Blocks
    OBVIOUS
  <2>4. chain[i].height \in Nat
    BY <2>3, Zenon DEF Blocks
  <2>7. i \in Nat /\ chain[i].height + 1 \in Nat
    BY <2>3, <2>4
  <2>5. [parent |-> i, height |-> chain[i].height + 1, txs |-> s] \in Blocks
    BY <2>2, <2>7, Zenon DEF Blocks
  <2>6. vblk' \in [Threads -> Blocks]
    BY <2>1, <2>5
  <2> QED
    BY <1>3, <2>6 DEF CreateNewBlock, PcValues
<1>4. ASSUME NEW t \in Threads, ValidateTx(t) PROVE TypeInv'
  <2> DEFINE tx == vblk[t].txs[vidx[t]]
  <2>1. CASE ~ValidTxForBlock(tx) /\ Release(t)
    BY <1>4, <2>1, ReleaseType DEF ValidateTx
  <2>2. CASE /\ ValidTxForBlock(tx)
             /\ pc' = [pc EXCEPT ![t] = IF vidx[t] = Len(vblk[t].txs)
                                        THEN "verified" ELSE "validating"]
             /\ vidx' = [vidx EXCEPT ![t] = @ + 1]
             /\ UNCHANGED vblk
    BY <1>4, <2>2 DEF ValidateTx, PcValues
  <2> QED
    BY <1>4, <2>1, <2>2 DEF ValidateTx
<1>5. ASSUME NEW t \in Threads, ProcessNewBlock(t) PROVE TypeInv'
  BY <1>5 DEF ProcessNewBlock, PcValues
<1>6. ASSUME NEW t \in Threads, RejectBlock(t) PROVE TypeInv'
  BY <1>6, ReleaseType DEF RejectBlock
<1>7. ASSUME NEW t \in Threads, ProcessNewTransaction(t) PROVE TypeInv'
  <2> DEFINE tx == vblk[t].txs[vidx[t]]
  <2>1. vblk[t].txs \in Seq(Txs) /\ vidx[t] \in 1 .. Len(vblk[t].txs)
    BY <1>7 DEF ProcessNewTransaction, Blocks
  <2>2. tx \in Txs
    BY <2>1
  <2>3. tx.from \in Addr /\ tx.to \in Addr
    BY <2>2 DEF TxRecords
  <2>8. Credit(DebitFee(DebitValue(balance, tx), tx), tx)
            \in [Addr -> 0 .. BalanceBound - 1]
    BY <2>2, TransferType
  <2>4. balance' \in [Addr -> 0 .. BalanceBound - 1]
    BY <1>7, <2>8, Zenon DEF ProcessNewTransaction
  <2>9. nonce' = [nonce EXCEPT ![tx.from] = (@ + 1) % NonceBound]
    BY <1>7, Zenon DEF ProcessNewTransaction
  <2>10. (nonce[tx.from] + 1) % NonceBound \in 0 .. NonceBound - 1
    <3>1. nonce[tx.from] + 1 \in Int
      BY <2>3
    <3> QED
      BY <3>1, ModRange
  <2>5. nonce' \in [Addr -> 0 .. NonceBound - 1]
    BY <2>3, <2>9, <2>10
  <2>6. known' \subseteq Addr /\ mempool' \subseteq Txs
    BY <1>7, <2>3 DEF ProcessNewTransaction
  <2>7. vidx' \in [Threads -> Nat \ {0}]
    BY <1>7 DEF ProcessNewTransaction
  <2> QED
    BY <1>7, <2>4, <2>5, <2>6, <2>7 DEF ProcessNewTransaction
<1>8. ASSUME NEW t \in Threads, FinishBlock(t) PROVE TypeInv'
  <2>1. chain' \in Seq(Blocks) /\ Len(chain') >= 1
    BY <1>8 DEF FinishBlock
  <2>2. writer' \in Threads \cup {NoThread} /\ mempool' \subseteq Txs
    BY <1>8 DEF FinishBlock
  <2>3. UNCHANGED <<known, balance, nonce, ttx, minted>>
    BY <1>8 DEF FinishBlock
  <2> QED
    BY <1>8, <2>1, <2>2, <2>3, ReleaseType DEF FinishBlock
<1>9. ASSUME NEW t \in Threads, NEW b \in PeerBlocks \cup {vblk[t]},
             ValidateStart(t, b)
      PROVE  TypeInv'
  <2>1. b \in Blocks
    BY PeerBlocksType
  <2>2. CASE ~HeaderValid(b) /\ Release(t)
    BY <1>9, <2>2, ReleaseType DEF ValidateStart
  <2>3. CASE /\ HeaderValid(b)
             /\ vblk' = [vblk EXCEPT ![t] = b]
             /\ vidx' = [vidx EXCEPT ![t] = 1]
             /\ pc' = [pc EXCEPT ![t] = IF b.txs = << >> THEN "verified"
                                        ELSE "validating"]
    BY <1>9, <2>1, <2>3 DEF ValidateStart, PcValues
  <2> QED
    BY <1>9, <2>2, <2>3 DEF ValidateStart
<1>10. ASSUME NEW a \in Addr, GetNativeBalance(a) \/ GetNativeNonce(a)
       PROVE  TypeInv'
  <2>1. /\ known' = known \cup {a}
        /\ UNCHANGED <<balance, nonce, mempool, chain, writer, pc, ttx, vblk,
                       vidx, minted>>
    BY <1>10 DEF GetNativeBalance, GetNativeNonce
  <2> QED
    BY <2>1
<1>11. ASSUME NEW a \in Addr, AddBalance(a) PROVE TypeInv'
  <2>1. (balance[a] + Faucet) % BalanceBound \in 0 .. BalanceBound - 1
    <3>1. balance[a] + Faucet \in Int
      OBVIOUS
    <3> QED
      BY <3>1, ModRange
  <2>2. balance' \in [Addr -> 0 .. BalanceBound - 1]
    BY <1>11, <2>1 DEF AddBalance
  <2>3. minted' \in [Addr -> Nat] /\ known' \subseteq Addr
    BY <1>11 DEF AddBalance
  <2>4. UNCHANGED <<nonce, mempool, chain, writer, pc, ttx, vblk, vidx>>
    BY <1>11 DEF AddBalance
  <2> QED
    BY <2>2, <2>3, <2>4
<1>12. CASE UNCHANGED vars
  <2>1. UNCHANGED <<known, balance, nonce, mempool, chain, writer, pc, ttx,
                    vblk, vidx, minted>>
    BY <1>12 DEF vars
  <2> QED
    BY <2>1
<1> QED
  BY <1>1, <1>2, <1>3, <1>4, <1>5, <1>6, <1>7, <1>8, <1>9, <1>10, <1>11,
     <1>12 DEF Next

(* Every reachable state is well typed: the ledger's balances and nonces   *)
(* stay within uint256 and uint32 through every interleaving of the       *)
(* State's handlers.                                                        *)
THEOREM TypeCorrect == Spec => []TypeOK
<1>1. TypeInv => TypeOK
  BY DEF TypeInv
<1> QED
  BY InitTypeInv, NextTypeInv, <1>1, PTL DEF Spec

----------------------------------------------------------------------------
(* ChainLinked is not inductive by itself: processNewBlock appends the    *)
(* block a thread validated earlier without looking at its header again.  *)
(* The strengthening says that a block validated against the current tip  *)
(* still has the right height, and that the thread applying a block holds *)
(* stateLock exclusively and has a block on the current tip, so no other  *)
(* append can come between its check and its own.                          *)
OnTip(b) == b.parent = Len(chain) => b.height = Last(chain).height + 1

Active == {"validating", "verified", "applying"}

Linkage ==
    /\ ChainLinked
    /\ writer # NoThread => pc[writer] = "applying"
    /\ \A t \in Threads :
          /\ vblk[t].parent <= Len(chain)
          /\ pc[t] \in Active => OnTip(vblk[t])
          /\ pc[t] = "applying" => writer = t /\ vblk[t].parent = Len(chain)

LinkInv == TypeInv /\ Linkage

LEMMA InitLinkInv == Init => LinkInv
<1> SUFFICES ASSUME Init PROVE LinkInv
  OBVIOUS
<1>1. TypeInv
  BY InitTypeInv
<1>2. Linkage
  BY DEF Init, Linkage, ChainLinked, GenesisBlock, Active, OnTip
<1> QED
  BY <1>1, <1>2 DEF LinkInv

(* A step of a thread that is not applying a block, ends in none of the   *)
(* validation states, and leaves the chain, the lock and every other      *)
(* thread's block alone keeps the linkage.                                 *)
LEMMA QuietStep ==
    ASSUME TypeInv, Linkage, TypeInv',
           NEW t \in Threads, NEW p \in {"idle", "rpc_insert", "proposed"},
           pc[t] # "applying",
           pc' = [pc EXCEPT ![t] = p],
           chain' = chain, writer' = writer,
           \A u \in Threads \ {t} : vblk'[u] = vblk[u],
           vblk'[t].parent <= Len(chain)
    PROVE  Linkage'
<1> USE DEF TypeInv, TypeOK
<1>1. ChainLinked'
  BY DEF Linkage, ChainLinked
<1>2. writer # NoThread => writer # t
  BY DEF Linkage
<1>3. (writer # NoThread => pc[writer] = "applying")'
  BY <1>2 DEF Linkage
<1>4. ASSUME NEW u \in Threads
      PROVE  (/\ vblk[u].parent <= Len(chain)
              /\ pc[u] \in Active => OnTip(vblk[u])
              /\ pc[u] = "applying" =>
                    writer = u /\ vblk[u].parent = Len(chain))'
  <2>1. CASE u = t
    BY <2>1 DEF Active, PcValues
  <2>2. CASE u # t
    <3>1. pc'[u] = pc[u] /\ vblk'[u] = vblk[u]
      BY <2>2
    <3>2. OnTip(vblk[u])' = OnTip(vblk[u])
      BY <3>1 DEF OnTip, Last
    <3>3. /\ vblk[u].parent <= Len(chain)
          /\ pc[u] \in Active => OnTip(vblk[u])
          /\ pc[u] = "applying" => writer = u /\ vblk[u].parent = Len(chain)
      BY DEF Linkage
    <3> QED
      BY <3>1, <3>2, <3>3
  <2> QED
    BY <2>1, <2>2
<1> QED
  BY <1>1, <1>3, <1>4, Zenon DEF Linkage

(* Release(t) in the terms QuietStep asks for.                             *)
LEMMA ReleaseQuiet ==
    ASSUME TypeInv, NEW t \in Threads, Release(t)
    PROVE  /\ pc' = [pc EXCEPT ![t] = "idle"]
           /\ \A u \in Threads \ {t} : vblk'[u] = vblk[u]
           /\ vblk'[t].parent <= Len(chain)
BY DEF Release, TypeInv, TypeOK, GenesisBlock

LEMMA NextLinkInv == LinkInv /\ [Next]_vars => LinkInv'
<1> SUFFICES ASSUME LinkInv, [Next]_vars PROVE LinkInv'
  OBVIOUS
<1>0. TypeInv /\ Linkage /\ TypeInv'
  BY NextTypeInv DEF LinkInv
<1> SUFFICES Linkage'
  BY <1>0 DEF LinkInv
<1>1. ASSUME NEW t \in Threads, NEW tx \in Txs, RpcCheck(t, tx) PROVE Linkage'
  <2>1. vblk[t].parent <= Len(chain)
    BY <1>0 DEF Linkage
  <2> QED
    BY <1>0, <1>1, <2>1, QuietStep DEF RpcCheck
<1>2. ASSUME NEW t \in Threads, RpcInsert(t) PROVE Linkage'
  <2>1. vblk[t].parent <= Len(chain)
    BY <1>0 DEF Linkage
  <2> QED
    BY <1>0, <1>2, <2>1, QuietStep DEF RpcInsert
<1>3. ASSUME NEW t \in Threads, CreateNewBlock(t) PROVE Linkage'
  <2>1. PICK i \in DOMAIN chain, s \in Orderings(mempool) :
            vblk' = [vblk EXCEPT ![t] = [parent |-> i,
                                         height |-> chain[i].height + 1,
                                         txs |-> s]]
    BY <1>3, Zenon DEF CreateNewBlock
  <2>2. vblk'[t].parent <= Len(chain)
    BY <1>0, <2>1 DEF TypeInv, TypeOK
  <2>3. \A u \in Threads \ {t} : vblk'[u] = vblk[u]
    BY <2>1
  <2> QED
    BY <1>0, <1>3, <2>2, <2>3, QuietStep DEF CreateNewBlock
<1>4. ASSUME NEW t \in Threads, ValidateTx(t) PROVE Linkage'
  <2> DEFINE tx == vblk[t].txs[vidx[t]]
  <2>1. CASE ~ValidTxForBlock(tx) /\ Release(t)
    BY <1>0, <1>4, <2>1, ReleaseQuiet, QuietStep DEF ValidateTx
  <2>2. CASE /\ ValidTxForBlock(tx)
             /\ pc' = [pc EXCEPT ![t] = IF vidx[t] = Len(vblk[t].txs)
                                        THEN "verified" ELSE "validating"]
             /\ vidx' = [vidx EXCEPT ![t] = @ + 1]
             /\ UNCHANGED vblk
    <3>3. UNCHANGED <<chain, writer, vblk>>
      BY <1>4, <2>2 DEF ValidateTx
    <3>4. writer = NoThread /\ pc[t] = "validating"
      BY <1>4 DEF ValidateTx
    <3>5. \A u \in Threads : pc'[u] \in Active <=> pc[u] \in Active
      BY <1>0, <2>2, <3>4 DEF TypeInv, TypeOK, Active
    <3>6. \A u \in Threads : pc'[u] = "applying" <=> pc[u] = "applying"
      BY <1>0, <2>2, <3>4 DEF TypeInv, TypeOK
    <3> QED
      BY <1>0, <3>3, <3>4, <3>5, <3>6 DEF Linkage, ChainLinked, OnTip, Last
  <2> QED
    BY <1>4, <2>1, <2>2 DEF ValidateTx
<1>5. ASSUME NEW t \in Threads, ProcessNewBlock(t) PROVE Linkage'
  <2>1. /\ pc[t] = "verified" /\ writer = NoThread
        /\ vblk[t].parent = Len(chain)
        /\ writer' = t /\ pc' = [pc EXCEPT ![t] = "applying"]
        /\ UNCHANGED <<chain, vblk>>
    BY <1>5 DEF ProcessNewBlock
  <2>2. OnTip(vblk[t])
    BY <1>0, <2>1 DEF Linkage, Active
  <2>3. \A u \in Threads \ {t} : pc[u] # "applying"
    BY <1>0, <2>1 DEF Linkage
  <2>4. ChainLinked'
    BY <1>0, <2>1 DEF Linkage, ChainLinked
  <2>5. ASSUME NEW u \in Threads
        PROVE  (/\ vblk[u].parent <= Len(chain)
                /\ pc[u] \in Active => OnTip(vblk[u])
                /\ pc[u] = "applying" =>
                      writer = u /\ vblk[u].parent = Len(chain))'
    <3>1. CASE u = t
      BY <1>0, <2>1, <2>2, <3>1 DEF Linkage, OnTip, Last, TypeInv, TypeOK
    <3>2. CASE u # t
      BY <1>0, <2>1, <2>3, <3>2 DEF Linkage, OnTip, Last, TypeInv, TypeOK
    <3> QED
      BY <3>1, <3>2
  <2>6. (writer # NoThread => pc[writer] = "applying")'
    BY <1>0, <2>1 DEF TypeInv, TypeOK
  <2> QED
    BY <2>4, <2>5, <2>6, Zenon DEF Linkage
<1>6. ASSUME NEW t \in Threads, RejectBlock(t) PROVE Linkage'
  BY <1>0, <1>6, ReleaseQuiet, QuietStep DEF RejectBlock
<1>7. ASSUME NEW t \in Threads, ProcessNewTransaction(t) PROVE Linkage'
  BY <1>0, <1>7 DEF ProcessNewTransaction, Linkage, ChainLinked, OnTip, Last
<1>8. ASSUME NEW t \in Threads, FinishBlock(t) PROVE Linkage'
  <2>1. /\ pc[t] = "applying"
        /\ chain' = Append(chain, vblk[t])
        /\ writer' = NoThread
        /\ Release(t)
    BY <1>8 DEF FinishBlock
  <2>2. writer = t /\ vblk[t].parent = Len(chain)
    BY <1>0, <2>1 DEF Linkage
  <2>3. vblk[t].height = Last(chain).height + 1
    BY <1>0, <2>1, <2>2 DEF Linkage, Active, OnTip
  <2>4. \A u \in Threads \ {t} : pc[u] # "applying"
    BY <1>0, <2>2 DEF Linkage
  <2>5. /\ pc' = [pc EXCEPT ![t] = "idle"]
        /\ \A u \in Threads \ {t} : vblk'[u] = vblk[u]
        /\ vblk'[t].parent <= Len(chain)
    BY <1>0, <2>1, ReleaseQuiet
  <2>6. Len(chain') = Len(chain) + 1 /\ chain'[Len(chain')] = vblk[t]
        /\ \A i \in 1 .. Len(chain) : chain'[i] = chain[i]
    BY <1>0, <2>1 DEF TypeInv, TypeOK
  <2>7. ChainLinked'
    <3>1. Len(chain) \in Nat /\ Len(chain) >= 1
      BY <1>0 DEF TypeInv, TypeOK
    <3>2. SUFFICES ASSUME NEW i \in 2 .. Len(chain) + 1
                   PROVE  /\ chain'[i].parent = i - 1
                          /\ chain'[i].height = chain'[i - 1].height + 1
      BY <2>6 DEF ChainLinked
    <3>3. CASE i = Len(chain) + 1
      BY <2>2, <2>3, <2>6, <3>1, <3>3 DEF Last
    <3>4. CASE i <= Len(chain)
      BY <1>0, <2>6, <3>1, <3>4 DEF Linkage, ChainLinked
    <3> QED
      BY <3>1, <3>3, <3>4
  <2>8. ASSUME NEW u \in Threads
        PROVE  (/\ vblk[u].parent <= Len(chain)
                /\ pc[u] \in Active => OnTip(vblk[u])
                /\ pc[u] = "applying" =>
                      writer = u /\ vblk[u].parent = Len(chain))'
    <3>0. vblk'[u].parent \in Nat /\ vblk[u].parent \in Nat
          /\ Len(chain) \in Nat
      <4>1. vblk'[u] \in Blocks /\ vblk[u] \in Blocks
        BY <1>0 DEF TypeInv, TypeOK
      <4>2. vblk'[u].parent \in Nat /\ vblk[u].parent \in Nat
        BY <4>1, Zenon DEF Blocks
      <4>3. Len(chain) \in Nat
        BY <1>0 DEF TypeInv, TypeOK
      <4> QED
        BY <4>2, <4>3
    <3>1. CASE u = t
      <4>1. pc'[u] = "idle"
        BY <1>0, <2>5, <3>1 DEF TypeInv, TypeOK
      <4>2. vblk'[u].parent <= Len(chain')
        BY <2>5, <2>6, <3>0, <3>1
      <4> QED
        BY <4>1, <4>2 DEF Active
    <3>2. CASE u # t
      <4>1. pc'[u] = pc[u] /\ vblk'[u] = vblk[u]
        BY <1>0, <2>5, <3>2 DEF TypeInv, TypeOK
      <4>2. vblk[u].parent <= Len(chain) /\ pc[u] # "applying"
        BY <1>0, <2>4, <3>2 DEF Linkage
      <4>3. vblk[u].parent # Len(chain') /\ vblk[u].parent <= Len(chain')
        BY <2>6, <3>0, <4>2
      <4> QED
        BY <2>6, <4>1, <4>2, <4>3 DEF OnTip
    <3> QED
      BY <3>1, <3>2
  <2>9. (writer # NoThread => pc[writer] = "applying")'
    BY <2>1
  <2> QED
    BY <2>7, <2>8, <2>9, Zenon DEF Linkage
<1>9. ASSUME NEW t \in Threads, NEW b \in PeerBlocks \cup {vblk[t]},
             ValidateStart(t, b)
      PROVE  Linkage'
  <2>1. pc[t] \in {"idle", "proposed"}
    BY <1>9 DEF ValidateStart
  <2>2. UNCHANGED <<chain, writer>>
    BY <1>9 DEF ValidateStart
  <2>3. CASE ~HeaderValid(b) /\ Release(t)
    BY <1>0, <2>1, <2>2, <2>3, ReleaseQuiet, QuietStep
  <2>4. CASE /\ HeaderValid(b)
             /\ vblk' = [vblk EXCEPT ![t] = b]
             /\ pc' = [pc EXCEPT ![t] = IF b.txs = << >> THEN "verified"
                                        ELSE "validating"]
    <3>1. writer # NoThread => writer # t
      BY <1>0, <2>1 DEF Linkage
    <3>2. ChainLinked' /\ (writer # NoThread => pc[writer] = "applying")'
      BY <1>0, <2>2, <2>4, <3>1 DEF Linkage, ChainLinked, TypeInv, TypeOK
    <3>3. ASSUME NEW u \in Threads
          PROVE  (/\ vblk[u].parent <= Len(chain)
                  /\ pc[u] \in Active => OnTip(vblk[u])
                  /\ pc[u] = "applying" =>
                        writer = u /\ vblk[u].parent = Len(chain))'
      <4>1. CASE u = t
        BY <1>0, <2>2, <2>4, <4>1 DEF TypeInv, TypeOK, HeaderValid, OnTip
      <4>2. CASE u # t
        BY <1>0, <2>2, <2>4, <4>2 DEF TypeInv, TypeOK, Linkage, OnTip, Last
      <4> QED
        BY <4>1, <4>2
    <3> QED
      BY <3>2, <3>3, Zenon DEF Linkage
  <2> QED
    BY <1>9, <2>3, <2>4 DEF ValidateStart
<1>10. ASSUME NEW a \in Addr, GetNativeBalance(a) \/ GetNativeNonce(a) \/ AddBalance(a)
       PROVE  Linkage'
  BY <1>0, <1>10 DEF GetNativeBalance, GetNativeNonce, AddBalance, Linkage,
                     ChainLinked, OnTip, Last
<1>11. CASE UNCHANGED vars
  BY <1>0, <1>11 DEF vars, Linkage, ChainLinked, OnTip, Last
<1> QED
  BY <1>1, <1>2, <1>3, <1>4, <1>5, <1>6, <1>7, <1>8, <1>9, <1>10, <1>11
     DEF Next

(* Every accepted block names its predecessor on the chain as its parent  *)
(* and is one higher, for any number of accounts, threads, transactions    *)
(* and blocks: processNewBlock appends without re-checking the header, and *)
(* the header validateNewBlock checked stays valid until the append.        *)
THEOREM ChainLinkedHolds == Spec => []ChainLinked
<1>1. LinkInv => ChainLinked
  BY DEF LinkInv, Linkage
<1> QED
  BY InitLinkInv, NextLinkInv, <1>1, PTL DEF Spec

----------------------------------------------------------------------------
(* AppliedTxsSigned is not inductive by itself: what reaches the chain is *)
(* the block a thread validated, and a block built by createNewBlock is   *)
(* taken from the mempool without a second signature check.  The          *)
(* strengthening says where the signatures were checked: every mempool    *)
(* entry and every transaction awaiting insertion verified, a validating  *)
(* thread has checked the transactions before its index, and a block that *)
(* was proposed, verified or is being applied has only verified ones.      *)
Signed(s) == \A j \in DOMAIN s : s[j].sig

SigDone(t) ==
    /\ pc[t] = "rpc_insert" => ttx[t].sig
    /\ pc[t] \in {"proposed", "verified", "applying"} => Signed(vblk[t].txs)
    /\ pc[t] = "validating" => \A j \in 1 .. vidx[t] - 1 : vblk[t].txs[j].sig

SigInv ==
    /\ TypeInv
    /\ AppliedTxsSigned
    /\ \A tx \in mempool : tx.sig
    /\ \A t \in Threads : SigDone(t)

(* The part of SigInv beyond the types.                                    *)
SigRest ==
    /\ AppliedTxsSigned
    /\ \A tx \in mempool : tx.sig
    /\ \A t \in Threads : SigDone(t)

(* The entries of an iteration order of S are members of S.               *)
LEMMA OrderingsElems ==
    ASSUME NEW S, NEW s \in Orderings(S)
    PROVE  \A j \in DOMAIN s : s[j] \in S
<1>1. PICK n \in 0 .. Cardinality(S) : s \in [1 .. n -> S]
  BY DEF Orderings
<1> QED
  BY <1>1

(* A thread whose locals a step leaves alone keeps what it checked.       *)
LEMMA SigFrame ==
    ASSUME NEW u, SigDone(u),
           pc'[u] = pc[u], ttx'[u] = ttx[u], vblk'[u] = vblk[u],
           vidx'[u] = vidx[u]
    PROVE  SigDone(u)'
BY DEF SigDone, Signed

(* A thread that returns from a handler has nothing left to account for.  *)
LEMMA ReleaseSig ==
    ASSUME TypeInv, NEW t \in Threads, Release(t)
    PROVE  SigDone(t)'
BY DEF Release, SigDone, TypeInv, TypeOK

LEMMA InitSigInv == Init => SigInv
<1> SUFFICES ASSUME Init PROVE SigInv
  OBVIOUS
<1>1. TypeInv
  BY InitTypeInv
<1>2. AppliedTxsSigned
  BY DEF Init, AppliedTxsSigned, GenesisBlock
<1>3. \A t \in Threads : SigDone(t)
  BY DEF Init, SigDone
<1> QED
  BY <1>1, <1>2, <1>3 DEF Init, SigInv

LEMMA NextSigInv == SigInv /\ [Next]_vars => SigInv'
<1> SUFFICES ASSUME SigInv, [Next]_vars PROVE SigInv'
  OBVIOUS
<1>0. TypeInv /\ TypeInv'
  BY NextTypeInv DEF SigInv
<1>h. /\ AppliedTxsSigned
      /\ \A tx \in mempool : tx.sig
      /\ \A u \in Threads : SigDone(u)
  BY DEF SigInv
<1> USE DEF SigRest
<1> SUFFICES SigRest'
  BY <1>0 DEF SigInv, SigRest
<1> USE <1>h
<1>1. ASSUME NEW t \in Threads, NEW tx \in Txs, RpcCheck(t, tx) PROVE SigRest'
  <2>1. SigDone(t)'
    BY <1>0, <1>1 DEF RpcCheck, SigDone, TypeInv, TypeOK
  <2>2. \A u \in Threads \ {t} : SigDone(u)'
    BY <1>0, <1>1, SigFrame DEF RpcCheck, TypeInv, TypeOK
  <2> QED
    BY <1>0, <1>1, <2>1, <2>2 DEF RpcCheck, AppliedTxsSigned
<1>2. ASSUME NEW t \in Threads, RpcInsert(t) PROVE SigRest'
  <2>1. ttx[t].sig
    BY <1>2 DEF RpcInsert, SigDone
  <2>2. SigDone(t)'
    BY <1>0, <1>2 DEF RpcInsert, SigDone, TypeInv, TypeOK
  <2>3. \A u \in Threads \ {t} : SigDone(u)'
    BY <1>0, <1>2, SigFrame DEF RpcInsert, TypeInv, TypeOK
  <2> QED
    BY <1>0, <1>2, <2>1, <2>2, <2>3 DEF RpcInsert, AppliedTxsSigned
<1>3. ASSUME NEW t \in Threads, CreateNewBlock(t) PROVE SigRest'
  <2>1. PICK i \in DOMAIN chain, s \in Orderings(mempool) :
            vblk' = [vblk EXCEPT ![t] = [parent |-> i,
                                         height |-> chain[i].height + 1,
                                         txs |-> s]]
    BY <1>3, Zenon DEF CreateNewBlock
  <2>2. \A j \in DOMAIN s : s[j] \in mempool
    BY OrderingsElems
  <2>3. Signed(vblk'[t].txs)
    BY <1>0, <2>1, <2>2 DEF Signed, TypeInv, TypeOK
  <2>4. SigDone(t)'
    BY <1>0, <1>3, <2>3 DEF CreateNewBlock, SigDone, TypeInv, TypeOK
  <2>5. \A u \in Threads \ {t} : SigDone(u)'
    BY <1>0, <1>3, <2>1, SigFrame DEF CreateNewBlock, TypeInv, TypeOK
  <2> QED
    BY <1>3, <2>4, <2>5 DEF CreateNewBlock, AppliedTxsSigned
<1>4. ASSUME NEW t \in Threads, ValidateTx(t) PROVE SigRest'
  <2> DEFINE tx == vblk[t].txs[vidx[t]]
  <2>0. /\ pc[t] = "validating"
        /\ UNCHANGED <<mempool, chain, ttx>>
    BY <1>4 DEF ValidateTx
  <2>1. CASE ~ValidTxForBlock(tx) /\ Release(t)
    <3>1. SigDone(t)'
      BY <1>0, <2>1, ReleaseSig
    <3>2. \A u \in Threads \ {t} : SigDone(u)'
      BY <1>0, <2>0, <2>1, SigFrame DEF Release, TypeInv, TypeOK
    <3> QED
      BY <2>0, <3>1, <3>2 DEF AppliedTxsSigned
  <2>2. CASE /\ ValidTxForBlock(tx)
             /\ pc' = [pc EXCEPT ![t] = IF vidx[t] = Len(vblk[t].txs)
                                        THEN "verified" ELSE "validating"]
             /\ vidx' = [vidx EXCEPT ![t] = @ + 1]
             /\ UNCHANGED vblk
    <3>1. tx.sig
      BY <2>2 DEF ValidTxForBlock
    <3>2. \A j \in 1 .. vidx[t] - 1 : vblk[t].txs[j].sig
      BY <2>0 DEF SigDone
    <3>3. vidx[t] \in Nat \ {0} /\ vblk[t].txs \in Seq(Txs)
      BY <1>0 DEF TypeInv, TypeOK, Blocks
    <3>4. \A j \in 1 .. vidx[t] : vblk[t].txs[j].sig
      BY <3>1, <3>2, <3>3
    <3>5. SigDone(t)'
      <4>1. CASE vidx[t] = Len(vblk[t].txs)
        <5>1. pc'[t] = "verified" /\ Signed(vblk'[t].txs)
          BY <1>0, <2>2, <3>3, <3>4, <4>1 DEF Signed, TypeInv, TypeOK
        <5> QED
          BY <5>1 DEF SigDone, Signed
      <4>2. CASE vidx[t] # Len(vblk[t].txs)
        <5>1. pc'[t] = "validating" /\ vidx'[t] - 1 = vidx[t]
          BY <1>0, <2>2, <3>3, <4>2 DEF TypeInv, TypeOK
        <5>2. vblk' = vblk
          BY <2>2
        <5>3. \A j \in 1 .. vidx'[t] - 1 : vblk'[t].txs[j].sig
          BY <3>4, <5>1, <5>2
        <5> QED
          BY <5>1, <5>3 DEF SigDone
      <4> QED
        BY <4>1, <4>2
    <3>7. \A u \in Threads \ {t} : SigDone(u)'
      BY <1>0, <2>0, <2>2, SigFrame DEF TypeInv, TypeOK
    <3> QED
      BY <2>0, <3>5, <3>7 DEF AppliedTxsSigned
  <2> QED
    BY <1>4, <2>1, <2>2 DEF ValidateTx
<1>5. ASSUME NEW t \in Threads, ProcessNewBlock(t) PROVE SigRest'
  <2>1. Signed(vblk[t].txs)
    BY <1>5 DEF ProcessNewBlock, SigDone
  <2>2. SigDone(t)'
    BY <1>0, <1>5, <2>1 DEF ProcessNewBlock, SigDone, TypeInv, TypeOK
  <2>3. \A u \in Threads \ {t} : SigDone(u)'
    BY <1>0, <1>5, SigFrame DEF ProcessNewBlock, TypeInv, TypeOK
  <2> QED
    BY <1>5, <2>2, <2>3 DEF ProcessNewBlock, AppliedTxsSigned
<1>6. ASSUME NEW t \in Threads, RejectBlock(t) PROVE SigRest'
  <2>1. SigDone(t)'
    BY <1>0, <1>6, ReleaseSig DEF RejectBlock
  <2>2. \A u \in Threads \ {t} : SigDone(u)'
    BY <1>0, <1>6, SigFrame DEF RejectBlock, Release, TypeInv, TypeOK
  <2> QED
    BY <1>6, <2>1, <2>2 DEF RejectBlock, AppliedTxsSigned
<1>7. ASSUME NEW t \in Threads, ProcessNewTransaction(t) PROVE SigRest'
  <2>1. /\ pc[t] = "applying"
        /\ mempool' \subseteq mempool
        /\ UNCHANGED <<chain, pc, ttx, vblk>>
        /\ vidx' = [vidx EXCEPT ![t] = @ + 1]
    BY <1>7 DEF ProcessNewTransaction
  <2>2. SigDone(t)'
    BY <2>1 DEF SigDone, Signed
  <2>3. \A u \in Threads \ {t} : SigDone(u)'
    BY <1>0, <2>1, SigFrame DEF TypeInv, TypeOK
  <2> QED
    BY <2>1, <2>2, <2>3 DEF AppliedTxsSigned
<1>8. ASSUME NEW t \in Threads, FinishBlock(t) PROVE SigRest'
  <2>1. /\ pc[t] = "applying"
        /\ chain' = Append(chain, vblk[t])
        /\ mempool' = {}
        /\ Release(t)
        /\ ttx' = ttx
    BY <1>8 DEF FinishBlock
  <2>2. Signed(vblk[t].txs)
    BY <2>1 DEF SigDone
  <2>3. AppliedTxsSigned'
    <3>1. chain \in Seq(Blocks)
      BY <1>0 DEF TypeInv, TypeOK
    <3>2. SUFFICES ASSUME NEW i \in 1 .. Len(chain) + 1,
                          NEW j \in DOMAIN chain'[i].txs
                   PROVE  chain'[i].txs[j].sig
      BY <2>1, <3>1 DEF AppliedTxsSigned
    <3>3. CASE i = Len(chain) + 1
      BY <2>1, <2>2, <3>1, <3>3 DEF Signed
    <3>4. CASE i <= Len(chain)
      BY <2>1, <3>1, <3>4 DEF AppliedTxsSigned
    <3> QED
      BY <3>1, <3>3, <3>4
  <2>4. SigDone(t)'
    BY <1>0, <2>1, ReleaseSig
  <2>5. \A u \in Threads \ {t} : SigDone(u)'
    BY <1>0, <2>1, SigFrame DEF Release, TypeInv, TypeOK
  <2> QED
    BY <2>1, <2>3, <2>4, <2>5
<1>9. ASSUME NEW t \in Threads, NEW b \in PeerBlocks \cup {vblk[t]},
             ValidateStart(t, b)
      PROVE  SigRest'
  <2>0. UNCHANGED <<mempool, chain, ttx>>
    BY <1>9 DEF ValidateStart
  <2>1. CASE ~HeaderValid(b) /\ Release(t)
    <3>1. SigDone(t)'
      BY <1>0, <2>1, ReleaseSig
    <3>2. \A u \in Threads \ {t} : SigDone(u)'
      BY <1>0, <2>0, <2>1, SigFrame DEF Release, TypeInv, TypeOK
    <3> QED
      BY <2>0, <3>1, <3>2 DEF AppliedTxsSigned
  <2>2. CASE /\ HeaderValid(b)
             /\ vblk' = [vblk EXCEPT ![t] = b]
             /\ vidx' = [vidx EXCEPT ![t] = 1]
             /\ pc' = [pc EXCEPT ![t] = IF b.txs = << >> THEN "verified"
                                        ELSE "validating"]
    <3>1. SigDone(t)'
      BY <1>0, <2>2 DEF SigDone, Signed, TypeInv, TypeOK
    <3>2. \A u \in Threads \ {t} : SigDone(u)'
      BY <1>0, <2>0, <2>2, SigFrame DEF TypeInv, TypeOK
    <3> QED
      BY <2>0, <3>1, <3>2 DEF AppliedTxsSigned
  <2> QED
    BY <1>9, <2>1, <2>2 DEF ValidateStart
<1>10. ASSUME NEW a \in Addr, GetNativeBalance(a) \/ GetNativeNonce(a) \/ AddBalance(a)
       PROVE  SigRest'
  <2>1. UNCHANGED <<mempool, chain, pc, ttx, vblk, vidx>>
    BY <1>10 DEF GetNativeBalance, GetNativeNonce, AddBalance
  <2> QED
    BY <1>0, <2>1 DEF AppliedTxsSigned, SigDone, Signed
<1>11. CASE UNCHANGED vars
  BY <1>0, <1>11 DEF vars, AppliedTxsSigned, SigDone, Signed
<1> QED
  BY <1>1, <1>2, <1>3, <1>4, <1>5, <1>6, <1>7, <1>8, <1>9, <1>10, <1>11
     DEF Next

(* Only transactions whose signature verified are ever applied to the     *)
(* ledger, for any accounts, threads and transactions: a peer's block has  *)
(* each transaction checked by validateTransactionForBlock, and a block    *)
(* createNewBlock fills from the mempool holds only transactions that      *)
(* validateTransactionForRPC admitted after verifying them.                *)
THEOREM AppliedTxsSignedHolds == Spec => []AppliedTxsSigned
<1>1. SigInv => AppliedTxsSigned
  BY DEF SigInv
<1> QED
  BY InitSigInv, NextSigInv, <1>1, PTL DEF Spec

----------------------------------------------------------------------------
(* The step NonceAdvance allows.                                           *)
NonceMoves ==
    \A a \in Addr :
        nonce'[a] # nonce[a] =>
           /\ writer # NoThread
           /\ pc[writer] = "applying"
           /\ vblk[writer].txs[vidx[writer]].from = a
           /\ nonce'[a] = (nonce[a] + 1) % NonceBound

(* Every action but processNewTransaction leaves the nonces alone.        *)
LEMMA OnlyApplyMovesNonces ==
    ASSUME [Next]_vars, ~\E t \in Threads : ProcessNewTransaction(t)
    PROVE  nonce' = nonce
BY Zenon DEF Next, vars, RpcCheck, RpcInsert, CreateNewBlock, ValidateTx,
       ProcessNewBlock, RejectBlock, FinishBlock, ValidateStart,
       GetNativeBalance, GetNativeNonce, AddBalance

LEMMA NonceStep == LinkInv /\ [Next]_vars => NonceMoves
<1> SUFFICES ASSUME LinkInv, [Next]_vars PROVE NonceMoves
  OBVIOUS
<1>1. CASE \E t \in Threads : ProcessNewTransaction(t)
  <2>1. PICK t \in Threads : ProcessNewTransaction(t)
    BY <1>1
  <2> DEFINE tx == vblk[t].txs[vidx[t]]
  <2>2. pc[t] = "applying" /\ writer = t
    BY Zenon, <2>1 DEF ProcessNewTransaction, LinkInv, Linkage
  <2>3. vblk[t] \in Blocks /\ vidx[t] \in Nat \ {0}
    BY DEF LinkInv, TypeInv, TypeOK
  <2>4. vblk[t].txs \in Seq(Txs)
    BY <2>3 DEF Blocks
  <2>5. vidx[t] <= Len(vblk[t].txs)
    BY Zenon, <2>1 DEF ProcessNewTransaction
  <2>6. tx \in Txs
    <3>1. vidx[t] \in 1 .. Len(vblk[t].txs)
      BY <2>3, <2>5
    <3>2. vblk[t].txs[vidx[t]] \in Txs
      BY <2>4, <3>1
    <3> QED
      BY <3>2
  <2>7. tx.from \in Addr
    BY <2>6 DEF TxRecords
  <2>8. nonce' = [nonce EXCEPT ![tx.from] = (@ + 1) % NonceBound]
    BY <2>1, Zenon DEF ProcessNewTransaction
  <2>9. nonce \in [Addr -> 0 .. NonceBound - 1] /\ t # NoThread
    BY DEF LinkInv, TypeInv, TypeOK
  <2> SUFFICES ASSUME NEW a \in Addr, nonce'[a] # nonce[a]
               PROVE  /\ writer # NoThread
                      /\ pc[writer] = "applying"
                      /\ vblk[writer].txs[vidx[writer]].from = a
                      /\ nonce'[a] = (nonce[a] + 1) % NonceBound
    BY DEF NonceMoves
  <2>10. a = tx.from
    BY Zenon, <2>7, <2>8, <2>9
  <2>11. nonce'[a] = (nonce[a] + 1) % NonceBound
    BY Zenon, <2>7, <2>8, <2>9, <2>10
  <2> QED
    BY Zenon, <2>2, <2>9, <2>10, <2>11
<1>2. CASE ~\E t \in Threads : ProcessNewTransaction(t)
  BY <1>2, OnlyApplyMovesNonces DEF NonceMoves
<1> QED
  BY <1>1, <1>2

(* Nonces move only inside processNewBlock, for any accounts, threads and *)
(* transactions: processNewTransaction, the one writer of a nonce (line    *)
(* 124), runs only in the thread that holds stateLock exclusively, and     *)
(* increments the nonce of the sender of the transaction it applies.        *)
THEOREM NonceAdvanceHolds == Spec => NonceAdvance
<1>1. Spec => []LinkInv
  BY InitLinkInv, NextLinkInv, PTL DEF Spec
<1>2. LinkInv /\ [Next]_vars => [NonceMoves]_vars
  BY NonceStep
<1> QED
  BY <1>1, <1>2, PTL DEF Spec, NonceAdvance, NonceMoves

=============================================================================
