----------------------------- MODULE StateCore -----------------------------
(***************************************************************************)
(* The State engine of old_src/core/state.cpp: the native account ledger  *)
(* (nativeAccount), the transaction mempool, the accepted chain (the      *)
(* ChainHead the State appends to) and the readers-writer lock stateLock  *)
(* that guards ledger and mempool.                                         *)
(*                                                                         *)
(* Worker threads of the RPC and P2P pools run the State's handlers       *)
(* concurrently.  A critical section that the code runs under stateLock   *)
(* and that does not release it is one step; the code's own splits are    *)
(* kept: admission reads under the shared lock and inserts under a second *)
(* exclusive section, validateNewBlock takes the shared lock once per     *)
(* transaction, and processNewBlock holds the exclusive lock across one   *)
(* step per transaction (the variable writer).                             *)
(*                                                                         *)
(* Data is abstracted: a transaction is a record and its hash is the      *)
(* record.  A block is a record whose parent hash is given as the position *)
(* of the parent in the accepted chain, which never forks; 0 stands for   *)
(* any hash that is not on it.  uint256 balances wrap modulo BalanceBound *)
(* and uint32 nonces modulo NonceBound.                                    *)
(***************************************************************************)
EXTENDS Integers, Sequences, FiniteSets

CONSTANTS
    Addr,            \* account addresses
    Genesis,         \* the accounts loadState seeds on an empty database
    GenesisBalance,  \* the balance each of them is seeded with
    Faucet,          \* the amount addBalance credits
    Txs,             \* the transactions clients and peers may submit
    Threads,         \* worker threads of the RPC and P2P pools
    NoThread,        \* stateLock has no exclusive holder
    NoTx,            \* no transaction pending insertion
    BalanceBound,    \* 2^256: uint256_t wraps modulo this
    NonceBound,      \* 2^32: Account::nonce is a uint32_t
    MaxChain,        \* bound: blocks on the chain, genesis included
    MaxBlockTxs,     \* bound: transactions in a block sent by a peer
    MaxMints         \* bound: calls of addBalance

(* A transaction as the State reads it: sender, recipient, value, the fee  *)
(* gasPrice * gas, nonce, and whether its signature verified.              *)
TxRecords == [from : Addr, to : Addr, value : Nat, fee : Nat,
              nonce : Nat, sig : BOOLEAN]

ASSUME ConstantsAssumption ==
    /\ Genesis \subseteq Addr
    /\ BalanceBound \in Nat \ {0}
    /\ NonceBound \in Nat \ {0}
    /\ GenesisBalance \in 0 .. BalanceBound - 1
    /\ Faucet \in Nat
    /\ Txs \subseteq TxRecords
    /\ NoThread \notin Threads
    /\ NoTx \notin Txs
    /\ MaxChain \in Nat
    /\ MaxBlockTxs \in Nat
    /\ MaxMints \in Nat

VARIABLES
    known,     \* the addresses that have an entry in nativeAccount
    balance,   \* nativeAccount[a].balance (0 for an absent entry)
    nonce,     \* nativeAccount[a].nonce (0 for an absent entry)
    mempool,   \* the set of transactions in State::mempool
    chain,     \* the accepted blocks, genesis first (ChainHead)
    writer,    \* the thread holding stateLock exclusively across steps
    pc,        \* what each worker thread is doing
    ttx,       \* the transaction an admitting thread is about to insert
    vblk,      \* the block a thread is building, validating or applying
    vidx,      \* the index of the next transaction of vblk to handle
    minted     \* history: how many times addBalance credited each address

vars == <<known, balance, nonce, mempool, chain, writer, pc, ttx, vblk,
          vidx, minted>>

GenesisBlock == [parent |-> 0, height |-> 0, txs |-> << >>]

Blocks == [parent : Nat, height : Nat, txs : Seq(Txs)]

Last(s) == s[Len(s)]

Elems(s) == {s[i] : i \in DOMAIN s}

(* The transaction sequences a peer may put into a block.                  *)
TxSeqs == UNION {[1 .. n -> Txs] : n \in 0 .. MaxBlockTxs}

(* The blocks a peer may send: any parent, accepted or not, any height up *)
(* to one past the next, any transactions.                                 *)
PeerBlocks ==
    [parent : 0 .. Len(chain), height : 1 .. Last(chain).height + 2,
     txs : TxSeqs]

(* The orders in which createNewBlock may find the mempool's entries: an   *)
(* unordered_map is iterated in an order the program does not fix.         *)
Orderings(S) ==
    {s \in UNION {[1 .. n -> S] : n \in 0 .. Cardinality(S)} :
        /\ Elems(s) = S
        /\ \A i, j \in DOMAIN s : i # j => s[i] # s[j]}

PcValues == {"idle", "rpc_insert", "proposed", "validating", "verified",
             "applying"}

----------------------------------------------------------------------------
(* loadState on an empty database: every genesis account is written with  *)
(* GenesisBalance and nonce 0 and read back into nativeAccount.            *)
Init ==
    /\ known = Genesis
    /\ balance = [a \in Addr |-> IF a \in Genesis THEN GenesisBalance ELSE 0]
    /\ nonce = [a \in Addr |-> 0]
    /\ mempool = {}
    /\ chain = << GenesisBlock >>
    /\ writer = NoThread
    /\ pc = [t \in Threads |-> "idle"]
    /\ ttx = [t \in Threads |-> NoTx]
    /\ vblk = [t \in Threads |-> GenesisBlock]
    /\ vidx = [t \in Threads |-> 1]
    /\ minted = [a \in Addr |-> 0]

(* The error code validateTransactionForRPC computes under the shared     *)
(* lock for a transaction whose signature verified; 0 is acceptance, a    *)
(* duplicate of a mempool entry included.                                  *)
AdmissionError(tx) ==
    CASE tx \in mempool                 -> 0
      [] tx.from \notin known           -> -32003
      [] balance[tx.from] < tx.value    -> -32002
      [] nonce[tx.from] # tx.nonce      -> -32001
      [] OTHER                          -> 0

(* Mutant: the accepted transaction is not kept for the insertion.        *)
RpcCheckNoCapture(t, tx) ==
    /\ pc[t] = "idle"
    /\ writer = NoThread
    /\ tx.sig
    /\ AdmissionError(tx) = 0
    /\ pc' = [pc EXCEPT ![t] = "rpc_insert"]
    /\ UNCHANGED <<known, balance, nonce, mempool, chain, writer, ttx, vblk,
                   vidx, minted>>

(* validateTransactionForRPC, first critical section: an unverified       *)
(* transaction returns before the lock; a rejected one returns after it;  *)
(* an accepted one goes on to the insertion.                               *)
RpcCheck(t, tx) ==
    /\ pc[t] = "idle"
    /\ writer = NoThread
    /\ tx.sig
    /\ AdmissionError(tx) = 0
    /\ pc' = [pc EXCEPT ![t] = "rpc_insert"]
    /\ ttx' = [ttx EXCEPT ![t] = tx]
    /\ UNCHANGED <<known, balance, nonce, mempool, chain, writer, vblk, vidx,
                   minted>>

(* validateTransactionForRPC, second critical section: the exclusive lock *)
(* is taken again and the transaction stored under its hash, whatever     *)
(* happened to the ledger since the check.                                 *)
RpcInsert(t) ==
    /\ pc[t] = "rpc_insert"
    /\ writer = NoThread
    /\ mempool' = mempool \cup {ttx[t]}
    /\ pc' = [pc EXCEPT ![t] = "idle"]
    /\ ttx' = [ttx EXCEPT ![t] = NoTx]
    /\ UNCHANGED <<known, balance, nonce, chain, writer, vblk, vidx, minted>>

(* getNativeBalance and getNativeNonce read nativeAccount[address] under  *)
(* the shared lock; operator[] inserts a zero entry for an absent address. *)
GetNativeBalance(a) ==
    /\ writer = NoThread
    /\ known' = known \cup {a}
    /\ UNCHANGED <<balance, nonce, mempool, chain, writer, pc, ttx, vblk,
                   vidx, minted>>

GetNativeNonce(a) ==
    /\ writer = NoThread
    /\ known' = known \cup {a}
    /\ UNCHANGED <<balance, nonce, mempool, chain, writer, pc, ttx, vblk,
                   vidx, minted>>

(* addBalance credits a fixed amount under the exclusive lock.             *)
AddBalance(a) ==
    /\ writer = NoThread
    /\ minted[a] < MaxMints
    /\ balance' = [balance EXCEPT ![a] = (@ + Faucet) % BalanceBound]
    /\ known' = known \cup {a}
    /\ minted' = [minted EXCEPT ![a] = @ + 1]
    /\ UNCHANGED <<nonce, mempool, chain, writer, pc, ttx, vblk, vidx>>

(* createNewBlock: the preferred block is looked up in the chain (no      *)
(* preference or an unknown one returns nullptr and changes nothing); a   *)
(* block on it is filled with the mempool's entries read under the shared *)
(* lock.  The validator transactions and finalizeBlock are modelled in    *)
(* ValidatorOrder.  The block then goes to validation like any other.     *)
CreateNewBlock(t) ==
    /\ pc[t] = "idle"
    /\ writer = NoThread
    /\ \E i \in DOMAIN chain, s \in Orderings(mempool) :
          vblk' = [vblk EXCEPT ![t] = [parent |-> i,
                                       height |-> chain[i].height + 1,
                                       txs |-> s]]
    /\ pc' = [pc EXCEPT ![t] = "proposed"]
    /\ UNCHANGED <<known, balance, nonce, mempool, chain, writer, ttx, vidx,
                   minted>>

(* A handler returns: the thread is idle and its locals are gone.         *)
Release(t) ==
    /\ pc' = [pc EXCEPT ![t] = "idle"]
    /\ vblk' = [vblk EXCEPT ![t] = GenesisBlock]
    /\ vidx' = [vidx EXCEPT ![t] = 1]

(* Mutant: the height check is left out.                                  *)
HeaderValidNoHeight(b) == b.parent = Len(chain)

(* The header checks of validateNewBlock: previous hash and height against *)
(* chainHead->latest(); blockManager->validateBlock is the validator       *)
(* collaborator's and is taken to accept.                                  *)
HeaderValid(b) ==
    /\ b.parent = Len(chain)
    /\ b.height = Last(chain).height + 1

(* Mutant: the signature check is left out.                               *)
ValidTxForBlockNoSig(tx) ==
    tx \notin mempool =>
        /\ tx.from \in known
        /\ balance[tx.from] >= tx.value
        /\ nonce[tx.from] = tx.nonce

(* validateTransactionForBlock: an unverified transaction fails; one in   *)
(* the mempool passes unchecked; otherwise the sender must exist, afford  *)
(* the value and have the transaction's nonce.                             *)
ValidTxForBlock(tx) ==
    /\ tx.sig
    /\ tx \notin mempool =>
          /\ tx.from \in known
          /\ balance[tx.from] >= tx.value
          /\ nonce[tx.from] = tx.nonce

(* validateNewBlock, header part: on a block from a peer or on the one    *)
(* this thread built.  ChainHead has its own lock, so this step does not  *)
(* wait for stateLock.                                                     *)
ValidateStart(t, b) ==
    /\ \/ pc[t] = "idle" /\ b \in PeerBlocks
       \/ pc[t] = "proposed" /\ b = vblk[t]
    /\ \/ /\ ~HeaderValid(b)
          /\ Release(t)
       \/ /\ HeaderValid(b)
          /\ vblk' = [vblk EXCEPT ![t] = b]
          /\ vidx' = [vidx EXCEPT ![t] = 1]
          /\ pc' = [pc EXCEPT ![t] = IF b.txs = << >> THEN "verified"
                                     ELSE "validating"]
    /\ UNCHANGED <<known, balance, nonce, mempool, chain, writer, ttx, minted>>

(* validateNewBlock, one transaction: validateTransactionForBlock under   *)
(* the shared lock; the first failure rejects the block.                   *)
ValidateTx(t) ==
    /\ pc[t] = "validating"
    /\ writer = NoThread
    /\ LET tx == vblk[t].txs[vidx[t]] IN
         \/ /\ ~ValidTxForBlock(tx)
            /\ Release(t)
         \/ /\ ValidTxForBlock(tx)
            /\ pc' = [pc EXCEPT ![t] = IF vidx[t] = Len(vblk[t].txs)
                                       THEN "verified" ELSE "validating"]
            /\ vidx' = [vidx EXCEPT ![t] = @ + 1]
            /\ UNCHANGED vblk
    /\ UNCHANGED <<known, balance, nonce, mempool, chain, writer, ttx, minted>>

(* Mutant: processNewBlock does not take stateLock.                        *)
ProcessNewBlockNoLock(t) ==
    /\ pc[t] = "verified"
    /\ writer = NoThread
    /\ vblk[t].parent = Len(chain)
    /\ Len(chain) < MaxChain
    /\ pc' = [pc EXCEPT ![t] = "applying"]
    /\ vidx' = [vidx EXCEPT ![t] = 1]
    /\ UNCHANGED <<known, balance, nonce, mempool, chain, writer, ttx, vblk, minted>>

(* The consensus layer accepts a verified block that extends the chain:   *)
(* processNewBlock takes stateLock exclusively.                            *)
ProcessNewBlock(t) ==
    /\ pc[t] = "verified"
    /\ writer = NoThread
    /\ vblk[t].parent = Len(chain)
    /\ Len(chain) < MaxChain
    /\ writer' = t
    /\ pc' = [pc EXCEPT ![t] = "applying"]
    /\ vidx' = [vidx EXCEPT ![t] = 1]
    /\ UNCHANGED <<known, balance, nonce, mempool, chain, ttx, vblk, minted>>

(* The consensus layer rejects a verified block.                           *)
RejectBlock(t) ==
    /\ pc[t] = "verified"
    /\ Release(t)
    /\ UNCHANGED <<known, balance, nonce, mempool, chain, writer, ttx, minted>>

(* The ledger after processNewTransaction(tx): the entry is removed from  *)
(* the mempool, the sender debited the value and then the fee, the        *)
(* recipient credited, the sender's nonce incremented, all unchecked.     *)
DebitValue(bal, tx) == [bal EXCEPT ![tx.from] = (@ - tx.value) % BalanceBound]
DebitFee(bal, tx) == [bal EXCEPT ![tx.from] = (@ - tx.fee) % BalanceBound]
Credit(bal, tx) == [bal EXCEPT ![tx.to] = (@ + tx.value) % BalanceBound]

ProcessNewTransaction(t) ==
    /\ pc[t] = "applying"
    /\ vidx[t] <= Len(vblk[t].txs)
    /\ LET tx == vblk[t].txs[vidx[t]] IN
         /\ mempool' = mempool \ {tx}
         /\ balance' = Credit(DebitFee(DebitValue(balance, tx), tx), tx)
         /\ nonce' = [nonce EXCEPT ![tx.from] = (@ + 1) % NonceBound]
         /\ known' = known \cup {tx.from, tx.to}
    /\ vidx' = [vidx EXCEPT ![t] = @ + 1]
    /\ UNCHANGED <<chain, writer, pc, ttx, vblk, minted>>

(* processNewBlock, end: the block is appended to the chain, the whole    *)
(* mempool cleared and stateLock released.                                 *)
FinishBlock(t) ==
    /\ pc[t] = "applying"
    /\ vidx[t] > Len(vblk[t].txs)
    /\ chain' = Append(chain, vblk[t])
    /\ mempool' = {}
    /\ writer' = NoThread
    /\ Release(t)
    /\ UNCHANGED <<known, balance, nonce, ttx, minted>>

Next ==
    \/ \E t \in Threads, tx \in Txs : RpcCheck(t, tx)
    \/ \E t \in Threads :
          \/ RpcInsert(t)
          \/ CreateNewBlock(t)
          \/ ValidateTx(t)
          \/ ProcessNewBlock(t)
          \/ RejectBlock(t)
          \/ ProcessNewTransaction(t)
          \/ FinishBlock(t)
    \/ \E t \in Threads : \E b \in PeerBlocks \cup {vblk[t]} : ValidateStart(t, b)
    \/ \E a \in Addr : GetNativeBalance(a) \/ GetNativeNonce(a) \/ AddBalance(a)

Spec == Init /\ [][Next]_vars

----------------------------------------------------------------------------
(* Every variable has the type the code gives it.                          *)
TypeOK ==
    /\ known \subseteq Addr
    /\ balance \in [Addr -> 0 .. BalanceBound - 1]
    /\ nonce \in [Addr -> 0 .. NonceBound - 1]
    /\ mempool \subseteq Txs
    /\ chain \in Seq(Blocks)
    /\ Len(chain) >= 1
    /\ writer \in Threads \cup {NoThread}
    /\ pc \in [Threads -> PcValues]
    /\ ttx \in [Threads -> Txs \cup {NoTx}]
    /\ vblk \in [Threads -> Blocks]
    /\ vidx \in [Threads -> Nat \ {0}]
    /\ minted \in [Addr -> Nat]

(* Chain linkage: every accepted block names the block before it as its   *)
(* parent and is one higher.  processNewBlock re-checks nothing, so this  *)
(* rests on validateNewBlock's header checks made by one thread before    *)
(* the consensus step and the exclusive lock that keeps the chain still   *)
(* while a block is applied.                                               *)
ChainLinked ==
    \A i \in 2 .. Len(chain) :
        /\ chain[i].parent = i - 1
        /\ chain[i].height = chain[i - 1].height + 1

(* Only signed transactions reach the ledger: every transaction of every  *)
(* accepted block verified, whether it came from a peer's block or from   *)
(* the mempool that createNewBlock drained.                                *)
AppliedTxsSigned ==
    \A i \in DOMAIN chain : \A j \in DOMAIN chain[i].txs : chain[i].txs[j].sig

(* A nonce moves only inside processNewBlock: the thread holding stateLock *)
(* exclusively increments, by one modulo 2^32, the nonce of the sender of  *)
(* the transaction it is applying, and no admission check or validation   *)
(* running under the shared lock ever sees it change.                      *)
NonceAdvance ==
    [][\A a \in Addr :
         nonce'[a] # nonce[a] =>
            /\ writer # NoThread
            /\ pc[writer] = "applying"
            /\ vblk[writer].txs[vidx[writer]].from = a
            /\ nonce'[a] = (nonce[a] + 1) % NonceBound]_vars

=============================================================================
