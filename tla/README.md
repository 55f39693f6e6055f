# TLA+ models of the cosmicsdk-cpp State engine

This directory holds TLA+ specifications of the subnet node's State engine
(`src/old_src/core/state.cpp`), of the block builder's validator ordering, of
the ledger's persistence and byte codecs, of the validator shuffle, of the
contract function registry and of the ChainTip block cache, with an abstract
specification of that cache. It also holds the TLC configurations that
model-check them on small instances, and TLAPS proofs, for every value of the
constants: of the engine's type invariant and chain linkage, of the contract
registry's dispatch and reachability, of the block builder's validator order,
and that ChainTip implements its abstract specification.

## 1. The system

The State engine is one object, shared by the RPC and P2P worker threads.
Its state is:

- `nativeAccount`: a map from address to `Account{balance: uint256_t, nonce: uint32_t}` (`utils.h` 195-198). `uint256_t` is unchecked and wraps (`utils.h` 21).
- `mempool`: a map from transaction hash to transaction.
- `stateLock`: a `std::shared_mutex` guarding both maps.
- The collaborators it is handed: the `ChainHead` (accepted chain), the `ChainTip` (undecided blocks and preference), and the `BlockManager` (validators, validator mempool, random list).

Its operations are:

| operation | lines | locking |
|---|---|---|
| `loadState` / `saveState` | 9-48 | exclusive |
| `validateTransactionForRPC` | 68-110 | shared check, then exclusive insert: two sections |
| `validateTransactionForBlock` | 50-66 | shared |
| `validateNewBlock` | 133-164 | header against `ChainHead`, then one shared section per transaction |
| `processNewBlock` → `processNewTransaction`* | 166-180, 112-128 | exclusive, held across all transactions |
| `createNewBlock` | 182-255 | shared for the mempool; validator ordering loop without lock |
| `getNativeBalance` / `getNativeNonce` | 257-271 | shared (but `operator[]` inserts) |
| `addBalance` | 273-277 | exclusive |

How the parts interact:

1. A client transaction enters through `validateTransactionForRPC` into the mempool.
2. `createNewBlock` drains the mempool into a block on the preferred tip and appends the validator transactions in protocol order.
3. Every block, own or from a peer, passes `validateNewBlock`.
4. The consensus layer decides acceptance.
5. `processNewBlock` applies the block's transactions, appends it to the chain and clears the mempool.

Other source files:

- `chainTip.cpp`: the blocks under consensus, their statuses and the preferred hash, under one lock.
- `utils.cpp`: byte codecs used by `loadState`/`saveState`, logging, hex.
- `randomgen.h`: the seeded shuffle used for the validator list.
- `dynamiccontract.h`: contract function registry and call dispatch.
- `p2pserver.h`: declarations only.
- `main.cpp`, `networkdeployer.cpp`: bootstrap.

### Hard behaviours, per component

- **State engine**
  - Interleaving of admissions, validations, block applications and queries on two threads.
  - The admission check and its insert are separate critical sections.
  - Validation of a block is spread over many shared sections, and the consensus decision comes between validation and application.
  - `processNewBlock` does not re-check the header.
  - Arithmetic wraps: uint256 fee debit, uint32 nonce.
- **Block builder**
  - The unordered iteration order of the validator mempool copy.
  - The copy is never refreshed; the loop has no exit but completion.
- **ChainTip**
  - Lookups with `operator[]` insert entries.
  - `processBlock` after `accept`.
- **Codecs**
  - `bytesToUint32` (utils.cpp 90-98) ORs into an uninitialised variable and sign-extends `char`.

## 2. Modules

| module | models | role |
|---|---|---|
| `StateCore` | state.cpp: ledger, mempool, chain, lock, all State handlers | component spec |
| `MCStateCore` | — | TLC instance: accounts, transactions, threads; the properties of the violation runs |
| `StateCoreProofs` | — | TLAPS proofs about `StateCore` |
| `ValidatorOrder` | state.cpp 210-254: validator ordering loop of `createNewBlock` | component spec |
| `MCValidatorOrder` | — | TLC instance: three validators, minValidators = 2 |
| `LedgerStore` | state.cpp 5-48 (construction, `loadState`, `saveState`) and utils.cpp 14-22, 47-54, 62-67, 90-98 (codecs) | component spec |
| `MCLedgerStore` | — | TLC instance: two accounts, two-byte encodings |
| `RandomGen` | randomgen.h 31-58: seed, `shuffle`, `setSeed` | component spec and reference |
| `MCRandomGen` | — | TLC instance: three validators, 18 seeds |
| `ContractRegistry` | dynamiccontract.h 55-58, 117-187, 265-405, 417-493: registration and dispatch | component spec |
| `MCContractRegistry` | — | TLC instance: three contracts, eight selectors |
| `ContractRegistryProofs` | — | TLAPS proofs about `ContractRegistry` |
| `ChainTipCache` | — | abstract specification: what ChainTip promises its callers |
| `ChainTip` | chainTip.cpp 3-65 and utils.h 54: every ChainTip method | component spec, refines `ChainTipCache` |
| `MCChainTip` | — | TLC instance: two block hashes |
| `ChainTipProofs` | — | TLAPS proofs about `ChainTip`, the refinement included |
| `ValidatorOrderProofs` | — | TLAPS proofs about `ValidatorOrder` |
| `RandomGenProofs` | — | TLAPS lemma about one iteration of the shuffle loop |

### StateCore: state and actions

Variables:

- `known`: the keys of `nativeAccount`.
- `balance`, `nonce`: the account fields, 0 for an absent key.
- `mempool`: a set of transaction records. A record is its own hash.
- `chain`: the accepted blocks.
- `writer`: the thread holding `stateLock` exclusively across the steps of `processNewBlock`.
- Thread-local state: `pc`, `ttx` (the transaction between check and insert), `vblk`, and `vidx` (the next transaction index).
- `minted`: a history variable counting `addBalance` calls.

Data abstraction:

- Block parent hashes are positions in the chain; 0 is any hash that is not on the chain. The ChainHead never forks.
- uint256 wraps modulo `BalanceBound` and uint32 wraps modulo `NonceBound`.

Actions:

| action | code |
|---|---|
| `RpcCheck(t, tx)` | 68-103: signature check, then the shared section computing `AdmissionError` |
| `RpcInsert(t)` | 104-108: the exclusive insert |
| `CreateNewBlock(t)` | 182-208: preference lookup and the mempool drained in any iteration order (`Orderings`) |
| `ValidateStart(t, b)` | 133-153: header check against the tip, on a peer's block or the thread's own |
| `ValidateTx(t)` | 155-160: `validateTransactionForBlock` (50-66) under the shared lock, one transaction per step |
| `ProcessNewBlock(t)` | 166-171: takes the exclusive lock |
| `ProcessNewTransaction(t)` | 112-128: one per transaction |
| `FinishBlock(t)` | 176-179: append, clear the mempool, unlock |
| `GetNativeBalance`, `GetNativeNonce`, `AddBalance` | 257-277 |
| `RejectBlock(t)` | the consensus layer's refusal |

Guards and the environment:

- Every step that takes `stateLock` requires `writer = NoThread`.
- The header step does not take it, because ChainHead has its own lock.
- The consensus layer (not in this repository) is the environment. `ProcessNewBlock` requires that the verified block extends the current tip; otherwise the block waits or is rejected.
- `processNewBlock` itself reads `chainHead->latest()` (line 170) and never compares it with the block's parent. Because the guard belongs to the environment, that gap is assumed away rather than checked: `ChainLinked` tests the header check of `validateNewBlock` and the exclusive lock, not a consensus layer that accepts a stale block.

### LedgerStore

Variables:

- `known`, `balance`, `nonce`: the ledger, as in `StateCore`.
- `db`: the `nativeAccounts` records in the database, each a sequence of chars.
- `saved`: a history variable holding the balance and nonce each record was written from.
- `fresh`: a history variable, true while the ledger is exactly what `loadState` read.

The codecs are modelled on bytes:

- `ToChar` stores a byte into a `char`. Whether `char` is signed is the constant `CharSigned`, a choice of the build.
- `Uint256ToBytes` and `Uint32ToBytes` write big-endian bytes.
- `BytesToUint256` is `import_bits`: big-endian, each char masked to 8 bits.
- `BytesToUint32` follows lines 92-96. Each char is promoted to `int` (sign-extending a signed one), shifted, and ORed (`Bitwise`) into `ret`. `ret` is never initialised, so its first value is any of `Garbage`.

Actions:

- `Init` = `loadState` on an empty database: write the genesis records and read them back.
- `Apply(a, b)` = the ledger change of `processNewTransaction`: a new balance and a wrapped nonce increment.
- `SaveState` = `saveState`: one batch holding a record for every account.
- `Restart` = a new `State` constructed on the non-empty database, whose `loadState` decodes every record.

### RandomGen

Variables: `seed`, and `list`, the vector last shuffled (the validator list).

- `Draws(s, n)` is the hash chain of line 53: draw i is `seed` hashed i times.
- `Permute(v, r)` is the loop of lines 52-57 on given draws: iteration i swaps `v[i]` with `v[i + r[i] % (size - i)]`.
- `Shuffle` is the whole of `shuffle` under `seedLock`: the list is permuted, and the seed ends hashed once per element.
- `SetSeed(s)` is `setSeed`.

`getSeed`, `min` and `max` change nothing. `UniformShuffle` compares `Permute` with the reference definition of a fair shuffle: it counts, over every sequence of draws, how often each arrangement comes out.

### ContractRegistry

Variables, per contract instance:

- `publicFns`, `payableFns`, `viewFns`: the three maps from selector to function. `NoMethod` means no entry.
- `phase`: constructed, registering, ready, or failed (registration threw).
- `pending`: the functions the derived class has still to register. They are registered in any order.
- `registered` and `lastCall`: history variables.

A member function is a record of what `registerMemberFunction` learns of it:

- whether its C++ type is const;
- whether it takes arguments;
- whether reflection says it has arguments;
- its reflected mutability.

`Selector` stands for the first 4 bytes of sha3 of the full signature.

- `Target(m)` is overload resolution. Each of the four `Target...` operators translates one overload's checks: the `hasArgs` throw, the mutability table and the "View must be const" throw.
- `RegisterMemberFunction` files the function through `Store`, the map assignment of `registerFunction`, `registerPayableFunction` or `registerViewFunction`. A throw fails the contract.
- `EthCall` and `EthCallView` dispatch as lines 442-484 do.
- `Invoke` is the registered lambda with `tryCallFuncWithTuple` (197-257). A function without arguments ignores the calldata. One with arguments throws when the calldata does not decode.

### ChainTip and ChainTipCache

`ChainTip` keeps the code's two `std::unordered_map`s as functions whose domain is the set of keys present:

- `internalChainTip`: hash to block, `NoBlock` for a null `shared_ptr`. A block is identified by its hash, as `processBlock` files it under `getBlockHash()`.
- `cachedBlockStatus`: hash to `BlockStatus`.
- `preferedBlockHash`: `NoHash` for the empty string it starts as.
- `answer`: the last query and what it returned.

The map helpers are the container's operations: `Assign` (`m[k] = v`), `Erase`, `Lookup` (what `m[k]` yields) and `Touch` (what `m[k]` leaves behind). `Touch` inserts the value-initialised entry: a null block, or `BlockStatus` 0, which is `Unknown` (utils.h 54). Each method is one action, atomic because it runs whole under `internalChainTipLock`. `accept` and `reject` are `Decide(h, s)`.

`ChainTipCache` is what a caller may rely on:

- every hash has a status (`Unknown` until set) and a block or none;
- a query answers from these and changes nothing;
- `accept` and `reject` take the block out and decide the status;
- `processBlock` puts it in as `Processing`.

`ChainTip` instantiates it as `Cache` with the refinement mapping that reads a missing key as the entry `operator[]` would insert. `CacheSpec == Cache!Spec`. So the entries that `getBlock`, `getBlockStatus` and `isProcessing` insert (line 49's growing map of nulls among them) must never change a later answer, `erase` must leave a hash as it was before `processBlock`, and a query must not write. The abstract spec allows `processBlock` after a decision, as the code does. Whether that may happen is the consensus engine's rule, and that engine is not in this repository.

### ValidatorOrder

Variables:

- `bmMempool`: the BlockManager's validator mempool. Transactions arrive at any time.
- `copy`: `validatorsMempool`, in one of its iteration orders.
- `vtxs`: `validatorTxs`.
- `pos`: the position in the inner `for` loop.
- `phase`: before the copy, scanning, or finalized.

Actions:

- `TakeCopy` = lines 210-211.
- `Scan` = one iteration of the `for` loop at 227-240, including the `while` restart at 226.
- `Restart` = finalize and the next `createNewBlock`.
- `Slot(i)` is the protocol's order written independently of the loop. It is the reference `OrderRespected` compares with.

## 3. Runs

| run | cfg | expect | properties | shows |
|---|---|---|---|---|
| core_linkage | MCStateCore.cfg | pass | TypeOK, ChainLinked, AppliedTxsSigned, NonceAdvance | every interleaving of two threads keeps the chain linked, applies only signed transactions, and changes a nonce only in the thread applying a block under the exclusive lock |
| fee_underflow | MCStateCore_Drain.cfg | violation | SupplyConserved | the fee debit wraps the balance (state.cpp 122): coins are created |
| same_nonce_double_apply | MCStateCore_SameNonce.cfg | violation | AppliedNoncesInOrder | two same-nonce mempool transactions are both applied (state.cpp 54) |
| stale_admission_replay | MCStateCore_Replay.cfg | violation | NoReplay | check, block applies tx, insert: tx applied twice (state.cpp 80-107) |
| query_creates_account | MCStateCore_Empty.cfg | violation | MempoolSendersExist | getNativeBalance creates an account, whose transactions are then admitted (state.cpp 260) |
| validator_order | MCValidatorOrder.cfg | pass | TypeOK, OrderRespected, CompleteCopyFinishes | any iteration order gives protocol order; a complete copy always finishes |
| ledger_round_trip | MCLedgerStore.cfg | pass | TypeOK, BalancesRestored | balances with bytes of 128 or more survive save and reload with signed `char` |
| nonce_sign_extension | MCLedgerStore_Sign.cfg | violation | NoncesRestored | with signed `char`, nonce 128 is saved and reloaded as 0xFF80 (utils.cpp 93-96) |
| shuffle_uniform | MCRandomGen.cfg | pass | TypeOK, UniformShuffle | shuffles keep an arrangement of the validators, and every arrangement comes from equally many draw sequences |
| contract_dispatch | MCContractRegistry.cfg | pass | CallsMatchRegistration, RegisteredReachable | dispatch runs only what was registered for the call's kind, and all that was registered stays reachable |
| builder_stale_copy_wait | MCValidatorOrder_Wait.cfg | violation | ArrivalsFinish | a copy taken early never finishes, whatever arrives later (state.cpp 210, 226) |
| chain_tip_cache | MCChainTip.cfg | pass | CacheSpec | every sequence of ChainTip calls, lookups of unknown and decided hashes included, is a behaviour of `ChainTipCache` |

### Bounds

`MCStateCore`:

- Two threads (symmetric), which is enough for every race between two handlers.
- Two accounts, one of them genesis, with `GenesisBalance = 2`, `BalanceBound = 8` and `NonceBound = 4`.
- Up to 3 blocks (genesis included), blocks of at most one peer transaction, and one `addBalance` per address.

Each violation run uses the one to three transactions its scenario needs:

- a transaction spending the whole balance and paying a fee;
- two transactions with the same nonce;
- one transaction that is replayed;
- one from a non-genesis address.

The passing run uses a signed payment, a zero-value transaction of the non-genesis account, and a forged one. Between them these exercise the signature, unknown-sender, mempool-skip and header-rejection paths. With a larger transaction set the run takes minutes without reaching a new kind of step.

`MCLedgerStore`:

- The encodings are 2 bytes wide instead of 32 and 4, because TLC's integers are 32-bit. Two bytes are enough for every case the codecs distinguish: a high byte and a low byte, each of which may or may not have its top bit set.
- The balances 1, 200 and 40000 cover a plain byte, a low byte of 128 or more, and a high byte of 128 or more.
- Two accounts (one genesis), at most 2 applied transactions each in the passing run. The sign run allows 130, so that a nonce reaches 128.
- Garbage is `{0, 5}` in the passing run. Loaded nonces may therefore be wrong there, which `TypeOK` must tolerate; the run checks only balances. The sign run fixes Garbage to `{0}`, so that its counterexample shows the sign extension alone. With any non-zero value in Garbage, `NoncesRestored` fails already in the initial state: the uninitialised `ret` of utils.cpp 92 corrupts every loaded nonce, whatever the signedness of `char`.

`MCRandomGen`:

- Three validators and 18 seed values. 18 is divisible by 3, 2 and 1 (every `size - i`), so the modulo is exactly unbiased. With 2^256 seeds the bias is below 2^-250.
- The hash `(s*s + 1) % 18` is deliberately not a permutation.
- Uniformity is a statement over all draw sequences, independent of the hash.

`MCContractRegistry`:

- `c1` registers one function of every kind that can succeed: const view without arguments, non-const nonpayable, payable with arguments, const view with arguments, and const nonpayable with arguments.
- `c2` also registers a non-const view, which throws.
- `c3` does not override `registerContractFunctions`.
- Eight selectors, so calls also hit selectors with no entry.
- Selectors are distinct, as sha3 makes them for real signatures. With a selector function that maps two signatures to one value, `RegisteredReachable` fails: the second registration silently replaces the first (line 57).
- `ethCall` never reads the call's value (lines 442-457). A non-payable function therefore runs for a transaction that carries value. What happens to that value is decided by the ContractManager, which is not in this repository, so no property is stated.

`MCChainTip` has two block hashes: a query of one can fall between a `processBlock` and an `accept` of the other, and both maps reach every combination of missing, null or filed and of the four statuses (9,427 states). Every method is atomic, so more hashes add no new kind of step; the proof covers every set of hashes.

`MCValidatorOrder` has three validators (this node plus two), `minValidators = 2`, the four wanted transactions, and a decoy randomHash of this node.

### Fairness

`ValidatorOrder` assumes weak fairness of `Scan`, `TakeCopy`, `Restart` and each `Arrive`:

- The builder thread spins without blocking.
- `createNewBlock` is called again for the next block.
- Validators keep sending their transactions.

`StateCore` states no liveness and no fairness. `CHECK_DEADLOCK FALSE` appears only in the two `ValidatorOrder` configurations (`MCValidatorOrder.cfg` and `MCValidatorOrder_Wait.cfg`), because the builder really may spin forever.

## 4. Proofs (TLAPS)

- **`TypeCorrect: Spec => []TypeOK`.**
  - `TypeOK` alone is not inductive: `RpcInsert` puts `ttx[t]` into the mempool.
  - It is strengthened to `TypeInv`, which adds `pc[t] = "rpc_insert" => ttx[t] \in Txs`.
  - The proof is `InitTypeInv` plus `NextTypeInv`, with one step per action.
  - It rests on these lemmas:
    - `OrderingsType`: an ordering of the mempool is a sequence of transactions.
    - `PeerBlocksType`, `LastBlock`.
    - `ModRange`: unsigned wrap stays in range.
    - `TransferType`: the three balance updates of `processNewTransaction`.
    - `ReleaseType`.
- **`ChainLinkedHolds: Spec => []ChainLinked`.** The inductive invariant `LinkInv` is `TypeInv /\ Linkage`. `Linkage` adds the following to `ChainLinked`:
  - the exclusive holder `writer` is the applying thread;
  - an applying thread's block has the current tip as parent;
  - every thread's block names a parent at most `Len(chain)`;
  - a validating, verified or applying block that names the current tip is one higher than the tip (`OnTip`).

  This is the argument the code relies on: `processNewBlock` appends without re-checking, so the header check of `validateNewBlock` must stay valid until the append. The exclusive lock keeps other appends out. A block validated against an older tip cannot name the current one, because the chain only grows. `LinkInv` was checked with TLC on the `core_linkage` instance before it was proved. `QuietStep` and `ReleaseQuiet` factor out the steps that do not touch the chain or the validation states.

- **`AppliedTxsSignedHolds: Spec => []AppliedTxsSigned`.** A signature is checked in two places: `validateTransactionForRPC` before admission, and `validateTransactionForBlock` for each transaction of a block under validation. `createNewBlock` fills a block from the mempool without checking again. So `AppliedTxsSigned` alone is not inductive, and `SigInv` adds where each transaction was checked:
  - every mempool entry, and every transaction an admitting thread holds between its two critical sections, verified;
  - a validating thread has checked every transaction before its index `vidx`;
  - a proposed, verified or applying block holds only verified transactions (`SigDone`).

  `SigInv` was checked with TLC on the `core_linkage` instance (84,370 states) before it was proved. The lemmas are:
  - `OrderingsElems`: a block built from the mempool holds mempool entries;
  - `SigFrame`: a thread whose locals a step leaves alone keeps what it checked;
  - `ReleaseSig`: a thread that returns has nothing left to account for.
- **`NonceAdvanceHolds: Spec => NonceAdvance`**, an action property. Only `processNewTransaction` writes a nonce (line 124), as `OnlyApplyMovesNonces` states. That runs only in a thread whose `pc` is `applying`, and `LinkInv` says such a thread is the exclusive holder `writer`. So the proof is `NonceStep`: `LinkInv /\ [Next]_vars` implies the step `NonceMoves`, and PTL lifts it with `[]LinkInv`.

The constants' assumptions are `ConstantsAssumption` in `StateCore`:

- the bounds are positive naturals;
- the transactions are records of the right shape;
- `NoThread` and `NoTx` are fresh.

**`ContractRegistryProofs`** proves `RegistryTypeCorrect: Spec => []TypeOK` and `CallsMatchRegistrationHolds: Spec => []CallsMatchRegistration`. They hold for every set of contracts and functions and every selector function, colliding selectors included.

- The inductive invariant `RegInv` adds to `TypeOK` that every entry of every map is filed (`Filed`): it is under its own selector, it was registered, and `Target` chose that map for it.
- It also adds that the last dispatch ran a filed function of its kind (`CallFiled`).
- `CallsMatchRegistration` alone is not inductive, because it says nothing of the maps a later call reads.
- The lemma `TargetKinds` states what overload resolution can decide: the view map gets only const views, and the transaction maps never get a view.
- `StoreFiled` shows that a registration keeps every map filed, even when it overwrites an entry.
- **`RegisteredReachableHolds`** proves `Spec => []RegisteredReachable` under the hypothesis `DistinctSelectors`: no two functions of one contract share a selector. The property fails without it, because a second registration under a selector silently replaces the first (line 57).
  - The inductive invariant `ReachInv` adds two facts to `RegInv`. `Origin` says that registrations come from the class's own functions. `Reach` says that every registered function is still the entry under its selector in the map `Target` chose for it.
  - `NextReach` uses the hypothesis where a registration stores into a map. An entry it replaces has the same selector, so it is the same function.
  - `ReachInvReachable` turns `Reach` into dispatch. A public function is found by `ethCall` because the payable map has no entry under its selector: such an entry would be a registered payable function with that selector, hence the function itself, which `Target` filed as public.

**`ChainTipProofs`** proves `ChainTipTypeCorrect: Spec => []TypeOK` and `ChainTipRefinesCache: Spec => CacheSpec`, for every set of hashes, along the standard refinement argument:

- `InitRefines`: the initial empty maps map to the abstract initial state.
- `NextRefines`: under `TypeOK`, every step maps to a step of `ChainTipCache` or a stutter. There is one step per method.
- The lemmas `AssignView`, `TouchView` and `EraseView` state what each map operation does to the map's view through `Lookup`. An assignment changes one entry, a read that inserts changes none, and an erase resets one entry to the default. These are the facts on which the refinement rests.

**`ValidatorOrderProofs`** proves `OrderRespectedHolds: Spec => []OrderRespected` and `OrderTypeCorrect: Spec => []TypeOK`, for every random list, `minValidators` and set of validator transactions.

- `OrderRespected` alone is not inductive: a scanning builder with all `2 * minValidators` transactions could append one more. The inductive invariant `OrderInv` adds `TypeOK` and that a scanning builder has fewer than `2 * minValidators` (the loop breaks as soon as it has them).
- `WantedSlot` is the arithmetic at the heart of it: the 0-based, this-node-skipping index that the loop tests (`size + 2`, `size - minValidators + 2`) is the protocol's slot `size + 1`.
- `OrderingsSeq`: an iteration order of the copy is a sequence of transactions, so `TakeCopy` keeps the types whatever order it picks.
- Only the safety half is proved; `Spec` has fairness conjuncts, which the proof drops (`Spec => Init /\ [][Next]_vars`).

**`RandomGenProofs`** proves the lemma `SwapArrangement`: one `std::swap` of the loop keeps the vector an arrangement of the validators. The permutation behind it is the old one with two entries exchanged. This is the induction step of `RandomGen`'s `TypeOK`; the induction itself stays with TLC (below).

`RegistryAssumption`, `ChainTipAssumption`, `OrderAssumption` and `RandomGenAssumption` are checked by TLC on every run of their modules.

The following stay with TLC only:

- the six properties of the violation runs, which the code breaks;
- `RandomGen`'s `TypeOK` and `UniformShuffle`. That the shuffle is a permutation, and that it is uniform, are statements about a recursive function (the loop `st` of `Permute`) over all inputs. Proving them needs induction over data, which the provers here cannot instantiate. The induction step is proved (`SwapArrangement`); the induction over the loop is not;
- `LedgerStore`'s `TypeOK` and `BalancesRestored`, the round trip of the codecs. The codecs use `Bitwise`, which a module with a theorem cannot reach;
- the liveness properties of `ValidatorOrder`, `CompleteCopyFinishes` and `ArrivalsFinish` (the prover does not handle liveness under fairness).

## 5. Not modelled

- **The other codecs of utils.cpp.** The 64-, 160- and 8-bit codecs, hex conversion and sha3 are not on the modelled paths. `bytesToUint64` has the same uninitialised, sign-extending pattern as `bytesToUint32`.
- **Transfers in LedgerStore.** The module abstracts a transaction to its effect on one account; the transfer itself is in `StateCore`. The two modules share no variables.
- **ChainTip's callers.** The consensus engine that calls `processBlock`, `accept` and `reject` is not in this repository, so `ChainTip` takes calls in any order. `processBlock` after `accept` reopens a decided block (chainTip.cpp 42), and no statement here says whether it may. The maps grow with every lookup of a new hash (49). The refinement shows the growth is harmless to answers, but a fixed set of hashes cannot show its size.
- **The rest of `DynamicContract`.** This covers calls to other contracts, contract creation and `sendTokens`: they forward to a ContractManager that is not in this repository. It also covers ABI decoding of arguments: `castFunctions` narrows out-of-range integers silently (line 290), a hazard with no property, because the repository states nothing about such arguments.
- **`RandomGen::operator()`.** It is declared but not defined here.
- **The BlockManager and consensus layer.** They are not in this repository; they are the environment.
- **P2P, bootstrap and logging.** These are I/O or declarations.
