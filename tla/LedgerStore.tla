----------------------------- MODULE LedgerStore -----------------------------
(***************************************************************************)
(* Persistence of the native ledger: State::saveState writes every account *)
(* as uint256ToBytes(balance) ++ uint32ToBytes(nonce) and State::loadState *)
(* reads the records back with bytesToUint256 and bytesToUint32 when a new *)
(* State is constructed (old_src/core/state.cpp, src/utils.cpp).           *)
(*                                                                         *)
(* The codecs are modelled by what they do on bytes.  A byte is stored in *)
(* a std::string, whose char is signed or unsigned as the build decides   *)
(* (CharSigned).  bytesToUint32 ORs into a uint32_t that is never          *)
(* initialised: its first value is any of Garbage.  The encodings are      *)
(* BalanceBytes and NonceBytes wide (32 and 4 in the code).                *)
(***************************************************************************)
EXTENDS Integers, Sequences, FiniteSets, Bitwise

CONSTANTS
    Addr,            \* account addresses
    Genesis,         \* the accounts loadState seeds on an empty database
    GenesisBalance,  \* the balance each of them is seeded with
    Balances,        \* the balances transactions may leave an account with
    BalanceBytes,    \* width of the balance encoding (32)
    NonceBytes,      \* width of the nonce encoding (4)
    MaxNonce,        \* bound: transactions applied per account
    CharSigned,      \* whether char is signed in this build
    Garbage          \* the values an uninitialised uint32_t may hold

BalanceBound == 256 ^ BalanceBytes
NonceBound == 256 ^ NonceBytes

ASSUME StoreAssumption ==
    /\ Genesis \subseteq Addr
    /\ BalanceBytes \in Nat \ {0}
    /\ NonceBytes \in Nat \ {0}
    /\ GenesisBalance \in 0 .. BalanceBound - 1
    /\ Balances \subseteq 0 .. BalanceBound - 1
    /\ MaxNonce \in 0 .. NonceBound - 1
    /\ CharSigned \in BOOLEAN
    /\ Garbage \subseteq 0 .. NonceBound - 1

VARIABLES
    known,     \* the addresses that have an entry in nativeAccount
    balance,   \* nativeAccount[a].balance (0 for an absent entry)
    nonce,     \* nativeAccount[a].nonce (0 for an absent entry)
    db,        \* the nativeAccounts records in the database
    saved,     \* history: the balance and nonce each record was written from
    fresh      \* history: the ledger was loaded and has not changed since

vars == <<known, balance, nonce, db, saved, fresh>>

----------------------------------------------------------------------------
(* A byte value 0 .. 255 stored into a char.                               *)
ToChar(v) == IF CharSigned /\ v >= 128 THEN v - 256 ELSE v

(* The w big-endian bytes of i, as chars.                                  *)
BigEndian(i, w) == [k \in 1 .. w |-> ToChar((i \div 256 ^ (w - k)) % 256)]

(* uint256ToBytes: export_bits writes the significant bytes, which are    *)
(* copied right-aligned into 32 zero bytes.                                *)
Uint256ToBytes(i) == BigEndian(i, BalanceBytes)

(* uint32ToBytes: ret[k] = i >> 8 * (3 - k), truncated to a char.         *)
Uint32ToBytes(i) == BigEndian(i, NonceBytes)

(* Mutant: the chars are read as they are, not masked to 8 bits.          *)
BytesToUint256NoMask(s) ==
    LET acc[k \in 0 .. BalanceBytes] ==
            IF k = 0 THEN 0 ELSE acc[k - 1] * 256 + s[k]
    IN  acc[BalanceBytes]

(* Mutant: import_bits told the least significant byte comes first.       *)
BytesToUint256LittleEndian(s) ==
    LET acc[k \in 0 .. BalanceBytes] ==
            IF k = 0 THEN 0
            ELSE acc[k - 1] + (s[k] % 256) * 256 ^ (k - 1)
    IN  acc[BalanceBytes]

(* bytesToUint256: import_bits reads the bytes most significant first,    *)
(* each masked to its 8 bits.                                              *)
BytesToUint256(s) ==
    LET acc[k \in 0 .. BalanceBytes] ==
            IF k = 0 THEN 0 ELSE acc[k - 1] * 256 + (s[k] % 256)
    IN  acc[BalanceBytes]

(* bytesToUint32 from the initial value g of ret: each char is promoted   *)
(* to int, which sign-extends a signed one, shifted into place, converted *)
(* to uint32_t and ORed into ret.                                          *)
BytesToUint32(s, g) ==
    LET acc[k \in 0 .. NonceBytes] ==
            IF k = 0 THEN g
            ELSE acc[k - 1] | ((s[k] * 256 ^ (NonceBytes - k)) % NonceBound)
    IN  acc[NonceBytes]

(* The record saveState writes for an account.                             *)
Record(b, n) == Uint256ToBytes(b) \o Uint32ToBytes(n)

(* The ledger loadState reads from the records d, each nonce decoded from *)
(* the garbage g[a] its ret starts with.                                   *)
LoadedBalance(d) ==
    [a \in Addr |-> IF a \in DOMAIN d
                    THEN BytesToUint256(SubSeq(d[a], 1, BalanceBytes)) ELSE 0]

LoadedNonce(d, g) ==
    [a \in Addr |-> IF a \in DOMAIN d
                    THEN BytesToUint32(SubSeq(d[a], BalanceBytes + 1,
                                              BalanceBytes + NonceBytes), g[a])
                    ELSE 0]

----------------------------------------------------------------------------
(* The first State on an empty database: loadState writes the genesis     *)
(* records and reads them back.                                            *)
Init ==
    /\ db = [a \in Genesis |-> Record(GenesisBalance, 0)]
    /\ saved = [a \in Genesis |-> <<GenesisBalance, 0>>]
    /\ known = Genesis
    /\ balance = LoadedBalance(db)
    /\ \E g \in [Genesis -> Garbage] : nonce = LoadedNonce(db, g)
    /\ fresh = TRUE

(* processNewTransaction changes an account: the sender's balance and an  *)
(* increment of its nonce (the transfer itself is modelled in StateCore). *)
Apply(a, b) ==
    /\ nonce[a] < MaxNonce
    /\ known' = known \cup {a}
    /\ balance' = [balance EXCEPT ![a] = b]
    /\ nonce' = [nonce EXCEPT ![a] = (@ + 1) % NonceBound]
    /\ fresh' = FALSE
    /\ UNCHANGED <<db, saved>>

(* saveState: one batch with a record for every entry of nativeAccount;   *)
(* records of other addresses stay in the database.                        *)
SaveState ==
    /\ db' = [a \in DOMAIN db \cup known |->
                IF a \in known THEN Record(balance[a], nonce[a]) ELSE db[a]]
    /\ saved' = [a \in DOMAIN saved \cup known |->
                   IF a \in known THEN <<balance[a], nonce[a]>> ELSE saved[a]]
    /\ UNCHANGED <<known, balance, nonce, fresh>>

(* The node restarts: a new State is constructed on the non-empty         *)
(* database and loadState reads every record.                              *)
Restart ==
    /\ known' = DOMAIN db
    /\ balance' = LoadedBalance(db)
    /\ \E g \in [DOMAIN db -> Garbage] : nonce' = LoadedNonce(db, g)
    /\ fresh' = TRUE
    /\ UNCHANGED <<db, saved>>

Next ==
    \/ \E a \in Addr, b \in Balances : Apply(a, b)
    \/ SaveState
    \/ Restart

Spec == Init /\ [][Next]_vars

----------------------------------------------------------------------------
(* Every variable has the type the code gives it.                          *)
TypeOK ==
    /\ known \subseteq Addr
    /\ balance \in [Addr -> 0 .. BalanceBound - 1]
    /\ nonce \in [Addr -> 0 .. NonceBound - 1]
    /\ DOMAIN db \subseteq Addr
    /\ fresh \in BOOLEAN

(* Round trip of the balances (spec: saveToStorage then loadFromStorage   *)
(* reproduces every balance): a freshly loaded ledger holds the balance   *)
(* each record was saved from, whatever the signedness of char.            *)
BalancesRestored ==
    fresh => \A a \in DOMAIN saved : balance[a] = saved[a][1]

(* Round trip of the nonces: a freshly loaded ledger holds the nonce each *)
(* record was saved from.  bytesToUint32 must decode what uint32ToBytes   *)
(* encoded.                                                                *)
NoncesRestored ==
    fresh => \A a \in DOMAIN saved : nonce[a] = saved[a][2]

=============================================================================
