------------------------------- MODULE ChainTip -------------------------------
(***************************************************************************)
(* ChainTip (src/core/chainTip.cpp): the blocks under consensus, kept in   *)
(* two std::unordered_maps keyed by block hash, internalChainTip (hash ->  *)
(* shared_ptr<Block>) and cachedBlockStatus (hash -> BlockStatus), and the *)
(* preferred block hash.  Every method runs whole under                    *)
(* internalChainTipLock, so each is one atomic step whatever the threads   *)
(* calling it.                                                             *)
(*                                                                         *)
(* A map is a function whose domain is its set of keys.  operator[] on a  *)
(* missing key inserts a value-initialised entry: a null shared_ptr        *)
(* (NoBlock), or BlockStatus 0, which is Unknown (utils.h line 54).  A     *)
(* block is identified by its hash, as processBlock files it under         *)
(* getBlockHash().                                                         *)
(***************************************************************************)
CONSTANTS Hashes, NoBlock, NoHash

BlockStatus == {"Unknown", "Processing", "Rejected", "Accepted"}

ASSUME ChainTipAssumption ==
    /\ NoBlock \notin Hashes
    /\ NoHash \notin Hashes

VARIABLES
    internalChainTip,    \* hash -> block, NoBlock for a null shared_ptr
    cachedBlockStatus,   \* hash -> BlockStatus
    preferedBlockHash,   \* NoHash for the empty string it starts as
    answer               \* the last query and what it returned

vars == <<internalChainTip, cachedBlockStatus, preferedBlockHash, answer>>

----------------------------------------------------------------------------
(* map[k] = v                                                              *)
Assign(m, k, v) == [x \in DOMAIN m \cup {k} |-> IF x = k THEN v ELSE m[x]]

(* The entry map[k] yields, d (the value-initialised one) if k is missing. *)
Lookup(m, k, d) == IF k \in DOMAIN m THEN m[k] ELSE d

(* The map after map[k] is read: a missing k is inserted with d.           *)
Touch(m, k, d) == IF k \in DOMAIN m THEN m ELSE Assign(m, k, d)

(* map.erase(k)                                                            *)
Erase(m, k) == [x \in DOMAIN m \ {k} |-> m[x]]

NoAnswer == [op |-> "none", arg |-> NoHash, val |-> NoHash]

Init ==
    /\ internalChainTip = [x \in {} |-> NoBlock]
    /\ cachedBlockStatus = [x \in {} |-> "Unknown"]
    /\ preferedBlockHash = NoHash
    /\ answer = NoAnswer

(* setBlockStatus (lines 3-7).                                             *)
SetBlockStatus(h, s) ==
    /\ cachedBlockStatus' = Assign(cachedBlockStatus, h, s)
    /\ UNCHANGED <<internalChainTip, preferedBlockHash, answer>>

(* getBlockStatus (lines 9-14).                                            *)
GetBlockStatus(h) ==
    /\ cachedBlockStatus' = Touch(cachedBlockStatus, h, "Unknown")
    /\ answer' = [op |-> "getBlockStatus", arg |-> h,
                  val |-> Lookup(cachedBlockStatus, h, "Unknown")]
    /\ UNCHANGED <<internalChainTip, preferedBlockHash>>

(* Mutant: the comparison of line 18 written as an assignment.            *)
IsProcessingAssign(h) ==
    /\ cachedBlockStatus' = Assign(cachedBlockStatus, h, "Processing")
    /\ answer' = [op |-> "isProcessing", arg |-> h, val |-> TRUE]
    /\ UNCHANGED <<internalChainTip, preferedBlockHash>>

(* isProcessing (lines 16-21).                                             *)
IsProcessing(h) ==
    /\ cachedBlockStatus' = Touch(cachedBlockStatus, h, "Unknown")
    /\ answer' = [op |-> "isProcessing", arg |-> h,
                  val |-> Lookup(cachedBlockStatus, h, "Unknown") = "Processing"]
    /\ UNCHANGED <<internalChainTip, preferedBlockHash>>

(* accept (lines 23-29) and reject (lines 31-37).                          *)
Decide(h, s) ==
    /\ internalChainTip' = Erase(internalChainTip, h)
    /\ cachedBlockStatus' = Assign(cachedBlockStatus, h, s)
    /\ UNCHANGED <<preferedBlockHash, answer>>

(* processBlock (lines 39-44).                                             *)
ProcessBlock(h) ==
    /\ internalChainTip' = Assign(internalChainTip, h, h)
    /\ cachedBlockStatus' = Assign(cachedBlockStatus, h, "Processing")
    /\ UNCHANGED <<preferedBlockHash, answer>>

(* getBlock (lines 46-52): a hash with no entry gets a null one.           *)
GetBlock(h) ==
    /\ internalChainTip' = Touch(internalChainTip, h, NoBlock)
    /\ answer' = [op |-> "getBlock", arg |-> h,
                  val |-> Lookup(internalChainTip, h, NoBlock)]
    /\ UNCHANGED <<cachedBlockStatus, preferedBlockHash>>

(* getPreference (lines 54-59).                                            *)
GetPreference ==
    /\ answer' = [op |-> "getPreference", arg |-> NoHash, val |-> preferedBlockHash]
    /\ UNCHANGED <<internalChainTip, cachedBlockStatus, preferedBlockHash>>

(* setPreference (lines 61-65).                                            *)
SetPreference(h) ==
    /\ preferedBlockHash' = h
    /\ UNCHANGED <<internalChainTip, cachedBlockStatus, answer>>

Next ==
    \/ \E h \in Hashes :
          \/ \E s \in BlockStatus : SetBlockStatus(h, s)
          \/ GetBlockStatus(h)
          \/ IsProcessing(h)
          \/ Decide(h, "Accepted") \/ Decide(h, "Rejected")
          \/ ProcessBlock(h)
          \/ GetBlock(h)
          \/ SetPreference(h)
    \/ GetPreference

Spec == Init /\ [][Next]_vars

----------------------------------------------------------------------------
(* Every variable has the type the code gives it.                          *)
TypeOK ==
    /\ DOMAIN internalChainTip \subseteq Hashes
    /\ internalChainTip \in [DOMAIN internalChainTip -> Hashes \cup {NoBlock}]
    /\ DOMAIN cachedBlockStatus \subseteq Hashes
    /\ cachedBlockStatus \in [DOMAIN cachedBlockStatus -> BlockStatus]
    /\ preferedBlockHash \in Hashes \cup {NoHash}

(* The refinement mapping: a hash without an entry has the value an entry *)
(* operator[] would insert for it.                                         *)
Cache == INSTANCE ChainTipCache WITH
    status <- [h \in Hashes |-> Lookup(cachedBlockStatus, h, "Unknown")],
    tipBlock <- [h \in Hashes |-> Lookup(internalChainTip, h, NoBlock)],
    preference <- preferedBlockHash

(* ChainTip implements ChainTipCache: the entries operator[] inserts on   *)
(* getBlock, getBlockStatus and isProcessing (the null blocks of line 49   *)
(* among them) change no later answer, erase leaves a hash as it was       *)
(* before processBlock, and every query is answered from the current maps. *)
CacheSpec == Cache!Spec

=============================================================================
