---------------------------- MODULE ChainTipProofs ----------------------------
(***************************************************************************)
(* Proofs about ChainTip: its maps keep their types, and it implements    *)
(* ChainTipCache under the refinement mapping that reads a missing key as *)
(* the value operator[] would insert.                                     *)
(***************************************************************************)
EXTENDS ChainTip, TLAPS

USE ChainTipAssumption

(* What a map operation does to the view of the map through Lookup on a *)
(* set S of keys: an assignment changes one entry, a read that inserts   *)
(* changes none, an erase resets one to the default.                      *)
LEMMA AssignView ==
    ASSUME NEW m, NEW S, NEW k \in S, NEW v, NEW d
    PROVE  [x \in S |-> Lookup(Assign(m, k, v), x, d)]
             = [[x \in S |-> Lookup(m, x, d)] EXCEPT ![k] = v]
BY DEF Assign, Lookup

LEMMA TouchView ==
    ASSUME NEW m, NEW S, NEW k, NEW d
    PROVE  [x \in S |-> Lookup(Touch(m, k, d), x, d)] = [x \in S |-> Lookup(m, x, d)]
BY DEF Touch, Assign, Lookup

LEMMA EraseView ==
    ASSUME NEW m, NEW S, NEW k \in S, NEW d
    PROVE  [x \in S |-> Lookup(Erase(m, k), x, d)]
             = [[x \in S |-> Lookup(m, x, d)] EXCEPT ![k] = d]
BY DEF Erase, Lookup

----------------------------------------------------------------------------
(* The maps stay keyed by hashes with values of their types.               *)
LEMMA InitTypeOK == Init => TypeOK
BY DEF Init, TypeOK

LEMMA NextTypeOK == TypeOK /\ [Next]_vars => TypeOK'
<1> SUFFICES ASSUME TypeOK, [Next]_vars PROVE TypeOK'
  OBVIOUS
<1>1. ASSUME NEW h \in Hashes, NEW s \in BlockStatus, SetBlockStatus(h, s)
      PROVE TypeOK'
  BY <1>1 DEF SetBlockStatus, Assign, TypeOK
<1>2. ASSUME NEW h \in Hashes, GetBlockStatus(h) PROVE TypeOK'
  BY <1>2 DEF GetBlockStatus, Touch, Assign, TypeOK, BlockStatus
<1>3. ASSUME NEW h \in Hashes, IsProcessing(h) PROVE TypeOK'
  BY <1>3 DEF IsProcessing, Touch, Assign, TypeOK, BlockStatus
<1>4. ASSUME NEW h \in Hashes, NEW s \in {"Accepted", "Rejected"}, Decide(h, s)
      PROVE TypeOK'
  BY <1>4 DEF Decide, Erase, Assign, TypeOK, BlockStatus
<1>5. ASSUME NEW h \in Hashes, ProcessBlock(h) PROVE TypeOK'
  BY <1>5 DEF ProcessBlock, Assign, TypeOK, BlockStatus
<1>6. ASSUME NEW h \in Hashes, GetBlock(h) PROVE TypeOK'
  BY <1>6 DEF GetBlock, Touch, Assign, TypeOK
<1>7. ASSUME NEW h \in Hashes, SetPreference(h) PROVE TypeOK'
  BY <1>7 DEF SetPreference, TypeOK
<1>8. CASE GetPreference
  BY <1>8 DEF GetPreference, TypeOK
<1>9. CASE UNCHANGED vars
  BY <1>9 DEF vars, TypeOK
<1>10. QED
  BY <1>1, <1>2, <1>3, <1>4, <1>5, <1>6, <1>7, <1>8, <1>9 DEF Next

(* ChainTip's maps stay keyed by hashes: every entry a query inserts is a *)
(* hash with a null block or status Unknown, for every set of hashes.     *)
THEOREM ChainTipTypeCorrect == Spec => []TypeOK
BY InitTypeOK, NextTypeOK, PTL DEF Spec

----------------------------------------------------------------------------
(* The abstract state the mapping gives.                                   *)
AbsStatus == [x \in Hashes |-> Lookup(cachedBlockStatus, x, "Unknown")]
AbsTip == [x \in Hashes |-> Lookup(internalChainTip, x, NoBlock)]

LEMMA InitRefines == Init => Cache!Init
BY DEF Init, Cache!Init, Lookup, NoAnswer, Cache!NoAnswer

LEMMA NextRefines == TypeOK /\ [Next]_vars => [Cache!Next]_Cache!vars
<1> SUFFICES ASSUME TypeOK, [Next]_vars PROVE [Cache!Next]_Cache!vars
  OBVIOUS
<1>1. ASSUME NEW h \in Hashes, NEW s \in BlockStatus, SetBlockStatus(h, s)
      PROVE Cache!SetStatus(h, s)
  <2>1. AbsStatus' = [AbsStatus EXCEPT ![h] = s]
    BY <1>1, AssignView DEF SetBlockStatus, AbsStatus
  <2>2. AbsTip' = AbsTip
    BY <1>1 DEF SetBlockStatus, AbsTip
  <2>3. QED
    BY <1>1, <2>1, <2>2 DEF SetBlockStatus, Cache!SetStatus, AbsStatus, AbsTip
<1>2. ASSUME NEW h \in Hashes, GetBlockStatus(h)
      PROVE Cache!Query("getBlockStatus", h, AbsStatus[h])
  <2>1. AbsStatus' = AbsStatus
    BY <1>2, TouchView DEF GetBlockStatus, AbsStatus
  <2>2. QED
    BY <1>2, <2>1 DEF GetBlockStatus, Cache!Query, AbsStatus, AbsTip
<1>3. ASSUME NEW h \in Hashes, IsProcessing(h)
      PROVE Cache!Query("isProcessing", h, AbsStatus[h] = "Processing")
  <2>1. AbsStatus' = AbsStatus
    BY <1>3, TouchView DEF IsProcessing, AbsStatus
  <2>2. QED
    BY <1>3, <2>1 DEF IsProcessing, Cache!Query, AbsStatus, AbsTip
<1>4. ASSUME NEW h \in Hashes, NEW s \in {"Accepted", "Rejected"}, Decide(h, s)
      PROVE Cache!Decide(h, s)
  <2>1. AbsStatus' = [AbsStatus EXCEPT ![h] = s]
    BY <1>4, AssignView DEF Decide, AbsStatus
  <2>2. AbsTip' = [AbsTip EXCEPT ![h] = NoBlock]
    BY <1>4, EraseView DEF Decide, AbsTip
  <2>3. QED
    BY <1>4, <2>1, <2>2 DEF Decide, Cache!Decide, AbsStatus, AbsTip
<1>5. ASSUME NEW h \in Hashes, ProcessBlock(h) PROVE Cache!Process(h)
  <2>1. AbsStatus' = [AbsStatus EXCEPT ![h] = "Processing"]
    BY <1>5, AssignView DEF ProcessBlock, AbsStatus
  <2>2. AbsTip' = [AbsTip EXCEPT ![h] = h]
    BY <1>5, AssignView DEF ProcessBlock, AbsTip
  <2>3. QED
    BY <1>5, <2>1, <2>2 DEF ProcessBlock, Cache!Process, AbsStatus, AbsTip
<1>6. ASSUME NEW h \in Hashes, GetBlock(h)
      PROVE Cache!Query("getBlock", h, AbsTip[h])
  <2>1. AbsTip' = AbsTip
    BY <1>6, TouchView DEF GetBlock, AbsTip
  <2>2. QED
    BY <1>6, <2>1 DEF GetBlock, Cache!Query, AbsStatus, AbsTip
<1>7. ASSUME NEW h \in Hashes, SetPreference(h) PROVE Cache!Prefer(h)
  BY <1>7 DEF SetPreference, Cache!Prefer
<1>8. ASSUME GetPreference
      PROVE Cache!Query("getPreference", NoHash, preferedBlockHash)
  BY <1>8 DEF GetPreference, Cache!Query
<1>9. CASE UNCHANGED vars
  BY <1>9 DEF vars, Cache!vars
<1>10. QED
  BY <1>1, <1>2, <1>3, <1>4, <1>5, <1>6, <1>7, <1>8, <1>9
     DEF Next, Cache!Next, BlockStatus, Cache!BlockStatus, AbsStatus, AbsTip

(* ChainTip implements what it promises: under the mapping that reads a   *)
(* missing key as the null block or Unknown, every step of the code is a  *)
(* step of ChainTipCache, so the entries operator[] inserts on a lookup   *)
(* never change an answer.                                                 *)
THEOREM ChainTipRefinesCache == Spec => CacheSpec
<1>1. Spec => []TypeOK
  BY ChainTipTypeCorrect
<1>2. QED
  BY <1>1, InitRefines, NextRefines, PTL DEF Spec, CacheSpec, Cache!Spec

=============================================================================
