---------------------------- MODULE ChainTipCache ----------------------------
(***************************************************************************)
(* What ChainTip promises its callers: every block hash has a status       *)
(* (Unknown until something is said of it) and a block in the tip set or  *)
(* none, and there is one preferred hash.  A query answers from these and  *)
(* changes nothing.  accept and reject take the block out of the tip set   *)
(* and decide its status; processBlock puts it in as Processing.           *)
(*                                                                         *)
(* Nothing here forbids processBlock after a decision: the caller decides *)
(* whether a decided block may be processed again.                        *)
(***************************************************************************)
CONSTANTS Hashes, NoBlock, NoHash

BlockStatus == {"Unknown", "Processing", "Rejected", "Accepted"}

VARIABLES
    status,       \* the status of every hash
    tipBlock,     \* the block of every hash in the tip set, NoBlock if none
    preference,   \* the preferred block hash, NoHash if none was set
    answer        \* the last query and what it returned

vars == <<status, tipBlock, preference, answer>>

NoAnswer == [op |-> "none", arg |-> NoHash, val |-> NoHash]

Init ==
    /\ status = [h \in Hashes |-> "Unknown"]
    /\ tipBlock = [h \in Hashes |-> NoBlock]
    /\ preference = NoHash
    /\ answer = NoAnswer

SetStatus(h, s) ==
    /\ status' = [status EXCEPT ![h] = s]
    /\ UNCHANGED <<tipBlock, preference, answer>>

Decide(h, s) ==
    /\ tipBlock' = [tipBlock EXCEPT ![h] = NoBlock]
    /\ status' = [status EXCEPT ![h] = s]
    /\ UNCHANGED <<preference, answer>>

Process(h) ==
    /\ tipBlock' = [tipBlock EXCEPT ![h] = h]
    /\ status' = [status EXCEPT ![h] = "Processing"]
    /\ UNCHANGED <<preference, answer>>

Prefer(h) ==
    /\ preference' = h
    /\ UNCHANGED <<status, tipBlock, answer>>

(* A query: op applied to arg returned val, and nothing else changed.      *)
Query(op, arg, val) ==
    /\ answer' = [op |-> op, arg |-> arg, val |-> val]
    /\ UNCHANGED <<status, tipBlock, preference>>

Next ==
    \/ \E h \in Hashes :
          \/ \E s \in BlockStatus : SetStatus(h, s)
          \/ Decide(h, "Accepted") \/ Decide(h, "Rejected")
          \/ Process(h)
          \/ Prefer(h)
          \/ Query("getBlockStatus", h, status[h])
          \/ Query("isProcessing", h, status[h] = "Processing")
          \/ Query("getBlock", h, tipBlock[h])
    \/ Query("getPreference", NoHash, preference)

Spec == Init /\ [][Next]_vars

=============================================================================
