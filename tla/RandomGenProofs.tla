---------------------------- MODULE RandomGenProofs ----------------------------
(***************************************************************************)
(* Proofs about the operators of RandomGen for every validator list.  That *)
(* a whole shuffle keeps the list an arrangement of the validators is an   *)
(* induction over the loop, which is written as the recursive function st *)
(* in Permute: the provers cannot unfold such a definition, so TypeOK      *)
(* stays with TLC.  What one iteration of the loop does is proved here.    *)
(***************************************************************************)
EXTENDS RandomGen, TLAPS

USE RandomGenAssumption

(* One iteration of the loop of lines 52-57, std::swap(v[i], v[n]) for any *)
(* two positions, keeps the vector an arrangement of the validators: the  *)
(* permutation behind it is the old one with two entries exchanged.        *)
LEMMA SwapArrangement ==
    ASSUME NEW v \in Arrangements, NEW a \in 1 .. N, NEW b \in 1 .. N
    PROVE  Swap(v, a, b) \in Arrangements
<1>1. PICK p \in Bijection(1 .. N, 1 .. N) : v = [k \in 1 .. N |-> Validators[p[k]]]
  BY DEF Arrangements
<1> DEFINE q == [k \in 1 .. N |-> IF k = a THEN p[b] ELSE IF k = b THEN p[a] ELSE p[k]]
<1>2. /\ p \in [1 .. N -> 1 .. N]
      /\ \A x, y \in 1 .. N : p[x] = p[y] => x = y
      /\ \A t \in 1 .. N : \E s \in 1 .. N : p[s] = t
  BY <1>1 DEF Bijection, Injection, Surjection, IsInjective
<1>3. q \in [1 .. N -> 1 .. N]
  BY <1>2
<1>4. \A x, y \in 1 .. N : q[x] = q[y] => x = y
  BY <1>2
<1>5. \A t \in 1 .. N : \E s \in 1 .. N : q[s] = t
  <2> SUFFICES ASSUME NEW t \in 1 .. N PROVE \E s \in 1 .. N : q[s] = t
    OBVIOUS
  <2>1. PICK s0 \in 1 .. N : p[s0] = t
    BY <1>2
  <2>2. CASE s0 = a
    BY <2>1, <2>2
  <2>3. CASE s0 = b /\ s0 # a
    BY <2>1, <2>3
  <2>4. CASE s0 # a /\ s0 # b
    BY <2>1, <2>4
  <2> QED
    BY <2>2, <2>3, <2>4
<1>6. q \in Bijection(1 .. N, 1 .. N)
  BY <1>3, <1>4, <1>5 DEF Bijection, Injection, Surjection, IsInjective
<1>7. Swap(v, a, b) = [k \in 1 .. N |-> Validators[q[k]]]
  BY <1>1 DEF Swap
<1> QED
  BY <1>6, <1>7 DEF Arrangements

=============================================================================
