------------------------------ MODULE RandomGen ------------------------------
(***************************************************************************)
(* RandomGen (src/utils/randomgen.h): the seeded generator rdPoS uses to   *)
(* order validators.  shuffle runs, under seedLock, one Fisher-Yates pass  *)
(* whose i-th draw is the seed hashed i times; setSeed replaces the seed.  *)
(*                                                                         *)
(* A seed is a number below SeedBound (its toUint256 value; 2^256 in the  *)
(* code) and sha3 is the operator Sha3 on those numbers.  The vector being *)
(* shuffled is the validator list, a sequence of distinct elements.        *)
(***************************************************************************)
EXTENDS Naturals, Sequences, FiniteSets, Functions

CONSTANTS
    Validators,   \* the vector handed to shuffle, a sequence of distinct elements
    SeedBound,    \* number of seed values
    Sha3(_)       \* the hash of a seed

Seeds == 0 .. SeedBound - 1

ASSUME RandomGenAssumption ==
    /\ SeedBound \in Nat \ {0}
    /\ \A s \in Seeds : Sha3(s) \in Seeds
    /\ Validators \in Seq(Range(Validators))
    /\ IsInjective(Validators)

N == Len(Validators)

VARIABLES
    seed,   \* RandomGen::seed
    list    \* the vector last shuffled

vars == <<seed, list>>

----------------------------------------------------------------------------
(* The draws of one shuffle of n elements from seed s: draw i is the seed *)
(* after the i-th sha3 of line 53.                                         *)
Draws(s, n) ==
    LET h[i \in 0 .. n] == IF i = 0 THEN s ELSE Sha3(h[i - 1])
    IN  [i \in 1 .. n |-> h[i]]

(* std::swap(v[a], v[b]).                                                  *)
Swap(v, a, b) == [v EXCEPT ![a] = v[b], ![b] = v[a]]

(* Mutant: the naive shuffle, n = seed % size.                             *)
PermuteNoOffset(v, r) ==
    LET st[i \in 0 .. Len(v)] ==
            IF i = 0 THEN v
            ELSE Swap(st[i - 1], (r[i] % Len(v)) + 1, i)
    IN  st[Len(v)]

(* The loop of lines 52-57 on draws r: iteration i (0-based i - 1 in the  *)
(* code) swaps v[i] with v[n] for n = i + r[i] % (size - i).               *)
Permute(v, r) ==
    LET st[i \in 0 .. Len(v)] ==
            IF i = 0 THEN v
            ELSE Swap(st[i - 1], (i - 1) + (r[i] % (Len(v) - (i - 1))) + 1, i)
    IN  st[Len(v)]

(* Mutant: shuffle assigns v[i] = v[n] instead of swapping.               *)
ShuffleVectorAssign(v, s) ==
    LET r == Draws(s, Len(v))
        st[i \in 0 .. Len(v)] ==
            IF i = 0 THEN v
            ELSE [st[i - 1] EXCEPT ![i] = st[i - 1][(i - 1) + (r[i] % (Len(v) - (i - 1))) + 1]]
    IN  st[Len(v)]

(* shuffle(v) from seed s: the loop on the draws of the hash chain.       *)
ShuffleVector(v, s) == Permute(v, Draws(s, Len(v)))

----------------------------------------------------------------------------
Init ==
    /\ seed \in Seeds
    /\ list = Validators

(* shuffle: the whole loop under seedLock; the seed has been hashed once  *)
(* per element.                                                            *)
Shuffle ==
    /\ list' = ShuffleVector(list, seed)
    /\ seed' = IF Len(list) = 0 THEN seed ELSE Draws(seed, Len(list))[Len(list)]

(* setSeed, under seedLock.                                                *)
SetSeed(s) ==
    /\ seed' = s
    /\ UNCHANGED list

Next == Shuffle \/ \E s \in Seeds : SetSeed(s)

Spec == Init /\ [][Next]_vars

----------------------------------------------------------------------------
(* The orderings of the validators: every arrangement of its elements.    *)
Arrangements ==
    {[k \in 1 .. N |-> Validators[p[k]]] : p \in Bijection(1 .. N, 1 .. N)}

(* The seed is a seed, and the vector is always an arrangement of the     *)
(* validators: shuffle loses and duplicates none of them.                  *)
TypeOK ==
    /\ seed \in Seeds
    /\ list \in Arrangements

Fact[n \in Nat] == IF n = 0 THEN 1 ELSE n * Fact[n - 1]

(* Fisher-Yates is uniform: if the draws of line 55 range over all of      *)
(* Seeds, every arrangement of the current vector comes from exactly       *)
(* SeedBound^n / n! draw sequences, so no validator ordering is favoured.  *)
(* Exact only when every size - i divides SeedBound.                       *)
UniformShuffle ==
    \A p \in Arrangements :
        Cardinality({r \in [1 .. N -> Seeds] : Permute(list, r) = p}) * Fact[N]
            = SeedBound ^ N

=============================================================================
