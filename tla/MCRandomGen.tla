----------------------------- MODULE MCRandomGen -----------------------------
(***************************************************************************)
(* Three validators and eighteen seeds: 18 is divisible by every size - i *)
(* (3, 2 and 1), so the modulo of line 55 is unbiased, as it is to within *)
(* 2^-250 at 256 bits.                                                     *)
(***************************************************************************)
EXTENDS RandomGen

CONSTANTS v1, v2, v3

MCValidators == <<v1, v2, v3>>

\* A hash on the eighteen seeds that is not a permutation of them.
MCSha3(s) == (s * s + 1) % 18

=============================================================================
