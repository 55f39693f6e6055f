---------------------------- MODULE MCLedgerStore ----------------------------
(***************************************************************************)
(* Small instances of LedgerStore: one genesis account and one other,     *)
(* two-byte encodings so that TLC's integers hold every value, and        *)
(* balances with a byte of 128 or more.                                    *)
(***************************************************************************)
EXTENDS LedgerStore

CONSTANTS a1, a2

\* A balance whose low byte has its top bit set, one whose high byte has.
MCBalances == {1, 200, 40000}

=============================================================================
