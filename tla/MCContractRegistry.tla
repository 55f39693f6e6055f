------------------------- MODULE MCContractRegistry -------------------------
(***************************************************************************)
(* Three contracts: c1 registers one function of each overload that can   *)
(* succeed, c2 registers a non-const view with arguments (which throws),  *)
(* c3 does not override registerContractFunctions.                         *)
(***************************************************************************)
EXTENDS ContractRegistry

CONSTANTS c1, c2, c3

Rec(const, args, mut) ==
    [isConst |-> const, hasArgs |-> args, reflArgs |-> args, mut |-> mut]

MCMethodsOf ==
    [c \in {c1, c2, c3} |->
        CASE c = c1 -> {Rec(TRUE, FALSE, "view"), Rec(FALSE, FALSE, "nonpayable"),
                        Rec(FALSE, TRUE, "payable"), Rec(TRUE, TRUE, "view"),
                        Rec(TRUE, TRUE, "nonpayable")}
          [] c = c2 -> {Rec(FALSE, FALSE, "nonpayable"), Rec(FALSE, TRUE, "view")}
          [] OTHER -> {}]

MCOverrides == [c \in {c1, c2, c3} |-> c # c3]

MutIndex(m) ==
    CASE m.mut = "view" -> 0 [] m.mut = "nonpayable" -> 1
      [] m.mut = "payable" -> 2 [] OTHER -> 3

\* Distinct selectors for distinct (arguments, mutability) pairs: no
\* collision among c1's functions.
MCSelector(m) == (IF m.hasArgs THEN 4 ELSE 0) + MutIndex(m)

=============================================================================
