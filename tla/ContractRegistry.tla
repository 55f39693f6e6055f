--------------------------- MODULE ContractRegistry ---------------------------
(***************************************************************************)
(* DynamicContract (src/contract/dynamiccontract.h): a contract registers  *)
(* its member functions, under the 4-byte selector of their signature, in *)
(* one of three maps (publicFunctions, payableFunctions, viewFunctions),   *)
(* and transactions and view calls are dispatched through them.           *)
(*                                                                         *)
(* A member function is a record of what registerMemberFunction learns of *)
(* it: whether its C++ type is const and takes arguments, and what the     *)
(* reflection interface says of its mutability and arguments.  Selector   *)
(* is the first 4 bytes of sha3 of the full signature.  The arguments of a *)
(* call are abstracted to whether they decode (wellFormed).               *)
(***************************************************************************)
EXTENDS Naturals, FiniteSets

CONSTANTS
    Contracts,    \* the DynamicContract instances
    MethodsOf,    \* the member functions each one's class registers
    Overrides,    \* whether its class overrides registerContractFunctions
    Functors,     \* 4-byte selectors
    Selector(_),  \* selector of a method's full signature
    Values,       \* call values
    NoMethod, NoFunctor, NoContract

Mutabilities == {"view", "nonpayable", "payable", "pure"}

MethodRecords ==
    [isConst : BOOLEAN, hasArgs : BOOLEAN, reflArgs : BOOLEAN, mut : Mutabilities]

Methods == UNION {MethodsOf[c] : c \in Contracts}

ASSUME RegistryAssumption ==
    /\ MethodsOf \in [Contracts -> SUBSET MethodRecords]
    /\ Overrides \in [Contracts -> BOOLEAN]
    /\ \A m \in MethodRecords : Selector(m) \in Functors
    /\ Values \subseteq Nat /\ 0 \in Values
    /\ NoMethod \notin MethodRecords /\ NoFunctor \notin Functors
    /\ NoContract \notin Contracts

Vias == {"none", "ethCall", "ethCallView"}

VARIABLES
    publicFns,    \* publicFunctions of each contract: selector -> method
    payableFns,   \* payableFunctions (NoMethod: no entry)
    viewFns,      \* viewFunctions
    phase,        \* "constructed", "registering", "ready" or "failed" (threw)
    pending,      \* methods registerContractFunctions has still to register
    registered,   \* history: methods whose registration returned
    lastCall      \* history: the last dispatch

vars == <<publicFns, payableFns, viewFns, phase, pending, registered, lastCall>>

----------------------------------------------------------------------------
(* The map each overload of registerMemberFunction puts a method in, or   *)
(* "throw".  The no-argument overloads first throw when reflection says   *)
(* the method has arguments; a non-const "view" method throws; a          *)
(* mutability other than view, nonpayable and payable throws.             *)

(* const, no arguments: lines 117-150.                                     *)
TargetConstNoArgs(m) ==
    IF m.reflArgs THEN "throw"
    ELSE CASE m.mut = "view" -> "view"
           [] m.mut = "nonpayable" -> "public"
           [] m.mut = "payable" -> "payable"
           [] OTHER -> "throw"

(* non-const, no arguments: lines 158-187.                                 *)
TargetNoArgs(m) ==
    IF m.reflArgs THEN "throw"
    ELSE CASE m.mut = "nonpayable" -> "public"
           [] m.mut = "payable" -> "payable"
           [] OTHER -> "throw"

(* non-const, with arguments: lines 265-317.                               *)
TargetArgs(m) ==
    CASE m.mut = "nonpayable" -> "public"
      [] m.mut = "payable" -> "payable"
      [] OTHER -> "throw"

(* const, with arguments: lines 325-372.                                   *)
TargetConstArgs(m) ==
    CASE m.mut = "view" -> "view"
      [] m.mut = "nonpayable" -> "public"
      [] m.mut = "payable" -> "payable"
      [] OTHER -> "throw"

(* Overload resolution on the member function pointer's type.              *)
Target(m) ==
    CASE m.isConst /\ ~m.hasArgs -> TargetConstNoArgs(m)
      [] ~m.isConst /\ ~m.hasArgs -> TargetNoArgs(m)
      [] ~m.isConst /\ m.hasArgs -> TargetArgs(m)
      [] m.isConst /\ m.hasArgs -> TargetConstArgs(m)

(* Mutant: isPayableFunction looks in publicFunctions.                     *)
IsPayableFunctionWrongMap(c, f) == publicFns[c][f] # NoMethod

(* isPayableFunction: lines 491-493.                                        *)
IsPayableFunction(c, f) == payableFns[c][f] # NoMethod

(* Mutant: a selector with no transaction function falls back to the     *)
(* view functions.                                                         *)
EthCallTargetViewFallback(c, f) ==
    CASE IsPayableFunction(c, f) -> payableFns[c][f]
      [] publicFns[c][f] # NoMethod -> publicFns[c][f]
      [] OTHER -> viewFns[c][f]

(* The method ethCall of contract c dispatches selector f to (lines       *)
(* 442-457), NoMethod when it throws "Functor not found".                 *)
EthCallTarget(c, f) ==
    IF IsPayableFunction(c, f) THEN payableFns[c][f] ELSE publicFns[c][f]

(* Whether the registered lambda of m returns when called with calldata   *)
(* that decodes (wellFormed) or not: a function without arguments ignores *)
(* the calldata; one with arguments decodes it, and tryCallFuncWithTuple   *)
(* throws on a wrong count or a failed any_cast.                           *)
Invoke(m, wellFormed) == ~m.hasArgs \/ wellFormed

(* A map assignment functions[Selector(m)] = m, made when map is where m  *)
(* is filed.                                                               *)
Store(fns, c, m, map) ==
    IF Target(m) = map THEN [fns EXCEPT ![c][Selector(m)] = m] ELSE fns

----------------------------------------------------------------------------
NoCall == [via |-> "none", to |-> NoContract, sel |-> NoFunctor,
           fn |-> NoMethod, value |-> 0, ok |-> FALSE]

Init ==
    /\ publicFns = [c \in Contracts |-> [f \in Functors |-> NoMethod]]
    /\ payableFns = [c \in Contracts |-> [f \in Functors |-> NoMethod]]
    /\ viewFns = [c \in Contracts |-> [f \in Functors |-> NoMethod]]
    /\ phase = [c \in Contracts |-> "constructed"]
    /\ pending = MethodsOf
    /\ registered = [c \in Contracts |-> {}]
    /\ lastCall = NoCall

(* The derived class's registerContractFunctions starts; the base version *)
(* throws (lines 401-405).                                                 *)
RegisterContractFunctions(c) ==
    /\ phase[c] = "constructed"
    /\ phase' = [phase EXCEPT ![c] = IF Overrides[c] THEN "registering" ELSE "failed"]
    /\ UNCHANGED <<publicFns, payableFns, viewFns, pending, registered, lastCall>>

(* registerMemberFunction(m), storing through registerFunction (55-58),    *)
(* registerPayableFunction (379-382) or registerViewFunction (390-394): a *)
(* map assignment that replaces any entry under the same selector.  A     *)
(* throw ends the registration, and the construction, with what was       *)
(* stored so far.                                                          *)
RegisterMemberFunction(c, m) ==
    /\ phase[c] = "registering"
    /\ m \in pending[c]
    /\ pending' = [pending EXCEPT ![c] = @ \ {m}]
    /\ IF Target(m) = "throw"
       THEN /\ phase' = [phase EXCEPT ![c] = "failed"]
            /\ UNCHANGED <<publicFns, payableFns, viewFns, registered>>
       ELSE /\ publicFns' = Store(publicFns, c, m, "public")
            /\ payableFns' = Store(payableFns, c, m, "payable")
            /\ viewFns' = Store(viewFns, c, m, "view")
            /\ registered' = [registered EXCEPT ![c] = @ \cup {m}]
            /\ UNCHANGED phase
    /\ UNCHANGED lastCall

(* registerContractFunctions returns: the contract is usable.              *)
FinishRegistration(c) ==
    /\ phase[c] = "registering"
    /\ pending[c] = {}
    /\ phase' = [phase EXCEPT ![c] = "ready"]
    /\ UNCHANGED <<publicFns, payableFns, viewFns, pending, registered, lastCall>>

(* ethCall of contract c with selector f and value v (lines 442-457).  The *)
(* registered lambda throws when the calldata does not decode.             *)
EthCall(c, f, v, wellFormed) ==
    /\ phase[c] = "ready"
    /\ lastCall' = [via |-> "ethCall", to |-> c, sel |-> f,
                    fn |-> EthCallTarget(c, f), value |-> v,
                    ok |-> /\ EthCallTarget(c, f) # NoMethod
                           /\ Invoke(EthCallTarget(c, f), wellFormed)]
    /\ UNCHANGED <<publicFns, payableFns, viewFns, phase, pending, registered>>

(* ethCallView of contract c with selector f (lines 465-484).              *)
EthCallView(c, f, wellFormed) ==
    /\ phase[c] = "ready"
    /\ lastCall' = [via |-> "ethCallView", to |-> c, sel |-> f,
                    fn |-> viewFns[c][f], value |-> 0,
                    ok |-> viewFns[c][f] # NoMethod
                           /\ Invoke(viewFns[c][f], wellFormed)]
    /\ UNCHANGED <<publicFns, payableFns, viewFns, phase, pending, registered>>

Next ==
    \E c \in Contracts :
        \/ RegisterContractFunctions(c)
        \/ \E m \in MethodRecords : RegisterMemberFunction(c, m)
        \/ FinishRegistration(c)
        \/ \E f \in Functors, v \in Values, w \in BOOLEAN : EthCall(c, f, v, w)
        \/ \E f \in Functors, w \in BOOLEAN : EthCallView(c, f, w)

Spec == Init /\ [][Next]_vars

----------------------------------------------------------------------------
FnMaps == [Contracts -> [Functors -> MethodRecords \cup {NoMethod}]]

(* Every variable has the type the code gives it.                          *)
TypeOK ==
    /\ publicFns \in FnMaps /\ payableFns \in FnMaps /\ viewFns \in FnMaps
    /\ phase \in [Contracts -> {"constructed", "registering", "ready", "failed"}]
    /\ pending \in [Contracts -> SUBSET MethodRecords]
    /\ registered \in [Contracts -> SUBSET MethodRecords]
    /\ lastCall \in [via : Vias, to : Contracts \cup {NoContract},
                     sel : Functors \cup {NoFunctor},
                     fn : MethodRecords \cup {NoMethod}, value : Values,
                     ok : BOOLEAN]

(* Dispatch runs only what was registered for the call's kind: a function *)
(* ethCall or ethCallView runs was registered by that contract under the  *)
(* called selector, a view call runs only const "view" functions, and a   *)
(* transaction never runs one.                                             *)
CallsMatchRegistration ==
    LET k == lastCall IN
    k.fn # NoMethod =>
        /\ k.fn \in registered[k.to]
        /\ Selector(k.fn) = k.sel
        /\ (k.via = "ethCallView") = (k.fn.mut = "view")
        /\ k.via = "ethCallView" => k.fn.isConst

(* Every function whose registration returned is reachable once its       *)
(* contract is ready: its selector dispatches to it, through ethCall for  *)
(* nonpayable and payable functions and through ethCallView for views.    *)
RegisteredReachable ==
    \A c \in Contracts : phase[c] = "ready" =>
        \A m \in registered[c] :
            IF m.mut = "view" THEN viewFns[c][Selector(m)] = m
            ELSE EthCallTarget(c, Selector(m)) = m

=============================================================================
