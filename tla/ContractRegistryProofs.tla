------------------------ MODULE ContractRegistryProofs ------------------------
(***************************************************************************)
(* Proofs about ContractRegistry for every set of contracts, functions and *)
(* selector function: the registry's type, and that dispatch runs only     *)
(* what a contract registered for the call's kind.                        *)
(***************************************************************************)
EXTENDS ContractRegistry, TLAPS

USE RegistryAssumption

(* Every entry of contract c's map is filed under its own selector, by a  *)
(* registration recorded in reg, in the map Target chose for it.          *)
Filed(fns, reg, c, map) ==
    \A f \in Functors :
        fns[c][f] # NoMethod =>
            /\ fns[c][f] \in reg[c]
            /\ Selector(fns[c][f]) = f
            /\ Target(fns[c][f]) = map

(* The last dispatch ran a function filed for the kind of call it was.    *)
CallFiled ==
    lastCall.fn # NoMethod =>
        /\ lastCall.to \in Contracts
        /\ lastCall.fn \in registered[lastCall.to]
        /\ Selector(lastCall.fn) = lastCall.sel
        /\ lastCall.via \in {"ethCall", "ethCallView"}
        /\ lastCall.via = "ethCallView" => Target(lastCall.fn) = "view"
        /\ lastCall.via = "ethCall" => Target(lastCall.fn) \in {"public", "payable"}

(* The inductive invariant: the type, every map filed, the last call filed. *)
RegInv ==
    /\ TypeOK
    /\ \A c \in Contracts :
           /\ Filed(publicFns, registered, c, "public")
           /\ Filed(payableFns, registered, c, "payable")
           /\ Filed(viewFns, registered, c, "view")
    /\ CallFiled

----------------------------------------------------------------------------
(* What the overload resolution of registerMemberFunction can decide: a    *)
(* view map entry is a const "view" function, and a transaction map entry  *)
(* is not a "view" one.                                                    *)
LEMMA TargetKinds ==
    ASSUME NEW m \in MethodRecords
    PROVE  /\ Target(m) \in {"view", "public", "payable", "throw"}
           /\ Target(m) = "view" => m.mut = "view" /\ m.isConst
           /\ Target(m) \in {"public", "payable"} => m.mut # "view"
BY DEF Target, TargetConstNoArgs, TargetNoArgs, TargetArgs, TargetConstArgs,
       MethodRecords, Mutabilities

(* A registration keeps every contract's map filed: the new entry is m     *)
(* under its selector, in the map Target chose, and m is now registered.   *)
LEMMA StoreFiled ==
    ASSUME NEW fns \in FnMaps, NEW reg \in [Contracts -> SUBSET MethodRecords],
           NEW c \in Contracts, NEW m \in MethodRecords, NEW map,
           NEW d \in Contracts, Filed(fns, reg, d, map)
    PROVE  Filed(Store(fns, c, m, map), [reg EXCEPT ![c] = @ \cup {m}], d, map)
<1> DEFINE nfns == Store(fns, c, m, map)
           nreg == [reg EXCEPT ![c] = @ \cup {m}]
<1> SUFFICES ASSUME NEW f \in Functors, nfns[d][f] # NoMethod
             PROVE  /\ nfns[d][f] \in nreg[d]
                    /\ Selector(nfns[d][f]) = f
                    /\ Target(nfns[d][f]) = map
  BY DEF Filed
<1>1. reg[d] \subseteq nreg[d]
  OBVIOUS
<1>2. CASE Target(m) = map /\ d = c /\ f = Selector(m)
  <2>1. nfns[d][f] = m
    BY <1>2 DEF Store, FnMaps
  <2> QED
    BY <1>2, <2>1
<1>3. CASE ~(Target(m) = map /\ d = c /\ f = Selector(m))
  <2>1. nfns[d][f] = fns[d][f]
    BY <1>3 DEF Store, FnMaps
  <2> QED
    BY <1>1, <2>1 DEF Filed
<1> QED
  BY <1>2, <1>3


(* The maps start empty and no call has been made.                        *)
LEMMA InitRegInv == Init => RegInv
<1> SUFFICES ASSUME Init PROVE RegInv
  OBVIOUS
<1>1. TypeOK
  BY DEF Init, TypeOK, FnMaps, NoCall, Vias
<1>2. \A c \in Contracts :
           /\ Filed(publicFns, registered, c, "public")
           /\ Filed(payableFns, registered, c, "payable")
           /\ Filed(viewFns, registered, c, "view")
  BY DEF Init, Filed
<1>3. CallFiled
  BY DEF Init, NoCall, CallFiled
<1> QED
  BY <1>1, <1>2, <1>3 DEF RegInv

(* A step that changes neither the maps, nor the registrations, nor the   *)
(* last call keeps everything but the type filed.                          *)
LEMMA QuietRegStep ==
    ASSUME RegInv, TypeOK',
           UNCHANGED <<publicFns, payableFns, viewFns, registered, lastCall>>
    PROVE  RegInv'
BY DEF RegInv, Filed, CallFiled

(* Each step keeps RegInv: one case per action of Next.                    *)
LEMMA NextRegInv == RegInv /\ [Next]_vars => RegInv'
<1> SUFFICES ASSUME RegInv, [Next]_vars PROVE RegInv'
  OBVIOUS
<1> USE DEF RegInv, TypeOK
<1>1. ASSUME NEW c \in Contracts, RegisterContractFunctions(c) PROVE RegInv'
  <2>1. TypeOK'
    BY <1>1 DEF RegisterContractFunctions, TypeOK
  <2> QED
    BY <1>1, <2>1, QuietRegStep DEF RegisterContractFunctions
<1>2. ASSUME NEW c \in Contracts, NEW m \in MethodRecords,
             RegisterMemberFunction(c, m)
      PROVE  RegInv'
  <2>1. CASE Target(m) = "throw"
    <3>1. TypeOK'
      BY <1>2, <2>1 DEF RegisterMemberFunction, TypeOK
    <3> QED
      BY <1>2, <2>1, <3>1, QuietRegStep DEF RegisterMemberFunction
  <2>2. CASE Target(m) # "throw"
    <3>1. /\ publicFns' = Store(publicFns, c, m, "public")
          /\ payableFns' = Store(payableFns, c, m, "payable")
          /\ viewFns' = Store(viewFns, c, m, "view")
          /\ registered' = [registered EXCEPT ![c] = @ \cup {m}]
          /\ UNCHANGED <<phase, lastCall>>
      BY <1>2, <2>2 DEF RegisterMemberFunction
    <3>2. ASSUME NEW fns \in FnMaps, NEW map PROVE Store(fns, c, m, map) \in FnMaps
      BY DEF Store, FnMaps
    <3>3. TypeOK'
      BY <1>2, <3>1, <3>2 DEF RegisterMemberFunction, TypeOK
    <3>4. ASSUME NEW d \in Contracts
          PROVE  /\ Filed(publicFns, registered, d, "public")'
                 /\ Filed(payableFns, registered, d, "payable")'
                 /\ Filed(viewFns, registered, d, "view")'
      <4> DEFINE nreg == [registered EXCEPT ![c] = @ \cup {m}]
      <4>1. Filed(Store(publicFns, c, m, "public"), nreg, d, "public")
        BY StoreFiled
      <4>2. Filed(Store(payableFns, c, m, "payable"), nreg, d, "payable")
        BY StoreFiled
      <4>3. Filed(Store(viewFns, c, m, "view"), nreg, d, "view")
        BY StoreFiled
      <4> QED
        BY <3>1, <4>1, <4>2, <4>3
    <3>5. CallFiled'
      <4>1. registered[lastCall.to] \subseteq registered'[lastCall.to]
            \/ lastCall.fn = NoMethod
        BY <3>1 DEF CallFiled
      <4> QED
        BY <3>1, <4>1 DEF CallFiled
    <3> QED
      BY <3>3, <3>4, <3>5
  <2> QED
    BY <2>1, <2>2
<1>3. ASSUME NEW c \in Contracts, FinishRegistration(c) PROVE RegInv'
  <2>1. TypeOK'
    BY <1>3 DEF FinishRegistration, TypeOK
  <2> QED
    BY <1>3, <2>1, QuietRegStep DEF FinishRegistration
<1>4. ASSUME NEW c \in Contracts, NEW f \in Functors, NEW v \in Values,
             NEW w \in BOOLEAN, EthCall(c, f, v, w)
      PROVE  RegInv'
  <2> DEFINE t == EthCallTarget(c, f)
  <2>1. /\ t \in MethodRecords \cup {NoMethod}
        /\ t # NoMethod => /\ t \in registered[c]
                           /\ Selector(t) = f
                           /\ Target(t) \in {"public", "payable"}
    <3>1. Filed(publicFns, registered, c, "public")
          /\ Filed(payableFns, registered, c, "payable")
      OBVIOUS
    <3> QED
      BY <3>1 DEF EthCallTarget, IsPayableFunction, Filed, FnMaps
  <2>2. lastCall' = [via |-> "ethCall", to |-> c, sel |-> f, fn |-> t,
                     value |-> v, ok |-> t # NoMethod /\ Invoke(t, w)]
    BY <1>4 DEF EthCall
  <2>3. TypeOK'
    BY <1>4, <2>1, <2>2 DEF EthCall, TypeOK, Vias
  <2>4. CallFiled'
    BY <1>4, <2>1, <2>2 DEF EthCall, CallFiled
  <2>5. \A d \in Contracts :
           /\ Filed(publicFns, registered, d, "public")'
           /\ Filed(payableFns, registered, d, "payable")'
           /\ Filed(viewFns, registered, d, "view")'
    BY <1>4 DEF EthCall, Filed
  <2> QED
    BY <2>3, <2>4, <2>5
<1>5. ASSUME NEW c \in Contracts, NEW f \in Functors, NEW w \in BOOLEAN,
             EthCallView(c, f, w)
      PROVE  RegInv'
  <2>1. /\ viewFns[c][f] \in MethodRecords \cup {NoMethod}
        /\ viewFns[c][f] # NoMethod => /\ viewFns[c][f] \in registered[c]
                                       /\ Selector(viewFns[c][f]) = f
                                       /\ Target(viewFns[c][f]) = "view"
    BY DEF Filed, FnMaps
  <2>2. TypeOK'
    BY <1>5, <2>1 DEF EthCallView, TypeOK, Vias
  <2>3. CallFiled'
    BY <1>5, <2>1 DEF EthCallView, CallFiled
  <2>4. \A d \in Contracts :
           /\ Filed(publicFns, registered, d, "public")'
           /\ Filed(payableFns, registered, d, "payable")'
           /\ Filed(viewFns, registered, d, "view")'
    BY <1>5 DEF EthCallView, Filed
  <2> QED
    BY <2>2, <2>3, <2>4
<1>6. CASE UNCHANGED vars
  BY <1>6 DEF vars, Filed, CallFiled
<1> QED
  BY <1>1, <1>2, <1>3, <1>4, <1>5, <1>6 DEF Next


(* The last dispatch, filed for its kind, satisfies CallsMatchRegistration. *)
LEMMA RegInvCalls == RegInv => CallsMatchRegistration
<1> SUFFICES ASSUME RegInv, lastCall.fn # NoMethod
             PROVE  /\ lastCall.fn \in registered[lastCall.to]
                    /\ Selector(lastCall.fn) = lastCall.sel
                    /\ (lastCall.via = "ethCallView") = (lastCall.fn.mut = "view")
                    /\ lastCall.via = "ethCallView" => lastCall.fn.isConst
  BY DEF CallsMatchRegistration
<1>1. lastCall.fn \in MethodRecords
  BY DEF RegInv, TypeOK
<1>2. CallFiled
  BY DEF RegInv
<1>3. CASE lastCall.via = "ethCallView"
  BY <1>1, <1>2, <1>3, TargetKinds DEF CallFiled
<1>4. CASE lastCall.via = "ethCall"
  BY <1>1, <1>2, <1>4, TargetKinds DEF CallFiled
<1> QED
  BY <1>2, <1>3, <1>4 DEF CallFiled

(* Whatever the contracts, their functions and the selector function (two *)
(* signatures may share a selector), every variable of the registry keeps *)
(* its type through registration and dispatch.                             *)
THEOREM RegistryTypeCorrect == Spec => []TypeOK
<1>1. RegInv => TypeOK
  BY DEF RegInv
<1> QED
  BY InitRegInv, NextRegInv, <1>1, PTL DEF Spec

(* Whatever the contracts, their functions and the selector function,     *)
(* ethCall and ethCallView run only a function the called contract        *)
(* registered under the called selector: ethCall never runs a view, and   *)
(* ethCallView runs only const views (registerMemberFunction, ethCall,    *)
(* ethCallView).                                                           *)
THEOREM CallsMatchRegistrationHolds == Spec => []CallsMatchRegistration
BY InitRegInv, NextRegInv, RegInvCalls, PTL DEF Spec


----------------------------------------------------------------------------
(* The selectors of one contract's functions are distinct: no two of the  *)
(* signatures its class registers hash to the same four bytes.             *)
DistinctSelectors ==
    \A c \in Contracts : \A m1, m2 \in MethodsOf[c] :
        Selector(m1) = Selector(m2) => m1 = m2

(* Registrations come from the class's own functions.                      *)
Origin ==
    \A c \in Contracts :
        /\ pending[c] \subseteq MethodsOf[c]
        /\ registered[c] \subseteq MethodsOf[c]

(* Every registered function is still the entry under its selector in the *)
(* map Target chose for it: no later registration has replaced it.        *)
Reach ==
    \A c \in Contracts : \A m \in registered[c] :
        /\ Target(m) # "throw"
        /\ Target(m) = "public" => publicFns[c][Selector(m)] = m
        /\ Target(m) = "payable" => payableFns[c][Selector(m)] = m
        /\ Target(m) = "view" => viewFns[c][Selector(m)] = m

ReachInv == RegInv /\ Origin /\ Reach

(* A "view" function is filed as a view or refused.                        *)
LEMMA TargetView ==
    ASSUME NEW m \in MethodRecords, m.mut = "view"
    PROVE  Target(m) \in {"view", "throw"}
BY DEF Target, TargetConstNoArgs, TargetNoArgs, TargetArgs, TargetConstArgs

LEMMA InitReachInv == Init => ReachInv
BY InitRegInv DEF Init, ReachInv, Origin, Reach

(* A registration under distinct selectors replaces no registered entry.  *)
LEMMA NextReach ==
    ASSUME DistinctSelectors, ReachInv, [Next]_vars
    PROVE  (Origin /\ Reach)'
<1> USE DEF ReachInv, RegInv, TypeOK
<1>1. ASSUME NEW c \in Contracts, NEW m \in MethodRecords,
             RegisterMemberFunction(c, m)
      PROVE  (Origin /\ Reach)'
  <2>1. m \in MethodsOf[c]
    BY <1>1 DEF RegisterMemberFunction, Origin
  <2>2. Origin'
    BY <1>1, <2>1 DEF RegisterMemberFunction, Origin
  <2>3. CASE Target(m) = "throw"
    BY <1>1, <2>2, <2>3 DEF RegisterMemberFunction, Reach
  <2>4. CASE Target(m) # "throw"
    <3>1. /\ publicFns' = Store(publicFns, c, m, "public")
          /\ payableFns' = Store(payableFns, c, m, "payable")
          /\ viewFns' = Store(viewFns, c, m, "view")
          /\ registered' = [registered EXCEPT ![c] = @ \cup {m}]
      BY <1>1, <2>4 DEF RegisterMemberFunction
    <3>2. SUFFICES ASSUME NEW d \in Contracts, NEW n \in registered'[d]
                   PROVE  /\ Target(n) # "throw"
                          /\ Target(n) = "public" => publicFns'[d][Selector(n)] = n
                          /\ Target(n) = "payable" => payableFns'[d][Selector(n)] = n
                          /\ Target(n) = "view" => viewFns'[d][Selector(n)] = n
      BY <2>2 DEF Reach
    <3>3. CASE d = c /\ n = m
      BY <3>1, <3>3, <2>4 DEF Store, FnMaps
    <3>4. CASE ~(d = c /\ n = m)
      <4>1. n \in registered[d]
        BY <3>1, <3>4
      <4>2. d = c /\ Selector(n) = Selector(m) => n = m
        BY <4>1, <2>1 DEF DistinctSelectors, Origin
      <4>3. n \in MethodRecords
        BY <4>1
      <4> QED
        BY <3>1, <4>1, <4>2, <4>3, <3>4 DEF Store, FnMaps, Reach
    <3> QED
      BY <3>3, <3>4
  <2> QED
    BY <2>2, <2>3, <2>4
<1>2. ASSUME UNCHANGED <<publicFns, payableFns, viewFns, pending, registered>>
      PROVE  (Origin /\ Reach)'
  BY <1>2 DEF Origin, Reach
<1> QED
  BY <1>1, <1>2 DEF Next, vars, RegisterContractFunctions, FinishRegistration,
                    EthCall, EthCallView

(* Registered functions, filed under distinct selectors, are reachable.   *)
LEMMA ReachInvReachable ==
    ASSUME DistinctSelectors, ReachInv
    PROVE  RegisteredReachable
<1> SUFFICES ASSUME NEW c \in Contracts, NEW m \in registered[c]
             PROVE  IF m.mut = "view" THEN viewFns[c][Selector(m)] = m
                    ELSE EthCallTarget(c, Selector(m)) = m
  BY DEF RegisteredReachable
<1>1. /\ m \in MethodRecords /\ m \in MethodsOf[c]
      /\ Target(m) # "throw"
      /\ Target(m) = "public" => publicFns[c][Selector(m)] = m
      /\ Target(m) = "payable" => payableFns[c][Selector(m)] = m
      /\ Target(m) = "view" => viewFns[c][Selector(m)] = m
  BY DEF ReachInv, RegInv, TypeOK, Origin, Reach
<1>2. CASE m.mut = "view"
  BY <1>1, <1>2, TargetView
<1>3. CASE m.mut # "view"
  <2>1. Target(m) \in {"public", "payable"}
    BY <1>1, <1>3, TargetKinds
  <2>2. CASE Target(m) = "payable"
    <3>1. payableFns[c][Selector(m)] = m /\ m # NoMethod
      BY <1>1, <2>2
    <3> QED
      BY <1>3, <3>1, Zenon DEF EthCallTarget, IsPayableFunction
  <2>3. CASE Target(m) = "public"
    <3>1. Filed(payableFns, registered, c, "payable")
      BY DEF ReachInv, RegInv
    <3>2. payableFns[c][Selector(m)] = NoMethod
      <4> DEFINE p == payableFns[c][Selector(m)]
      <4>1. SUFFICES ASSUME p # NoMethod PROVE FALSE
        OBVIOUS
      <4>2. p \in registered[c] /\ Selector(p) = Selector(m) /\ Target(p) = "payable"
        <5>1. Selector(m) \in Functors
          BY <1>1
        <5> QED
          BY <3>1, <4>1, <5>1, Zenon DEF Filed
      <4>3. p \in MethodsOf[c]
        BY <4>2 DEF ReachInv, Origin
      <4>4. p = m
        BY <1>1, <4>2, <4>3 DEF DistinctSelectors
      <4> QED
        BY <2>3, <4>2, <4>4
    <3>3. publicFns[c][Selector(m)] = m
      BY <1>1, <2>3
    <3> QED
      BY <1>3, <3>2, <3>3, Zenon DEF EthCallTarget, IsPayableFunction
  <2> QED
    BY <2>1, <2>2, <2>3
<1> QED
  BY <1>2, <1>3

(* When no two functions of a contract share a selector, every function   *)
(* whose registration returned stays reachable: a ready contract's        *)
(* ethCallView dispatches its selector to it if it is a view, and ethCall *)
(* otherwise, whatever was registered after it (registerMemberFunction,   *)
(* ethCall, isPayableFunction).                                            *)
THEOREM RegisteredReachableHolds ==
    ASSUME DistinctSelectors
    PROVE  Spec => []RegisteredReachable
<1>1. Init => ReachInv
  BY InitReachInv
<1>2. ReachInv /\ [Next]_vars => ReachInv'
  BY NextRegInv, NextReach DEF ReachInv
<1>3. ReachInv => RegisteredReachable
  BY ReachInvReachable
<1> QED
  BY <1>1, <1>2, <1>3, PTL DEF Spec

=============================================================================
