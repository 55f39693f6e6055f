CONSTANTS
    c1 = c1
    c2 = c2
    c3 = c3
    Contracts = {c1, c2, c3}
    MethodsOf <- MCMethodsOf
    Overrides <- MCOverrides
    Functors = {0, 1, 2, 3, 4, 5, 6, 7}
    Selector <- MCSelector
    Values = {0}
    NoMethod = NoMethod
    NoFunctor = NoFunctor
    NoContract = NoContract

SPECIFICATION Spec

INVARIANTS
    CallsMatchRegistration
    RegisteredReachable
