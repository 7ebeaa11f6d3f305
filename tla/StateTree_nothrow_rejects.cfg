SPECIFICATION Spec
CONSTANTS
    States <- RiskStates
    Root = "risk"
    Parent <- RiskParent
    Initial <- RiskInitial
    Regions <- NoRegions
    History <- NoStates
    Events <- RiskEvents
    TypeOf <- RiskTypeOf
    None = None
    Table <- RiskTable
    Internal <- RiskInternal
    Deferred <- RiskDeferred
    Guarantee <- RiskNothrow
    InitFacts <- NoFacts
    Throwing <- RiskThrowing
    Verdicts <- MCVerdicts
    Effects <- NoEffects
    Writes <- RiskWrites
    Posts <- NoPosts
INVARIANT
    NothrowRejects
