SPECIFICATION Spec
CONSTANTS
    States <- PlantStates
    Root = "plant"
    Parent <- PlantParent
    Initial <- PlantInitial
    Regions <- PlantRegions
    History <- NoStates
    Events <- PlantEvents
    TypeOf <- PlantTypeOf
    None = None
    Table <- PlantTable
    Internal <- PlantInternal
    Deferred <- PlantDeferred
    Guarantee <- PlantGuarantee
    InitFacts <- NoFacts
    Throwing <- PlantThrowing
    Verdicts <- MCVerdicts
    Effects <- NoEffects
    Writes <- PlantWrites
    Posts <- NoPosts
INVARIANTS
    TypeOK
    EntriesMatch
    ForgottenUnlessHistory
    AnswersAsPublished
    AnswerIsTrue
    RolledBack
PROPERTY
    EntryOrder
