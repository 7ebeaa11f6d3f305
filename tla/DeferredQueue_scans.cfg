SPECIFICATION FairSpec
CONSTANTS
    States <- MCStates
    Types <- MCTypes
    InitStates <- MCInitStates
    Known <- MCKnown
    Targets <- MCTargets
    InState <- MCInState
    Deferrable <- MCDeferrable
    Guarded <- MCGuarded
    MaxEvents = 6
INVARIANTS
    TypeOK
    IdsMatchEvents
    NoRunnableEventLeft
    EventsConserved
    HandledInOrder
PROPERTY
    DrainEnds
