SPECIFICATION FairSpec
CONSTANTS
    States <- MCStates
    InitStates <- MCInitStates
    Known <- MCKnown
    Types <- MCTypes
    Priorities <- MCPriorities
    Targets <- MCTargets
    InState <- MCInState
    Guarded <- MCGuarded
    Deferrable <- MCDeferrable
    MaxEvents = 4
INVARIANTS
    TypeOK
    EventsConserved
    NoRunnableEventLeft
    ScansNest
    NotOvertaken
PROPERTIES
    UrgentFirst
    ComesToRest
