SPECIFICATION Spec
CONSTANTS
    AllStates <- MCAllStates
    Machines <- MCMachines
    Regional <- MCRegional
    Inner <- MCInner
    PushesTo <- MCPushesTo
    PopsFrom <- MCPopsFrom
    Root = "json_parser"
    Region = "context"
    Events <- MCEvents
    InitialOf <- MCInitialOf
    Rows <- MCRows
    Allows <- MCAllows
    InitData <- MCInitData
    OnEnter <- MCOnEnter
    OnExit <- MCOnExit
    MaxTokens = 10
INVARIANTS
    TypeOK
    LowerFramesWait
    ExitsBalance
    InStateIsActive
    AcceptsJson
    EndsWithValue
PROPERTY
    PostedIsTaken
