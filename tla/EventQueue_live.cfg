SPECIFICATION FairSpec
CONSTANTS
    t1 = t1
    t2 = t2
    t3 = t3
    e1 = e1
    e2 = e2
    e3 = e3
    e4 = e4
    NoEvent = NoEvent
    NoActor = NoActor
    Threads <- TwoThreads
    MaxDepth = 2
    Events <- ThreeEvents
    Throwing <- First
    Uncopyable <- Second
PROPERTIES
    AcceptedRuns
    CallsReturn
