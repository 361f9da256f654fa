SPECIFICATION FairSpec
CONSTANTS
    Tasks = {t1, t2, t3}
    Workers = {w1, w2, w3}
    Stoppers = {s1, s2}
    Capacity = 2
    StartWorkers = 1
    MaxWorkers = 2
    MaxResizes = 2
    NoTask = NoTask
INVARIANTS
    RunOrDropOnce
    StopIsFinal
    OneTaskAfterRetire
PROPERTIES
    AcceptedIsSettled
    StopReturns
CHECK_DEADLOCK FALSE
