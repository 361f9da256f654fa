SPECIFICATION Spec
CONSTANTS
    Base = 2
    Low = 2
    MaxObject = 20
    MaxHead = 5
    MaxDistance = 12
    Objects <- MCObjects
    Type <- MCType
    Links <- MCLinks
    Gitlinks <- MCGitlinks
    Size <- MCSize
    DeltaSize = 7
    Tips <- MCTips
    Starts <- MCStarts
    Served <- MCServed
    MaxFaults = 1
    MaxAttempts = 2
INVARIANTS
    Complete
    Genuine
    NeverRefused
    SentExactly
CHECK_DEADLOCK FALSE
