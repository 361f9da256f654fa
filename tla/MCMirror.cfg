SPECIFICATION FairSpec
CONSTANTS
    c1 = c1
    c2 = c2
    c3 = c3
    main = main
    manual = manual
    side = side
    mainlock = mainlock
    Refs = {main, side, mainlock}
    LockOf <- LockOfMain
    Garbled = Garbled
    Request = Request
    Commits = {c1, c2, c3}
    Nil = Nil
    Sync = Sync
    Writers = {Sync, manual}
    Reason <- Kinds
    Parent <- Line
    MainRef = main
    First <- FirstRefs
    Keep = 1
    MaxBytes = 1
    MaxClock = 2
    MaxStepBacks = 1
    MaxEvents = 3
INVARIANTS
    ListedHasBundle
    RefsComplete
    HeadResolves
PROPERTIES
    SnapshotSurvives
    DestroyedIsArchived
    CatchesUp
CHECK_DEADLOCK FALSE
