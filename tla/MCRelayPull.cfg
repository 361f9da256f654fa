SPECIFICATION Spec
CONSTANTS
    c0 = c0
    c1 = c1
    c2 = c2
    d = d
    Refs = {main}
    Accepted = {main}
    Commits = {c0, c1, c2}
    Zero = Zero
    Descends <- Tree
    Pushes = {p1}
    Tasks = {k1}
    AllowDelete = FALSE
    RetryOn = TRUE
    MaxRounds = 3
    Budget <- SyncBudget
PROPERTIES
    PullKeepsPushes
CHECK_DEADLOCK FALSE
