SPECIFICATION Spec
CONSTANTS
    c0 = c0
    c1 = c1
    c2 = c2
    d = d
    Refs = {main}
    Accepted = {main}
    Commits = {c0, c1, d}
    Zero = Zero
    Descends <- Tree
    Pushes = {p1, p2}
    Tasks = {k1, k2}
    AllowDelete = FALSE
    RetryOn = TRUE
    MaxRounds = 1
    Budget <- SafetyBudget
SYMMETRY Symmetric
INVARIANTS
    LocalAhead
    OneTask
PROPERTIES
    UpstreamForward
    UpstreamKept
CHECK_DEADLOCK FALSE
