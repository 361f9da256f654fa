SPECIFICATION FairSpec
CONSTANTS
    c0 = c0
    c1 = c1
    c2 = c2
    d = d
    Refs = {main, notes}
    Accepted = {main}
    Commits = {c0, c1}
    Zero = Zero
    Descends <- Tree
    Pushes = {p1}
    Tasks = {k1}
    AllowDelete = TRUE
    RetryOn = TRUE
    MaxRounds = 2
    Budget <- DeliveryBudget
PROPERTIES
    Delivered
CHECK_DEADLOCK FALSE
