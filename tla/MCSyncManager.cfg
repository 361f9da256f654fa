SPECIFICATION FairSpec
CONSTANTS
    r1 = r1
    r2 = r2
    Repos = {r1, r2}
    Schedulers = {s1, s2}
    Callers = {c1, c2}
    Workers = {w1}
    Capacity = 1
    Intervals = {0, 1, 2}
    Boot <- BootOne
    Absent = Absent
    Gone = Gone
    None = None
INVARIANTS
    OneSync
    SlotHasHolder
    NoStrayScheduler
    ScheduleFollows
PROPERTIES
    StopReturns
    SlotComesBack
CHECK_DEADLOCK FALSE
