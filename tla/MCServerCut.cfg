SPECIFICATION Spec
CONSTANTS
    a = a
    b = b
    alice = alice
    builtin = builtin
    None = None
    Files <- Contents
    DefaultUser = builtin
    DefaultPush = 2
    DefaultSyncs = 5
    MaxEvents = 2
    Conns = {k1, k2}
    Packs = 1
    Buffer = 1
    Hosts = {"main", "test"}
PROPERTIES
    NoHardCut
CHECK_DEADLOCK FALSE
