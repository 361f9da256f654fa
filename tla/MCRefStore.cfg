SPECIFICATION Spec
CONSTANTS
    Updates = {u1, u2, u3}
    Oids = {a, b}
    Zero = Zero
    NoFile = NoFile
    Empty = Empty
    Orig = Orig
SYMMETRY Symmetric
INVARIANTS
    LockOwned
    NeverTorn
    NoLeakedLock
PROPERTIES
    AtomicUntilStolen
CHECK_DEADLOCK FALSE
