\* The API process: a call, a health probe over two apps, and a change of the list.
SPECIFICATION FairSpec
CONSTANTS
    a1 = a1
    a2 = a2
    x1 = x1
    Apps = {a1, a2}
    Creds = {c1, c2}
    NoCred = NoCred
    Calls = {x1}
    AppOf <- AllOnFirst
    Binary = {}
    LastAttempt = 2
    Sweeps = {health}
    Admins = {console}
    MaxWrites = 1
    Faults = {"entra", "postgres"}
INVARIANTS
    TypeOK
    ClientIsCurrent
    PostsBounded
PROPERTIES
    ReloadEvicts
    CallsEnd
    ReloadSettles
CHECK_DEADLOCK FALSE
