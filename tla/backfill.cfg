\* The four scenes of MCBackfill, which gives the sets of owners, pages and bounds of each.
SPECIFICATION SceneSpec
CONSTANTS
    None = None
    q1 = q1
    m1 = m1
    o1 = o1
    o2 = o2
    Requests = {q1}
    Msgs = {m1}
    Paged = {m1}
    OtherOwners = {o1, o2}
    Key <- Keys
    Readable = {q1, o1, o2}
    Matching = {q1, o1}
    Bouncing = {o1}
    PageSize = 1
    MaxPosts = 1
    MaxPasses = 1
    MaxSyncs = 1
    MaxSends <- Sends
    MaxCrashes = 1
    Faults <- AllFaults
INVARIANTS
    TypeOK
    RowsAreConsistent
    PassCovers
PROPERTIES
    KindsStay
    PassEnds
CHECK_DEADLOCK FALSE
