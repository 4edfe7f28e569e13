\* Two rows and two requests; Notion, Graph and the network fail, and the API process dies once.
SPECIFICATION FairSpec
CONSTANTS
    q1 = q1
    q2 = q2
    m1 = m1
    m2 = m2
    None = None
    Requests <- TwoRequests
    Msgs <- TwoRows
    Paged <- PagedM1
    OtherOwners = {}
    MaxPosts = 1
    MaxCrashes = 1
    MaxOpens = 2
    Faults = {"notion", "graph", "network"}
INVARIANTS
    TypeOK
    ReportedIsDone
    RecordedIsStamped
    ClickSendsOwnText
PROPERTIES
    SendingEnds
    EditorComes
CHECK_DEADLOCK FALSE
