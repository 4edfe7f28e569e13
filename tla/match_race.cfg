\* Two replies of one conversation at once, nothing fails: one run loses the insert
\* into conversation_map.
SPECIFICATION Spec
CONSTANTS
    Msgs <- TwoMails
    Outbounds <- OneOutbound
    ByThread <- AllInThread
    ByContent <- NoneByContent
    Conv <- OneConversation
    Kind <- AllHuman
    Paged <- FirstPaged
    Attempts = 3
    MaxPosts = 1
    MaxScans = 0
    Slots <- IngestOnly
    MaxCrashes = 0
    Faults <- NoFaults
INVARIANTS
    FinalReplyHasChild
CHECK_DEADLOCK FALSE
