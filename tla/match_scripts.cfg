\* One mail with two jobs, the first outbound mail with a Notion page: the scripts link, requeue,
\* flip and set back while both runs are at work, everything fails and the worker dies once.
SPECIFICATION Spec
CONSTANTS
    Msgs <- OneMail
    Outbounds <- TwoOutbounds
    ByThread <- AllInThread
    ByContent <- NoneByContent
    Conv <- OneConversation
    Kind <- AllAuto
    Paged <- FirstPaged
    Slots <- WithRequeue
    Attempts = 2
    MaxPosts = 1
    MaxCrashes = 1
    MaxScans = 1
    Faults <- AllFaults
INVARIANTS
    TypeOK
    FinalIsReflected
CHECK_DEADLOCK FALSE
