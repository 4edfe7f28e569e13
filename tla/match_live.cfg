\* A reply and a bounce of one conversation side by side; Notion and Graph fail, calls post
\* twice, and the worker dies once.
SPECIFICATION FairSpec
CONSTANTS
    Msgs <- TwoMails
    Outbounds <- TwoOutbounds
    ByThread <- SecondAnswersFirst
    ByContent <- SecondNamesSecond
    Conv <- OneConversation
    Kind <- SecondBounces
    Paged <- FirstPaged
    Slots <- IngestOnly
    Attempts = 2
    MaxPosts = 2
    MaxCrashes = 1
    MaxScans = 0
    Faults <- RemoteFaults
INVARIANTS
    MapNamesMatched
PROPERTIES
    KeepsBook
    QueuedRowsGetVerdict
CHECK_DEADLOCK FALSE
