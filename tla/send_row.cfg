\* One row with the code's three attempts; every collaborator may fail, and only the
\* write of Failure works.  The worker dies up to twice, and the row is opened again once.
SPECIFICATION FairSpec
CONSTANTS
    p1 = p1
    p2 = p2
    p3 = p3
    Pages <- OneRow
    ReplyPages <- NoReply
    Key <- OwnKeys
    Attempts = 3
    MaxPosts = 1
    MaxCrashes = 2
    MaxReopens = 1
    Bouncing <- OneRow
    MaxAdds = 2
    Faults <- AllButFailure
INVARIANTS
    TypeOK
    SuccessIsRecorded
    ResendIsBounded
PROPERTIES
    MailLeavesMarkedRows
    JobsEnd
    SendingSettles
CHECK_DEADLOCK FALSE
