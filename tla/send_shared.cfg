\* Three rows, one attempt each; two write to the same person under the same subject,
\* and the third is a reply.
SPECIFICATION Spec
CONSTANTS
    p1 = p1
    p2 = p2
    p3 = p3
    Pages <- ThreeRows
    ReplyPages <- ReplyP3
    Key <- SharedKey
    Attempts = 1
    MaxPosts = 1
    MaxCrashes = 0
    MaxReopens = 0
    Bouncing <- OneRow
    MaxAdds = 1
    Faults <- FailureAndGraph
INVARIANTS
    RowsNameMails
PROPERTIES
    KeepsLedger
CHECK_DEADLOCK FALSE
