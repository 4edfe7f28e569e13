\* One mail: the poll, a delta tick, its notification and the subscription tick at once, with a
\* failure, a crash, a link that Graph forgets, a mailbox disabled and a mail gone meanwhile.
SPECIFICATION Spec
CONSTANTS
    m1 = m1
    inbox = inbox
    NoLink = NoLink
    Msgs = {m1}
    Folders = {inbox}
    Folder <- AllInInbox
    Received <- Times
    Windows <- Early
    PageSize = 1
    Ticks <- OneTick
    Modes <- AllModes
    Attempts = 2
    MaxFailures = 1
    MaxCrashes = 1
    MaxExpiries = 1
    Faults <- AllFaults
INVARIANTS
    TypeOK
    LinkIsIngested
CHECK_DEADLOCK FALSE
