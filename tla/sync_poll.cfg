\* Polling alone, nothing fails.
SPECIFICATION FairSpec
CONSTANTS
    m1 = m1
    inbox = inbox
    NoLink = NoLink
    Msgs = {m1}
    Folders = {inbox}
    Folder <- AllInInbox
    Received <- Times
    Windows <- Early
    PageSize = 2
    Ticks = {}
    Modes <- Polling
    Attempts = 2
    MaxFailures = 0
    MaxCrashes = 0
    MaxExpiries = 0
    Faults = {}
PROPERTIES
    MailIsIngested
CHECK_DEADLOCK FALSE
