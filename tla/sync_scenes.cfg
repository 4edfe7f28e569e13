\* The three scenes of MCSyncScenes; the constants of the first group are Subscriptions'.
SPECIFICATION SceneSpec
CONSTANTS
    Folders = {inbox}
    NoRow = NoRow
    Ttl = 3
    Lead = 1
    MaxHours = 5
    MaxCrashes = 1
    Faults <- SubscriptionFaults
    m1 = m1
    m2 = m2
    m3 = m3
    inbox = inbox
    junk = junk
    NoLink = NoLink
INVARIANTS
    TypeOK
    SkippedIsHeld
    CursorCovers
PROPERTIES
    MailIsIngested
CHECK_DEADLOCK FALSE
