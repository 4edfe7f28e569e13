\* One mail of any kind, and any part of seven rows, two of them in two versions; two rows are added
\* or written over while the mail is looked up.
SPECIFICATION Spec
CONSTANTS
    b1 = b1
    b2 = b2
    own = own
    cust = cust
    other = other
    daemon = daemon
    t1 = t1
    offer = offer
    offers = offers
    Boxes = {b1, b2}
    Addresses = {own, cust, other, daemon}
    BoxAddress <- OwnAddress
    Daemons = {daemon}
    Threads = {t1}
    NoThread = NoThread
    Legacy = Legacy
    Texts = {offer, offers}
    NoText = NoText
    Within <- OfferInOffers
    Mails <- SomeMails
    Rows <- SomeRows
    Strips = 6
    RelaxedSubject = TRUE
    LegacyAge = 2
    BounceAge = 2
    MaxWrites = 2
    NoRow = NoRow
INVARIANTS
    TypeOK
    ThreadComesFirst
    GuessIsSafe
    BounceIsTraced
CHECK_DEADLOCK FALSE
