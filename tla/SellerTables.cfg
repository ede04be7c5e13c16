SPECIFICATION Spec
CONSTANTS
    Nobody = Nobody
    sara = sara  bill = bill
    t1 = t1  t2 = t2
    h1 = h1  h2 = h2
    soap = soap  brush = brush  order = order
    People = {sara, bill}
    Tables = {t1, t2}
    Handlers = {h1, h2}
    MaxCabinets = 2
    MaxOutside = 2
    Applications = {order}
    Articles = {soap, brush}
    Listings <- SomeListings
    MaxArticleRows = 3
    MaxEdits = 3
CONSTRAINT OneAfterTheOther
SYMMETRY Alike
INVARIANTS
    OneCabinet
    AccountsLinked
    VerifiedIsTold
    TickKept
    PaidStaysPaid
    ArticlesMirrored
PROPERTY
    SyncSpec
CHECK_DEADLOCK FALSE
