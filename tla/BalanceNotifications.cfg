SPECIFICATION FairSpec
CONSTANTS
    shop = shop  stall = stall
    Cabinets = {shop, stall}
    Seller <- Sellers
    Amounts = {100, 150}
    Charges = {50, 90}
    MaxRefills = 2
    MaxFailures = 1
INVARIANTS
    RecordedWasHeard
    HeardOnce
    AlertsTrue
PROPERTY
    AlertComes
CHECK_DEADLOCK FALSE
