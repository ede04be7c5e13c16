SPECIFICATION FairSpec
CONSTANTS
    refill = refill  again = again  leads = leads  legacy = legacy
    v1 = v1  v2 = v2 
    Payout = Payout
    Nobody = Nobody
    Payments = {refill, again, leads, legacy}
    Kind <- MCKind
    Amount <- MCAmount
    Verdicts = {v1, v2}
    Charges = {1, 2}
    MaxPayouts = 2
PROPERTIES
    WaitingIsAsked
CHECK_DEADLOCK FALSE
