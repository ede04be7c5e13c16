SPECIFICATION Spec
CONSTANTS
    a1 = a1  a2 = a2  b1 = b1
    ann = ann  bob = bob
    r1 = r1  r2 = r2
    tgbot = tgbot  api = api
    phone = phone  phoneAlias = phoneAlias  card = card
    Nobody = Nobody
    Applications = {a1, a2}
    Existing = {a1}
    Clients = {ann}
    Requests = {r1, r2}
    Processes = {tgbot, api}
    Requisites = {phone}
    Prices = {3}
    InputAmounts = {0, 4}
    Refills = {2}
    Commission = 1
    InitialBalance = 3
    MaxRetries = 2
    CheckboxValues = {TRUE}
    MaxOutside = 0
    ClientOf <- MCClientOf
    Percent <- MCPercent
    ProcessOf <- MCProcessOf
    Normal <- MCNormal
INVARIANTS
    TransferReserved
CHECK_DEADLOCK FALSE
