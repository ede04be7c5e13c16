SPECIFICATION Spec
CONSTANTS
    a1 = a1  a2 = a2  b1 = b1
    ann = ann  bob = bob
    r1 = r1  r2 = r2
    tgbot = tgbot  api = api
    phone = phone  phoneAlias = phoneAlias  card = card
    Nobody = Nobody
    Applications = {a1, a2, b1}
    Existing = {a1, b1}
    Clients = {ann, bob}
    Requests = {r1, r2}
    Processes = {tgbot, api}
    Requisites = {phone}
    Prices = {3}
    InputAmounts = {0}
    Refills = {2}
    Commission = 1
    InitialBalance = 5
    MaxRetries = 1
    CheckboxValues = {TRUE}
    MaxOutside = 2
    ClientOf <- MCClientOf
    Percent <- MCPercent
    ProcessOf <- MCProcessOf
    Normal <- MCNormal
INVARIANTS
    SettledClosesBatch
    OpenUntilReceipt
CHECK_DEADLOCK FALSE
