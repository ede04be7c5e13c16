SPECIFICATION Spec
CONSTANTS
    ann = ann  soap = soap  brush = brush
    timer = timer  other = other
    Nobody = Nobody
    Clients = {ann}
    Articles = {soap, brush}
    MaxApplications = 2
    MaxItems = 2
    Timers = {timer}
    Others = {other}
    InitialLeads = 1
    Purchases = {2}
    MaxOutside = 1
SYMMETRY Alike
CONSTRAINT OneAtATime
INVARIANTS
    OneApplication
    StepsInOrder
    LeadsAccounted
    LeadOnce
    DialogServes
CHECK_DEADLOCK FALSE
