SPECIFICATION FairSpec
CONSTANTS
    hello = hello  question = question  photo = photo  long = long
    Nobody = Nobody
    Messages = {hello, question, photo, long}
    HasPhoto = {photo}
    PhotoOnly = {photo}
    Long = {long}
    MaxRestarts = 0
INVARIANT
    TakenIsProcessed
CHECK_DEADLOCK FALSE
