SPECIFICATION FairSpec
CONSTANTS
    hello = hello  question = question  photo = photo  long = long
    Nobody = Nobody
    Messages = {hello, question, photo, long}
    HasPhoto = {photo}
    PhotoOnly = {photo}
    Long = {long}
    MaxRestarts = 1
INVARIANTS
    Inv
    OneTimer
    Accounted
    WatchedOver
PROPERTIES
    EverythingTaken
    MailboxSpec
CHECK_DEADLOCK FALSE
