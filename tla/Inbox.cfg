SPECIFICATION Spec
CONSTANTS
    Actions = {1}
    Smtp = {1}
    Of <- MCOf
    Msgs = {1, 2}
    From <- MCFrom
    Token <- MCToken
    Linked = {2}
    Links <- MCLinks
    Noise = {1}
    None = None
    AutoFetch = TRUE
    Cap = 1
    ChCap = 1
    MaxMails = 1
    MaxDrops = 1
    MaxStops = 1
INVARIANTS TypeOK HandledOnce NothingOverlooked
PROPERTIES ReopenedOnlyInFlight MailIsRead
