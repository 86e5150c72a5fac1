SPECIFICATION Spec
CONSTANTS
    Actions = {1}
    Smtp = {1}
    Of <- MCOf
    Msgs = {1}
    From <- MCFrom
    Token <- MCToken
    Linked = {1}
    Links <- MCLinks
    Noise = {}
    None = None
    AutoFetch = FALSE
    Cap = 1
    ChCap = 1
    MaxMails = 1
    MaxDrops = 0
    MaxStops = 0
PROPERTY QueuedUntilDelivered
