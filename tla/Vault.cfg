SPECIFICATION StorageSpec
CONSTANTS
    d = d
    t = t
    h = h
    m = m
    Procs = {d, t}
    Daemons = {d}
    Workers = {h, m}
    Proc <- MCProc
    Listings = {1, 2, 6}
    Unseeded = {6}
    Ids = {3, 4, 5}
    Wiped = Wiped
    None = None
    Accounts = {a1, a2}
    Branded = {a1}
    Sessions = {s1, s2}
    Local = {s1}
    Nil = Nil
    Void = Void
    Torn = Torn
    MaxOps = 3
    MaxFails = 1
INVARIANTS TypeOK OneKey ConfigWhole MemoryOfFile LinkedAlone
PROPERTIES SavedAlone RowsStay
