SPECIFICATION Spec
CONSTANTS
    d = d
    t = t
    h = h
    m = m
    Procs = {d, t}
    Daemons = {d}
    Workers = {h, m}
    Proc <- MCProc
    Listings = {1}
    Unseeded = {}
    Ids = {3, 4}
    Wiped = Wiped
    None = None
INVARIANT BoundToRow
