SPECIFICATION SessionSpec
CONSTANTS
    Runs = {d1, d2}
    Clients = {c1}
    Commands = {"identity add", "playbook", "daemon stop", "scan", "daemon status"}
    Here = Here
    None = None
    Blank = Blank
    Sites <- MCSites
    SheetRows = 2
    Finds <- MCFinds
    MostRows = 2
    Items <- MCItems
    Slots = 2
INVARIANTS TypesOK DoneOnce JumpsHome RowsOnScreen CursorInside TypedTwice CleanedUp SentByHand EveryItemOnce
PROPERTIES Stops NotKept InputEnds EndsOrPolls ProbeReturns
CHECK_DEADLOCK FALSE
