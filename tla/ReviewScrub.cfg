SPECIFICATION Spec
CONSTANTS
    Records = {r1}
    Mailable = {r1}
    Human = {r1}
    Scrubs = {p1, p2}
    None = None
    Window = 1
    Repop <- MCRepop
    MaxDay = 0
    MaxActions = 3
    MaxErrors = 1
    MaxLate = 1
SYMMETRY Alike
INVARIANTS TypeOK BoundedOpen ScrubCovers
PROPERTY VerifiedNotScrubbed
