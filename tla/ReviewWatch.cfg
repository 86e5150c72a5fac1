SPECIFICATION Spec
CONSTANTS
    Records = {r1}
    Mailable = {r1}
    Human = {r1}
    Scrubs = {p1}
    None = None
    Window = 1
    Repop <- MCRepop
    MaxDay = 3
    MaxActions = 2
    MaxErrors = 1
    MaxLate = 1
PROPERTIES PendingOnlyDue AskedAgain
