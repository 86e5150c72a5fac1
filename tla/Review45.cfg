SPECIFICATION Spec
CONSTANTS
    Records = {r1}
    Mailable = {r1}
    Human = {r1}
    Scrubs = {p1}
    None = None
    Window = 2
    Repop <- MCRepop
    MaxDay = 2
    MaxActions = 2
    MaxErrors = 0
    MaxLate = 0
PROPERTY NotAskedEarly
