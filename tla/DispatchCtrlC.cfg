SPECIFICATION Spec
CONSTANTS
    Actions <- MCActions
    Smtp = {1, 2}
    Confirm = {}
    Broken = {2}
    Workers = {w1, w2}
    Sessions = {t1}
    None = None
    Cap = 1
    MaxStarts = 0
    MaxSends = 1
    MaxErrors = 0
PROPERTY StopsBetweenMessages
