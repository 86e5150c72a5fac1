SPECIFICATION Spec
CONSTANTS
    Actions = {1}
    Smtp = {1}
    Confirm = {}
    Broken = {}
    Workers = {w1, w2}
    Sessions = {t1}
    None = None
    Cap = 1
    MaxStarts = 2
    MaxSends = 1
    MaxErrors = 1
SYMMETRY Alike
INVARIANTS TypeOK NoAttemptForgotten RequeuedOnlyByLoss SentMeansMailed BoundedDuplicates
