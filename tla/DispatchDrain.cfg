SPECIFICATION Spec
CONSTANTS
    Actions <- MCActions
    Smtp = {1, 2}
    Confirm = {2}
    Broken = {1}
    Workers = {w1}
    Sessions = {}
    None = None
    Cap = 1
    MaxStarts = 1
    MaxSends = 0
    MaxErrors = 1
PROPERTIES QueueDrains SchedulerReturns KeepsPromise
