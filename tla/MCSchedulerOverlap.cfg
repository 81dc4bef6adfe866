\* One loop task, two iterations, and a subagent that outlives the first.
CONSTANTS
    d1 = d1
    once = once
    loop = loop
    Nothing = Nothing
    Tasks = {loop}
    Recurring = {loop}
    Durable = {}
    Foreground = {}
    Wired = TRUE
    MAX_SCHEDULED_TASKS = 1
    MaxRevision = 1
    FRESH_EVERY = 2
    MaxPrompt = 0
    MaxIterations = 2
    MaxFaults = 0
    MaxChan = 0
SPECIFICATION Spec
INVARIANTS
    DescendantSkipsFire
CHECK_DEADLOCK FALSE
