\* One loop task with three iterations, and a coordinator that may close.
CONSTANTS
    d1 = d1
    once = once
    loop = loop
    Nothing = Nothing
    Tasks = {loop}
    Recurring = {loop}
    Durable = {}
    Foreground = {}
    Wired = TRUE
    MAX_SCHEDULED_TASKS = 1
    MaxRevision = 1
    FRESH_EVERY = 2
    MaxPrompt = 1
    MaxIterations = 3
    MaxFaults = 0
    MaxChan = 0
SPECIFICATION FairSpec
INVARIANTS
    
    IterationsDisjoint
    ResumesOwnPrompt
PROPERTIES
    HandlersReturn
CHECK_DEADLOCK FALSE
