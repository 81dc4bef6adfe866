\* A durable and a one-shot task, no loop subagents.
CONSTANTS
    d1 = d1
    once = once
    loop = loop
    Nothing = Nothing
    Tasks = {d1, once}
    Recurring = {d1}
    Durable = {d1}
    Foreground = {}
    Wired = FALSE
    MAX_SCHEDULED_TASKS = 2
    MaxRevision = 2
    FRESH_EVERY = 2
    MaxPrompt = 0
    MaxIterations = 0
    MaxFaults = 2
    MaxChan = 1
SPECIFICATION Spec
INVARIANTS
    TypeOK
    
    ReservationFresh
    
CHECK_DEADLOCK FALSE
