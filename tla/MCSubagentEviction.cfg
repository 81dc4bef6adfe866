\* Three ids competing for one completed entry and one buffered summary.
CONSTANTS
    i1 = i1  i2 = i2  i3 = i3  c1 = c1  c2 = c2  s1 = s1  s2 = s2  p1 = p1  w1 = w1  l1 = l1
    Ids = {i1, i2, i3}
    Sessions = {s1}
    Prompts = {p1}
    WorkflowRuns = {}
    NoRun = NoRun
    LoopTasks = {}
    NoLoop = NoLoop
    AnySession = AnySession
    NoId = NoId
    NoRequest = NoRequest
    Requests <- SilentRequests
    Clients = {}
    UsageScopes <- OneScope
    MaxCompleted = 1
    MaxBuffered = 1
    BufferCompletions = TRUE
SPECIFICATION Spec
SYMMETRY IdSymmetry
INVARIANTS
    RegistryConsistent
    WithinCaps
PROPERTIES
    ImplementsLifecycle
