\* Two children: of one workflow run, owned by two sessions, or spawned by one another.
CONSTANTS
    i1 = i1  i2 = i2  i3 = i3  c1 = c1  c2 = c2  s1 = s1  s2 = s2  p1 = p1  w1 = w1  l1 = l1
    Ids = {i1, i2}
    Sessions = {s1, s2}
    Prompts = {p1}
    WorkflowRuns = {w1}
    NoRun = NoRun
    LoopTasks = {}
    NoLoop = NoLoop
    AnySession = AnySession
    NoId = NoId
    NoRequest = NoRequest
    Requests <- WorkflowRequests
    Clients = {c1}
    UsageScopes = {}
    MaxCompleted = 2
    MaxBuffered = 1
    BufferCompletions = FALSE
SPECIFICATION Spec
SYMMETRY IdSymmetry
INVARIANTS
    NobodyForgotten
    
PROPERTIES
    CancelAckMeansQuiet
    ExitLosesNobody
