\* One child and one asker, with the fairness of the actor.
CONSTANTS
    i1 = i1  i2 = i2  i3 = i3  c1 = c1  c2 = c2  s1 = s1  s2 = s2  p1 = p1  w1 = w1  l1 = l1
    Ids = {i1}
    Sessions = {s1}
    Prompts = {p1}
    WorkflowRuns = {w1}
    NoRun = NoRun
    LoopTasks = {l1}
    NoLoop = NoLoop
    AnySession = AnySession
    NoId = NoId
    NoRequest = NoRequest
    Requests <- AllRequests
    Clients = {c1}
    UsageScopes = {}
    MaxCompleted = 2
    MaxBuffered = 1
    BufferCompletions = FALSE
SPECIFICATION FairSpec
PROPERTIES
    OutstandingIsExact
    ImplementsLifecycle
    QuestionsAnswered
    ForegroundReleased
    WorkflowCancelAcknowledged
