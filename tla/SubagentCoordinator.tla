------------------------- MODULE SubagentCoordinator -------------------------
(***************************************************************************)
(* The single-writer subagent coordinator of xai-grok-tools                *)
(* (implementations/grok_build/task/coordinator.rs and its state and query *)
(* modules).  One actor owns the registry of children; parents, the model's *)
(* tools and the workflow engine talk to it through a command channel, and *)
(* every request carries a oneshot reply channel whose receiver may be     *)
(* dropped at any moment.  Child runners report back through an internal   *)
(* channel and by the completion of their run future.                      *)
(*                                                                         *)
(* One branch of the actor's select! is one action.  Time is abstracted:   *)
(* a deadline is armed or not, and the timer branch chooses which armed    *)
(* deadlines have passed.  Per-child flags are sets of ids.                *)
(*                                                                         *)
(* An operator whose name ends in _bug is a faulty variant of the one it   *)
(* precedes.  No action uses it: it is there to confirm that the property  *)
(* named beside it would notice the mistake.                               *)
(***************************************************************************)
EXTENDS Naturals, Sequences, FiniteSets

CONSTANTS
    Ids,                \* subagent ids; an id is also its child session's id
    Sessions,           \* root (user-facing) session ids
    Prompts,            \* parent prompt (turn) ids
    WorkflowRuns,       \* workflow run ids
    NoRun,              \* owner of a child spawned by the task tool
    LoopTasks,          \* scheduler loop ids
    NoLoop,             \* a request outside any loop
    AnySession,         \* an unscoped backend: parent_session_id = None
    NoId, NoRequest,
    Requests,           \* the spawn requests the environment may submit
    Clients,            \* concurrent askers, each with one question in flight
    UsageScopes,        \* the (session, prompt) pairs whose usage flag is exercised
    MaxCompleted,       \* MAX_COMPLETED_ENTRIES
    MaxBuffered,        \* MAX_PENDING_COMPLETIONS
    BufferCompletions   \* CoordinatorConfig.buffer_completions

RequestType ==
    [parent : Sessions \cup Ids, prompt : Prompts, run : WorkflowRuns \cup {NoRun},
     loop : LoopTasks \cup {NoLoop}, background : BOOLEAN, toCompletion : BOOLEAN,
     surface : BOOLEAN, defBackground : BOOLEAN]

ASSUME RequestsAssumption == Requests \subseteq RequestType
ASSUME ScopesAssumption == UsageScopes \subseteq Sessions \X Prompts
ASSUME BoundsAssumption ==
    /\ MaxCompleted \in Nat \ {0}
    /\ MaxBuffered \in Nat \ {0}
    /\ BufferCompletions \in BOOLEAN
ASSUME SentinelsAssumption ==
    /\ NoRun \notin WorkflowRuns
    /\ NoLoop \notin LoopTasks
    /\ NoId \notin Ids
    /\ NoRequest \notin RequestType
    /\ AnySession \notin Sessions \cup Ids

VARIABLES
    pending, active, completed,     \* the three maps of the registry (their keys)
    completedOrder,                 \* completed_order
    runs,                           \* run futures not yet finished
    request,                        \* the (re-rooted) request of each id
    cancelled, controlCancelled,    \* cancellation token; ChildControl::cancel
    killed, handleOnly, deadline,   \* explicitly_killed, handle_only, foreground_deadline
    spawnReply,                     \* children whose record holds the spawn reply sender
    caller,                         \* what the spawn caller's receiver has seen
    status,                         \* terminal status of finished children
    waiterDelivered, surfaced,      \* of the CompletionDisposition
    pendingCompletions,             \* buffered completion summaries
    usageNotApplied,                \* usage_not_applied_prompts
    runner, reports,                \* runner progress; Started events in flight
    inbox, ask,                     \* each client's receiver and its open question
    waiters,                        \* clients blocked on their child
    workflowCancelWaiters,          \* <<client, run>> awaiting a workflow's end
    progress,                       \* <<client, id>> progress futures
    listRemaining, listed,          \* list_requests; ids gathered for a client
    lookups,                        \* clients with a validate/describe future
    commandsOpen, stopped

registryVars == <<pending, active, completed, completedOrder, runs, request>>
flagVars == <<cancelled, controlCancelled, killed, handleOnly, deadline, spawnReply>>
deliveryVars == <<caller, status, waiterDelivered, surfaced>>
runnerVars == <<runner, reports>>
clientVars == <<inbox, ask, waiters, workflowCancelWaiters, progress,
                listRemaining, listed, lookups>>
bufferVars == <<pendingCompletions, usageNotApplied>>
lifeVars == <<commandsOpen, stopped>>
vars == <<registryVars, flagVars, deliveryVars, runnerVars, clientVars,
          bufferVars, lifeVars>>

\* SubagentResult::status: "ended" stands for completed and for failed, which the
\* coordinator treats alike.  An answer "terminal" carries either status.
Statuses == {"ended", "cancelled"}
Answers == {"terminal", "initializing", "running", "missing", "ack", "lost"}
Kinds == {"query", "inspect", "list", "workflow", "lookup"}
NoAsk == [kind |-> "none", id |-> NoId]

------------------------------------------------------------------------------
(* Helpers *)

Live == pending \cup active
IsWorkflow(i) == request[i].run # NoRun
BelongsToSession(i, s) == s = AnySession \/ request[i].parent = s

\* workflow_outstanding: the run's live children, of whatever session.
WorkflowOutstanding(run) == {i \in Live : request[i].run = run}

\* ForegroundChild::caller_gone
Abandoned ==
    {i \in Live : i \notin handleOnly /\ i \in spawnReply /\ caller[i] = "gone"}
AbandonedWorkflow == {i \in Abandoned : IsWorkflow(i)}
AbandonedTask == Abandoned \ AbandonedWorkflow

\* reap_abandoned_callers, then cancellation of `targets` with `kills` marked
\* explicit: what every command does to the flags of the children it finds.
ReapAndCancel(targets, kills) ==
    /\ spawnReply' = spawnReply \ Abandoned
    /\ handleOnly' = handleOnly \cup AbandonedTask
    /\ deadline' = deadline \ AbandonedTask
    /\ cancelled' = cancelled \cup AbandonedWorkflow \cup targets
    /\ controlCancelled' =
           controlCancelled \cup ((AbandonedWorkflow \cup targets) \cap active)
    /\ killed' = killed \cup kills

ReapAbandonedCallers == ReapAndCancel({}, {})

\* A oneshot send: lost on a dropped receiver, whose slot is then free.
Deliver(c, a) == IF inbox[c] = "awaiting" THEN a ELSE "idle"

Ready(c) == inbox[c] \notin {"awaiting", "gone"}

\* The client's question is answered in the same step.
Reply(c, a, ids) ==
    /\ inbox' = [inbox EXCEPT ![c] = a]
    /\ listed' = [listed EXCEPT ![c] = ids]
    /\ UNCHANGED <<ask, waiters, workflowCancelWaiters, progress, listRemaining, lookups>>

\* The client's reply sender is parked in the actor.
Park(c, kind, i) ==
    /\ inbox' = [inbox EXCEPT ![c] = "awaiting"]
    /\ ask' = [ask EXCEPT ![c] = [kind |-> kind, id |-> i]]
    /\ listed' = [listed EXCEPT ![c] = {}]

\* A snapshot built from a result that is not there yet (TypeOK).
ReadySnapshot_bug(i) ==
    IF i \notin completed \cup pending \/ IsWorkflow(i) THEN "missing" ELSE status[i]

\* ready_snapshot
ReadySnapshot(i) ==
    IF i \notin completed \cup pending \/ IsWorkflow(i) THEN "missing"
    ELSE IF i \in completed THEN "terminal" ELSE "initializing"

\* The still_active test is forgotten (NoStaleRunning).
ProgressAnswer_bug(kind, i) == "running"

\* What finish_progress sends for a query or an inspection.
ProgressAnswer(kind, i) ==
    IF i \in active THEN "running"
    ELSE IF kind = "query" THEN ReadySnapshot(i)
    ELSE IF i \in completed THEN "terminal" ELSE "missing"

------------------------------------------------------------------------------
Init ==
    /\ pending = {} /\ active = {} /\ completed = {} /\ runs = {}
    /\ completedOrder = <<>>
    /\ request = [i \in Ids |-> NoRequest]
    /\ cancelled = {} /\ controlCancelled = {} /\ killed = {}
    /\ handleOnly = {} /\ deadline = {} /\ spawnReply = {}
    /\ caller = [i \in Ids |-> "none"]
    /\ status = [i \in Ids |-> "none"]
    /\ waiterDelivered = {} /\ surfaced = {}
    /\ pendingCompletions = <<>> /\ usageNotApplied = {}
    /\ runner = [i \in Ids |-> "none"] /\ reports = {}
    /\ inbox = [c \in Clients |-> "idle"]
    /\ ask = [c \in Clients |-> NoAsk]
    /\ waiters = {} /\ workflowCancelWaiters = {} /\ progress = {} /\ lookups = {}
    /\ listRemaining = [c \in Clients |-> 0]
    /\ listed = [c \in Clients |-> {}]
    /\ commandsOpen = TRUE /\ stopped = FALSE

------------------------------------------------------------------------------
(* Commands: handle_command, each preceded by reap_abandoned_callers *)

\* The nested request is silenced but keeps its parent (NestedChildrenRooted).
ReRooted_bug(req) == IF req.parent \in active THEN [req EXCEPT !.surface = FALSE] ELSE req

\* The request as stored: a spawn from an active child's session is re-rooted
\* to that child's own parent, silenced, and inherits its loop.
ReRooted(req) ==
    IF req.parent \in active
    THEN [req EXCEPT !.parent = request[req.parent].parent,
                     !.surface = FALSE,
                     !.loop = IF @ = NoLoop THEN request[req.parent].loop ELSE @]
    ELSE req

\* The budget is armed for the callers that asked for none (ForegroundReleased).
ForegroundDeadline_bug(i, req) == IF req.toCompletion THEN {i} ELSE {}

\* Only a foreground spawn that may be handed off gets a foreground deadline.
ForegroundDeadline(i, req) ==
    IF req.background \/ req.toCompletion THEN {} ELSE {i}

\* A fresh id enters pending and its run future is pushed.  A request whose
\* parent is a child session was sent by a child that had been promoted, but
\* may be handled after that child finished.  A Started event never waits
\* across an eviction: the select! is biased towards the internal channel.
Spawn(i, req) ==
    /\ commandsOpen
    /\ i \notin Live \cup completed \cup reports
    /\ req.parent \in Ids => req.parent # i /\ runner[req.parent] = "ready"
    /\ pending' = pending \cup {i}
    /\ runs' = runs \cup {i}
    /\ request' = [request EXCEPT ![i] = ReRooted(req)]
    /\ spawnReply' = (spawnReply \ Abandoned) \cup {i}
    /\ handleOnly' = ((handleOnly \cup AbandonedTask) \ {i})
                        \cup (IF req.background THEN {i} ELSE {})
    /\ deadline' = (deadline \ AbandonedTask) \cup ForegroundDeadline(i, req)
    /\ cancelled' = (cancelled \cup AbandonedWorkflow) \ {i}
    /\ controlCancelled' = (controlCancelled \cup (AbandonedWorkflow \cap active)) \ {i}
    /\ killed' = killed \ {i}
    /\ caller' = [caller EXCEPT ![i] = "waiting"]
    /\ status' = [status EXCEPT ![i] = "none"]
    /\ waiterDelivered' = waiterDelivered \ {i}
    /\ surfaced' = surfaced \ {i}
    /\ runner' = [runner EXCEPT ![i] = "init"]
    /\ UNCHANGED <<active, completed, completedOrder, reports, clientVars,
                   bufferVars, lifeVars>>

\* A spawn of an id the registry still knows is answered with an error; so are
\* the read-only commands (ListActive, RegistryCounts, SpawnedRefs and
\* LoopUnitActive): all they change is what reaping changes.
ReadOnlyCommand ==
    /\ commandsOpen
    /\ ReapAbandonedCallers
    /\ UNCHANGED <<registryVars, deliveryVars, runnerVars, clientVars, bufferVars, lifeVars>>

Visible(i, s) ==
    i \in Live \cup completed /\ BelongsToSession(i, s) /\ ~IsWorkflow(i)

\* handle_query, answered at once.
QueryNow(c, i, s) ==
    /\ commandsOpen /\ Ready(c)
    /\ Visible(i, s) => i \notin active
    /\ ReapAbandonedCallers
    /\ Reply(c, IF Visible(i, s) THEN ReadySnapshot(i) ELSE "missing", {})
    /\ UNCHANGED <<registryVars, deliveryVars, runnerVars, bufferVars, lifeVars>>

\* handle_query with block = true on a live child.
QueryBlocking(c, i, s) ==
    /\ commandsOpen /\ Ready(c)
    /\ Visible(i, s) /\ i \in Live
    /\ ReapAbandonedCallers
    /\ Park(c, "query", i)
    /\ waiters' = waiters \cup {c}
    /\ UNCHANGED <<registryVars, deliveryVars, runnerVars, bufferVars, lifeVars,
                   workflowCancelWaiters, progress, listRemaining, lookups>>

\* handle_query or handle_inspect on an active child: a progress future.
AskProgress(c, i, s, kind) ==
    /\ commandsOpen /\ Ready(c)
    /\ i \in active /\ BelongsToSession(i, s)
    /\ kind \in {"query", "inspect"}
    /\ kind = "query" => ~IsWorkflow(i)
    /\ ReapAbandonedCallers
    /\ Park(c, kind, i)
    /\ progress' = progress \cup {<<c, i>>}
    /\ UNCHANGED <<registryVars, deliveryVars, runnerVars, bufferVars, lifeVars,
                   waiters, workflowCancelWaiters, listRemaining, lookups>>

\* handle_inspect, answered at once; unlike a query it shows workflow children.
InspectNow(c, i, s) ==
    /\ commandsOpen /\ Ready(c)
    /\ ~(i \in active /\ BelongsToSession(i, s))
    /\ ReapAbandonedCallers
    /\ Reply(c, IF i \notin completed \cup pending \/ ~BelongsToSession(i, s) THEN "missing"
                ELSE IF i \in completed THEN "terminal" ELSE "initializing", {})
    /\ UNCHANGED <<registryVars, deliveryVars, runnerVars, bufferVars, lifeVars>>

Listable(s) == {i \in active : request[i].parent = s /\ ~IsWorkflow(i)}

\* handle_list_running
ListRunning(c, s) ==
    /\ commandsOpen /\ Ready(c)
    /\ ReapAbandonedCallers
    /\ UNCHANGED <<registryVars, deliveryVars, runnerVars, bufferVars, lifeVars>>
    /\ \/ /\ Listable(s) = {}
          /\ Reply(c, "ack", {})
       \/ /\ Listable(s) # {}
          /\ Park(c, "list", NoId)
          /\ listRemaining' = [listRemaining EXCEPT ![c] = Cardinality(Listable(s))]
          /\ progress' = progress \cup ({c} \X Listable(s))
          /\ UNCHANGED <<waiters, workflowCancelWaiters, lookups>>

\* validate_type and describe_type: a future that only answers its asker.
AskLookup(c) ==
    /\ commandsOpen /\ Ready(c)
    /\ ReapAbandonedCallers
    /\ Park(c, "lookup", NoId)
    /\ lookups' = lookups \cup {c}
    /\ UNCHANGED <<registryVars, deliveryVars, runnerVars, bufferVars, lifeVars,
                   waiters, workflowCancelWaiters, progress, listRemaining>>

\* Cancel{SubagentId}: cancel_one with explicit = true.
CancelSubagent(c, i, s) ==
    LET mine == BelongsToSession(i, s)
        hit  == IF i \in Live /\ mine THEN {i} ELSE {}
    IN  /\ commandsOpen /\ Ready(c)
        /\ ReapAndCancel(hit, hit)
        /\ Reply(c, IF hit # {} THEN "ack"
                    ELSE IF i \in completed /\ mine THEN "terminal" ELSE "missing", {})
        /\ UNCHANGED <<registryVars, deliveryVars, runnerVars, bufferVars, lifeVars>>

\* Cancel{ParentPromptId}: cancel_parent_prompt.
CancelParentPrompt(c, p, s) ==
    /\ commandsOpen /\ Ready(c)
    /\ ReapAndCancel({i \in Live : request[i].prompt = p /\ BelongsToSession(i, s)}, {})
    /\ Reply(c, "ack", {})
    /\ UNCHANGED <<registryVars, deliveryVars, runnerVars, bufferVars, lifeVars>>

\* Cancel{WorkflowRunId}: the reply waits until the run has no live child.
CancelWorkflow(c, run, s) ==
    /\ commandsOpen /\ Ready(c)
    /\ ReapAndCancel({i \in WorkflowOutstanding(run) : BelongsToSession(i, s)}, {})
    /\ UNCHANGED <<registryVars, deliveryVars, runnerVars, bufferVars, lifeVars>>
    /\ \/ /\ WorkflowOutstanding(run) = {}
          /\ Reply(c, "ack", {})
       \/ /\ WorkflowOutstanding(run) # {}
          /\ Park(c, "workflow", NoId)
          /\ workflowCancelWaiters' = workflowCancelWaiters \cup {<<c, run>>}
          /\ UNCHANGED <<waiters, progress, listRemaining, lookups>>

\* Reaping is not taken into account (OutstandingIsExact).
TurnBlocking_bug(s, p) ==
    {i \in Live : /\ request[i].parent = s /\ request[i].prompt = p /\ ~IsWorkflow(i)
                  /\ i \notin handleOnly
                  /\ i \in active => ~request[i].defBackground}

\* Outstanding: the children a parent turn still blocks on, after reaping.
TurnBlocking(s, p) ==
    {i \in Live : /\ request[i].parent = s /\ request[i].prompt = p /\ ~IsWorkflow(i)
                  /\ i \notin handleOnly \cup AbandonedTask
                  /\ i \in active => ~request[i].defBackground}

Outstanding(c, s, p) ==
    /\ commandsOpen /\ Ready(c)
    /\ ReapAbandonedCallers
    /\ Reply(c, "ack", TurnBlocking(s, p))
    /\ UNCHANGED <<registryVars, deliveryVars, runnerVars, bufferVars, lifeVars>>

\* Vec::retain and partition: the entries of v at the positions kept, in their order.
Retain(v, kept) ==
    [n \in 1..Cardinality(kept) |->
        v[CHOOSE k \in kept : Cardinality({j \in kept : j <= k}) = n]]

\* Completions and DiscardSessionCompletions take the session's summaries out.
DrainCompletions(s) ==
    /\ commandsOpen
    /\ ReapAbandonedCallers
    /\ pendingCompletions' =
           Retain(pendingCompletions, {k \in DOMAIN pendingCompletions :
                     s # AnySession /\ pendingCompletions[k].parent # s})
    /\ UNCHANGED <<registryVars, deliveryVars, runnerVars, clientVars,
                   usageNotApplied, lifeVars>>

\* MarkUsageNotApplied and ClearUsageNotApplied
UsageNotApplied(scope, mark) ==
    /\ commandsOpen
    /\ ReapAbandonedCallers
    /\ usageNotApplied' = IF mark THEN usageNotApplied \cup {scope}
                          ELSE usageNotApplied \ {scope}
    /\ UNCHANGED <<registryVars, deliveryVars, runnerVars, clientVars,
                   pendingCompletions, lifeVars>>

------------------------------------------------------------------------------
(* Runner events *)

\* ChildReporter::started: the event is sent; the runner awaits the verdict.
ReportStarted(i) ==
    /\ ~stopped
    /\ i \in runs /\ runner[i] = "init" /\ i \notin reports
    /\ reports' = reports \cup {i}
    /\ UNCHANGED <<registryVars, flagVars, deliveryVars, runner, clientVars,
                   bufferVars, lifeVars>>

\* The token is not looked at when the child reports (KillReachesRuntime).
Promotable_bug(i) == i \in pending

Promotable(i) == i \in pending /\ i \notin cancelled

\* handle_internal(Started): promotion unless the child is gone or cancelled.
HandleStarted(i) ==
    /\ ~stopped
    /\ i \in reports
    /\ reports' = reports \ {i}
    /\ \/ /\ Promotable(i)
          /\ pending' = pending \ {i}
          /\ active' = active \cup {i}
          /\ runner' = [runner EXCEPT ![i] = "ready"]
       \/ /\ ~Promotable(i)
          /\ runner' = [runner EXCEPT ![i] = IF i \in runs THEN "refused" ELSE @]
          /\ UNCHANGED <<pending, active>>
    /\ UNCHANGED <<completed, completedOrder, runs, request, flagVars, deliveryVars,
                   clientVars, bufferVars, lifeVars>>

\* The shell tears a refused child down as cancelled (cancel_pending_shell_child).
RunResult(i, st) == runner[i] = "refused" => st = "cancelled"

\* Waiters are forgotten when the foreground caller took the result
\* (NobodyForgotten).
Parked_bug(i) ==
    IF i \in spawnReply /\ caller[i] = "waiting" THEN {}
    ELSE {c \in waiters : ask[c].id = i}

\* The waiters finish_child removes, and those of them that still listen.
Parked(i) == {c \in waiters : ask[c].id = i}
Seen(i) == {c \in Parked(i) : inbox[c] = "awaiting"}
CallerReceives(i) == i \in spawnReply /\ caller[i] = "waiting"

\* A failed send does not turn the child into a background one
\* (SurfacedIffUnseen).
Backgrounded_bug(i) == i \in handleOnly

Backgrounded(i) == i \in handleOnly \/ ~CallerReceives(i)
\* A cancelled child is announced like any other (ImplementsLifecycle).
ShouldSurface_bug(i, st) ==
    request[i].surface /\ Backgrounded(i) /\ Seen(i) = {} /\ i \notin killed

ShouldSurface(i, st) ==
    /\ request[i].surface /\ Backgrounded(i)
    /\ st # "cancelled" /\ Seen(i) = {} /\ i \notin killed

Bounded(s, n) == IF Len(s) > n THEN SubSeq(s, Len(s) - n + 1, Len(s)) ELSE s

BufferedWith(i) ==
    IF BufferCompletions /\ request[i].surface /\ ~IsWorkflow(i)
    THEN Bounded(Append(pendingCompletions, [id |-> i, parent |-> request[i].parent]),
                 MaxBuffered)
    ELSE pendingCompletions

\* The run's other children are not counted (CancelAckMeansQuiet).
Released_bug(i) == {w \in workflowCancelWaiters : w[2] = request[i].run}

\* A child that ends before it was promoted releases nobody (NobodyForgotten,
\* WorkflowCancelAcknowledged).
ReleasedActive_bug(i) ==
    {w \in workflowCancelWaiters :
        /\ w[2] = request[i].run /\ i \in active
        /\ WorkflowOutstanding(w[2]) \subseteq {i}}

\* Workflow cancels released by the end of i: resolve_workflow_cancel_waiters.
Released(i) ==
    {w \in workflowCancelWaiters :
        w[2] = request[i].run /\ WorkflowOutstanding(w[2]) \subseteq {i}}

\* The map is trimmed and the order is not (RegistryConsistent).
Remember_bug(i) ==
    LET order == Append(completedOrder, i)
        full  == Cardinality(completed \cup {i}) > MaxCompleted
    IN  /\ completedOrder' = order
        /\ completed' = IF full THEN (completed \cup {i}) \ {Head(order)}
                        ELSE completed \cup {i}

\* One entry too many is kept (WithinCaps).
RememberOneMore_bug(i) ==
    LET order == Append(completedOrder, i)
        full  == Cardinality(completed) > MaxCompleted
    IN  /\ completedOrder' = IF full THEN Tail(order) ELSE order
        /\ completed' = IF full THEN (completed \cup {i}) \ {Head(order)}
                        ELSE completed \cup {i}

\* insert into completed, then the eviction loop at the end of the iteration
Remember(i) ==
    LET order == Append(completedOrder, i)
        full  == Cardinality(completed \cup {i}) > MaxCompleted
    IN  /\ completedOrder' = IF full THEN Tail(order) ELSE order
        /\ completed' = IF full THEN (completed \cup {i}) \ {Head(order)}
                        ELSE completed \cup {i}

\* finish_child
Settle(i, st) ==
    LET parked == Parked(i)
        freed  == {w[1] : w \in Released(i)}
    IN  /\ ~stopped
        /\ i \in runs /\ i \in Live
        /\ runs' = runs \ {i}
        /\ active' = active \ {i}
        /\ pending' = IF i \in active THEN pending ELSE pending \ {i}
        /\ Remember(i)
        /\ status' = [status EXCEPT ![i] = st]
        /\ caller' = [caller EXCEPT ![i] = IF CallerReceives(i) THEN "result" ELSE @]
        /\ spawnReply' = spawnReply \ {i}
        /\ deadline' = deadline \ {i}
        /\ cancelled' = cancelled \ {i}
        /\ controlCancelled' = controlCancelled \ {i}
        /\ runner' = [runner EXCEPT ![i] = IF @ = "ready" THEN @ ELSE "none"]
        /\ handleOnly' = IF Backgrounded(i) THEN handleOnly \cup {i} ELSE handleOnly
        /\ waiterDelivered' = IF Seen(i) # {} THEN waiterDelivered \cup {i}
                              ELSE waiterDelivered
        /\ surfaced' = IF ShouldSurface(i, st) THEN surfaced \cup {i} ELSE surfaced
        /\ pendingCompletions' = BufferedWith(i)
        /\ waiters' = waiters \ parked
        /\ workflowCancelWaiters' = workflowCancelWaiters \ Released(i)
        /\ inbox' = [c \in Clients |-> IF c \in parked THEN Deliver(c, "terminal")
                                       ELSE IF c \in freed THEN Deliver(c, "ack")
                                       ELSE inbox[c]]
        /\ ask' = [c \in Clients |-> IF c \in parked \cup freed THEN NoAsk ELSE ask[c]]
        /\ UNCHANGED <<request, killed, reports, progress, listRemaining, listed, lookups,
                       usageNotApplied, lifeVars>>

\* The run future returns a result.
FinishChild(i, st) == RunResult(i, st) /\ Settle(i, st)

\* finish_panicked_child: the unwound run future becomes a failed result.
FinishPanickedChild(i) == Settle(i, "ended")

\* finish_progress for a query or an inspection.
FinishProgress(c, i) ==
    /\ ~stopped
    /\ <<c, i>> \in progress /\ ask[c].kind \in {"query", "inspect"}
    /\ progress' = progress \ {<<c, i>>}
    /\ inbox' = [inbox EXCEPT ![c] = Deliver(c, ProgressAnswer(ask[c].kind, i))]
    /\ ask' = [ask EXCEPT ![c] = NoAsk]
    /\ UNCHANGED <<registryVars, flagVars, deliveryVars, runnerVars, bufferVars, lifeVars,
                   waiters, workflowCancelWaiters, listRemaining, listed, lookups>>

\* A slot whose child has ended is dropped without being counted
\* (QuestionsAnswered).
FinishListSlot_bug(c, i) ==
    LET last == listRemaining[c] = 1 /\ i \in active
    IN  /\ ~stopped
        /\ <<c, i>> \in progress /\ ask[c].kind = "list"
        /\ progress' = progress \ {<<c, i>>}
        /\ listRemaining' = [listRemaining EXCEPT ![c] = IF i \in active THEN @ - 1 ELSE @]
        /\ listed' = [listed EXCEPT ![c] = IF i \in active THEN @ \cup {i} ELSE @]
        /\ inbox' = IF last THEN [inbox EXCEPT ![c] = Deliver(c, "ack")] ELSE inbox
        /\ ask' = IF last THEN [ask EXCEPT ![c] = NoAsk] ELSE ask
        /\ UNCHANGED <<registryVars, flagVars, deliveryVars, runnerVars, bufferVars,
                       lifeVars, waiters, workflowCancelWaiters, lookups>>

\* finish_progress and finish_list_slot for one slot of a list request.
FinishListSlot(c, i) ==
    LET last == listRemaining[c] = 1
    IN  /\ ~stopped
        /\ <<c, i>> \in progress /\ ask[c].kind = "list"
        /\ progress' = progress \ {<<c, i>>}
        /\ listRemaining' = [listRemaining EXCEPT ![c] = @ - 1]
        /\ listed' = [listed EXCEPT ![c] = IF i \in active THEN @ \cup {i} ELSE @]
        /\ inbox' = IF last THEN [inbox EXCEPT ![c] = Deliver(c, "ack")] ELSE inbox
        /\ ask' = IF last THEN [ask EXCEPT ![c] = NoAsk] ELSE ask
        /\ UNCHANGED <<registryVars, flagVars, deliveryVars, runnerVars, bufferVars,
                       lifeVars, waiters, workflowCancelWaiters, lookups>>

\* A validation or description future answers its asker.
FinishLookup(c) ==
    /\ ~stopped
    /\ c \in lookups
    /\ lookups' = lookups \ {c}
    /\ inbox' = [inbox EXCEPT ![c] = Deliver(c, "ack")]
    /\ ask' = [ask EXCEPT ![c] = NoAsk]
    /\ UNCHANGED <<registryVars, flagVars, deliveryVars, runnerVars, bufferVars, lifeVars,
                   waiters, workflowCancelWaiters, progress, listRemaining, listed>>

------------------------------------------------------------------------------
(* The timer branch: process_deadlines *)

\* background_at_deadline: the due children that reaping has not already
\* backgrounded are handed off; a caller that listens learns it.
HandedOff(kids) == kids \ AbandonedTask

\* `kids` and `due` are the children and the waiters whose deadline passed.
ProcessDeadlines(kids, due) ==
    LET late == HandedOff(kids)
        open == {c \in due : inbox[c] = "awaiting"}
        poll == {c \in open : ask[c].id \in active}
    IN  /\ ~stopped
        /\ kids \cup due # {}
        /\ kids \subseteq deadline /\ due \subseteq waiters
        /\ spawnReply' = (spawnReply \ Abandoned) \ late
        /\ handleOnly' = handleOnly \cup AbandonedTask \cup late
        /\ deadline' = (deadline \ AbandonedTask) \ late
        /\ cancelled' = cancelled \cup AbandonedWorkflow
        /\ controlCancelled' = controlCancelled \cup (AbandonedWorkflow \cap active)
        /\ caller' = [i \in Ids |-> IF i \in late /\ CallerReceives(i) THEN "handoff"
                                    ELSE caller[i]]
        /\ waiters' = waiters \ due
        /\ progress' = progress \cup {<<c, ask[c].id>> : c \in poll}
        /\ inbox' = [c \in Clients |->
                        IF c \notin due \/ c \in poll THEN inbox[c]
                        ELSE IF c \in open THEN ReadySnapshot(ask[c].id) ELSE "idle"]
        /\ ask' = [c \in Clients |-> IF c \in due \ poll THEN NoAsk ELSE ask[c]]
        /\ UNCHANGED <<registryVars, killed, status, waiterDelivered, surfaced, runnerVars,
                       bufferVars, lifeVars, workflowCancelWaiters, listRemaining,
                       listed, lookups>>

------------------------------------------------------------------------------
(* Callers, clients and the end of the actor *)

\* The spawn caller's future is dropped.  ChannelBackend::spawn arms a guard
\* that cancels a workflow-owned child's token in that case.
CallerDrops(i) ==
    /\ caller[i] = "waiting"
    /\ caller' = [caller EXCEPT ![i] = "gone"]
    /\ cancelled' = IF IsWorkflow(i) THEN cancelled \cup {i} ELSE cancelled
    /\ UNCHANGED <<registryVars, controlCancelled, killed, handleOnly, deadline, spawnReply,
                   status, waiterDelivered, surfaced, runnerVars, clientVars, bufferVars,
                   lifeVars>>

\* TaskTool's forwarder cancels a foreground child with its tool call.
ForwardToolCancel(i) ==
    /\ i \in Live /\ ~request[i].background /\ ~IsWorkflow(i)
    /\ caller[i] \in {"waiting", "gone"}
    /\ cancelled' = cancelled \cup {i}
    /\ UNCHANGED <<registryVars, controlCancelled, killed, handleOnly, deadline, spawnReply,
                   deliveryVars, runnerVars, clientVars, bufferVars, lifeVars>>

\* A client stops waiting: its receiver is dropped.
ClientDrops(c) ==
    /\ inbox[c] = "awaiting"
    /\ inbox' = [inbox EXCEPT ![c] = "gone"]
    /\ UNCHANGED <<registryVars, flagVars, deliveryVars, runnerVars, bufferVars, lifeVars, ask,
                   waiters, workflowCancelWaiters, progress, listRemaining, listed, lookups>>

\* The last command sender is dropped.
CloseCommands ==
    /\ commandsOpen
    /\ commandsOpen' = FALSE
    /\ UNCHANGED <<registryVars, flagVars, deliveryVars, runnerVars, clientVars,
                   bufferVars, stopped>>

\* Children that are still initializing are overlooked (StoppedLeavesNoOrphan).
CancelAllChildren_bug ==
    /\ cancelled' = cancelled \cup active
    /\ controlCancelled' = controlCancelled \cup active

\* cancel_all_children
CancelAllChildren ==
    /\ cancelled' = cancelled \cup Live
    /\ controlCancelled' = controlCancelled \cup active

\* The end of the actor: every reply sender and run future it owned is dropped.
Shutdown ==
    /\ stopped' = TRUE /\ commandsOpen' = FALSE
    /\ CancelAllChildren
    /\ runs' = {}
    /\ spawnReply' = {} /\ deadline' = {}
    /\ caller' = [i \in Ids |-> IF CallerReceives(i) THEN "lost" ELSE caller[i]]
    /\ inbox' = [c \in Clients |-> IF inbox[c] = "awaiting" THEN "lost" ELSE inbox[c]]
    /\ UNCHANGED <<pending, active, completed, completedOrder, request, killed, handleOnly,
                   status, waiterDelivered, surfaced, runnerVars, ask, waiters,
                   workflowCancelWaiters, progress, listRemaining, listed, lookups,
                   bufferVars>>

\* Running children do not keep the loop alive (ExitLosesNobody).
Drained_bug == lookups = {} /\ progress = {}

Drained == runs = {} /\ lookups = {} /\ progress = {}

\* run() leaves its loop.
Exit ==
    /\ ~stopped /\ ~commandsOpen /\ Drained
    /\ Shutdown

\* The host drops the actor's future: the Drop implementation.
Abort == ~stopped /\ Shutdown

Terminated == stopped /\ UNCHANGED vars

\* The session a backend is bound to: a root session, a child's, or none.
Scopes == Sessions \cup Ids \cup {AnySession}

\* Only a top-level session launches and cancels workflows (the workflow tool's
\* depth check).
WorkflowScopes == Sessions \cup {AnySession}

Command ==
    \/ \E i \in Ids, req \in Requests : Spawn(i, req)
    \/ ReadOnlyCommand
    \/ \E c \in Clients, i \in Ids, s \in Scopes :
          \/ QueryNow(c, i, s)
          \/ QueryBlocking(c, i, s)
          \/ AskProgress(c, i, s, "query")
          \/ AskProgress(c, i, s, "inspect")
          \/ InspectNow(c, i, s)
          \/ CancelSubagent(c, i, s)
    \/ \E c \in Clients, s \in Sessions : ListRunning(c, s)
    \/ \E c \in Clients : AskLookup(c)
    \/ \E c \in Clients, s \in Scopes, p \in Prompts : CancelParentPrompt(c, p, s)
    \/ \E c \in Clients, s \in WorkflowScopes, run \in WorkflowRuns : CancelWorkflow(c, run, s)
    \/ \E c \in Clients, s \in Sessions, p \in Prompts : Outstanding(c, s, p)
    \/ \E s \in Scopes : DrainCompletions(s)
    \/ \E scope \in UsageScopes, mark \in BOOLEAN : UsageNotApplied(scope, mark)

Environment ==
    \/ \E i \in Ids : ReportStarted(i) \/ CallerDrops(i) \/ ForwardToolCancel(i)
    \/ \E c \in Clients : ClientDrops(c)
    \/ CloseCommands
    \/ Abort

ActorStep ==
    \/ \E i \in Ids : HandleStarted(i) \/ FinishPanickedChild(i)
    \/ \E i \in Ids, st \in Statuses : FinishChild(i, st)
    \/ \E c \in Clients, i \in Ids : FinishProgress(c, i) \/ FinishListSlot(c, i)
    \/ \E c \in Clients : FinishLookup(c)
    \/ \E kids \in SUBSET deadline, due \in SUBSET waiters : ProcessDeadlines(kids, due)
    \/ Exit

Next == Command \/ Environment \/ ActorStep \/ Terminated

Spec == Init /\ [][Next]_vars

(***************************************************************************)
(* Fairness.  The actor polls its branches; a cancelled child's run ends   *)
(* (the shell runner selects on the token); progress futures read session  *)
(* counters and return.  Nothing is assumed of a child that is not         *)
(* cancelled: it may run for ever.                                         *)
(***************************************************************************)
Fairness ==
    /\ \A i \in Ids :
          /\ WF_vars(HandleStarted(i))
          /\ WF_vars(i \in cancelled /\ \E st \in Statuses : FinishChild(i, st))
          /\ WF_vars(\E kids \in SUBSET deadline, due \in SUBSET waiters :
                        i \in kids /\ ProcessDeadlines(kids, due))
    /\ \A c \in Clients :
          /\ WF_vars(FinishLookup(c))
          /\ WF_vars(\E kids \in SUBSET deadline, due \in SUBSET waiters :
                        c \in due /\ ProcessDeadlines(kids, due))
          /\ \A i \in Ids : WF_vars(FinishProgress(c, i) \/ FinishListSlot(c, i))

FairSpec == Spec /\ Fairness

------------------------------------------------------------------------------
(* Properties *)

Callers == {"none", "waiting", "gone", "result", "handoff", "lost"}

CoreTypeOK ==
    /\ pending \subseteq Ids /\ active \subseteq Ids /\ completed \subseteq Ids
    /\ runs \subseteq Ids /\ completedOrder \in Seq(Ids)
    /\ request \in [Ids -> RequestType \cup {NoRequest}]
    /\ \A i \in Live \cup completed : request[i] \in RequestType
    /\ cancelled \subseteq Ids /\ controlCancelled \subseteq Ids /\ killed \subseteq Ids
    /\ handleOnly \subseteq Ids /\ deadline \subseteq Live /\ spawnReply \subseteq Live
    /\ caller \in [Ids -> Callers]
    /\ status \in [Ids -> Statuses \cup {"none"}]
    /\ waiterDelivered \subseteq Ids /\ surfaced \subseteq Ids
    /\ usageNotApplied \subseteq UsageScopes
    /\ runner \in [Ids -> {"none", "init", "ready", "refused"}] /\ reports \subseteq Ids
    /\ commandsOpen \in BOOLEAN /\ stopped \in BOOLEAN

ClientTypeOK ==
    /\ inbox \in [Clients -> Answers \cup {"idle", "awaiting", "gone"}]
    /\ ask \in [Clients -> [kind : Kinds \cup {"none"}, id : Ids \cup {NoId}]]
    /\ waiters \subseteq Clients /\ lookups \subseteq Clients
    /\ workflowCancelWaiters \subseteq Clients \X WorkflowRuns
    /\ progress \subseteq Clients \X Ids
    /\ listed \in [Clients -> SUBSET Ids]

\* Types of the coordinator's maps, flags and channels: every known child has a
\* request, and only a live child's record holds a reply sender or a deadline.
TypeOK == CoreTypeOK /\ ClientTypeOK

\* An id is in at most one of the three maps, every live child has a run future
\* (so finish_child never takes its early return), and completed_order lists the
\* completed map once each, so the eviction loop drops exactly the oldest.
RegistryConsistent ==
    /\ pending \cap active = {} /\ completed \cap Live = {}
    /\ ~stopped => runs = Live
    /\ {completedOrder[k] : k \in DOMAIN completedOrder} = completed
    /\ \A j, k \in DOMAIN completedOrder :
          completedOrder[j] = completedOrder[k] => j = k

\* Both bounded collections stay within their caps: MAX_COMPLETED_ENTRIES and
\* MAX_PENDING_COMPLETIONS.
WithinCaps ==
    /\ Len(completedOrder) <= MaxCompleted
    /\ Len(pendingCompletions) <= MaxBuffered

\* No receiver is orphaned: a waiting asker is parked where a finishing child, a
\* due deadline or a ready future will find it, and a waiting spawn caller's
\* sender is still held by a live child.
NobodyForgotten ==
    /\ \A c \in Clients : inbox[c] = "awaiting" =>
          \/ c \in waiters /\ ask[c].id \in Live
          \/ c \in lookups
          \/ \E i \in Ids : <<c, i>> \in progress
          \/ \E run \in WorkflowRuns :
                <<c, run>> \in workflowCancelWaiters /\ WorkflowOutstanding(run) # {}
    /\ \A i \in Ids : caller[i] = "waiting" => i \in Live /\ i \in spawnReply

\* A finished child's result is surfaced to the parent exactly when it should be
\* and nobody has seen it: not the foreground caller, not a blocked query.
SurfacedIffUnseen ==
    \A i \in completed :
        i \in surfaced <=>
            /\ request[i].surface /\ status[i] # "cancelled"
            /\ i \notin killed /\ i \notin waiterDelivered
            /\ request[i].background \/ caller[i] # "result"

\* The cancel-at-promote race is closed: the runtimes that were told they are
\* live are the active ones, and a killed child's runtime has been cancelled,
\* whichever of the kill and the promotion came first.
KillReachesRuntime ==
    /\ \A i \in Live : runner[i] = "ready" <=> i \in active
    /\ \A i \in killed \cap active : i \in cancelled /\ i \in controlCancelled

\* A stopped coordinator leaves no child running: the Drop implementation
\* cancels all that are still in the registry.
StoppedLeavesNoOrphan ==
    stopped => Live \subseteq cancelled /\ active \subseteq controlCancelled

\* Outstanding names exactly the children whose spawn caller still waits on the
\* given turn: a dropped or handed-off caller never freezes a turn.
OutstandingIsExact ==
    [][\A c \in Clients, s \in Sessions, p \in Prompts :
          Outstanding(c, s, p) =>
              listed'[c] = {i \in Live :
                  /\ request[i].parent = s /\ request[i].prompt = p /\ ~IsWorkflow(i)
                  /\ caller[i] = "waiting" /\ ~request[i].background
                  /\ i \in active => ~request[i].defBackground}]_vars

\* A workflow cancel that had to wait is acknowledged only when no child of the
\* run is left, of any session.
CancelAckMeansQuiet ==
    [][\A w \in workflowCancelWaiters :
          w \notin workflowCancelWaiters' => WorkflowOutstanding(w[2])' = {}]_vars

\* run() returns only when nobody is waiting: no caller and no asker loses its
\* reply because the command channel closed.
ExitLosesNobody ==
    [][Exit => UNCHANGED <<caller, inbox>>]_vars

\* A "running" answer is never sent for a child that had finished when the
\* progress future resolved.
NoStaleRunning ==
    [][\A c \in Clients :
          inbox[c] = "awaiting" /\ inbox'[c] = "running" => ask[c].id \in active]_vars

\* No live child is parented to another active child: a nested spawn is rooted at
\* the session that will drain it, even when it is handled late.  It rests on ids
\* being fresh (UUID v7): the coordinator refuses only the ids it still remembers.
NestedChildrenRooted == \A i \in Live : request[i].parent \notin active

\* Every question is answered, given up, or waits for a workflow's children,
\* even if the child it is about never ends.
QuestionsAnswered ==
    \A c \in Clients :
        inbox[c] = "awaiting" /\ ask[c].kind # "workflow" ~> inbox[c] # "awaiting"

\* A foreground caller that did not ask to await completion is released.
ForegroundReleased ==
    \A i \in Ids :
        caller[i] = "waiting" /\ ~request[i].background /\ ~request[i].toCompletion
            ~> caller[i] # "waiting"

\* A workflow cancel is acknowledged once its children have been torn down.
WorkflowCancelAcknowledged ==
    \A c \in Clients :
        inbox[c] = "awaiting" /\ ask[c].kind = "workflow" ~> inbox[c] # "awaiting"
==============================================================================
