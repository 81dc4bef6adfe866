---------------------- MODULE SubagentCoordinatorProofs ----------------------
(***************************************************************************)
(* Proofs about SubagentCoordinator for any number of children, askers,    *)
(* sessions and workflow runs.                                             *)
(*                                                                         *)
(* The inductive invariant relates the registry to what the runners and    *)
(* the callers believe.  Almost every command changes only the child flags *)
(* (by reaping and cancelling), so one lemma about ReapAndCancel covers    *)
(* them; the other actions get a lemma each.                               *)
(***************************************************************************)
EXTENDS SubagentCoordinator, TLAPS

\* The part of the state the invariants below speak about.
coreVars == <<registryVars, flagVars, deliveryVars, runnerVars, lifeVars>>

\* A command's effect on that part: flags only.
FlagsOnly ==
    /\ UNCHANGED <<registryVars, deliveryVars, runnerVars, lifeVars>>
    /\ \E targets \in SUBSET Live, kills \in SUBSET Live :
          kills \subseteq targets /\ ReapAndCancel(targets, kills)

\* What the registry maps owe one another.
Partition ==
    /\ pending \cap active = {} /\ completed \cap Live = {}
    /\ ~stopped => runs = Live
    /\ stopped => runs = {} /\ ~commandsOpen

\* What runners have been told, and what a kill has reached.
RunnerInv ==
    /\ \A i \in Live : runner[i] = "ready" <=> i \in active
    /\ \A i \in reports \cap Live : i \in pending
    /\ killed \cap Live \subseteq cancelled
    /\ killed \cap active \subseteq controlCancelled

\* What a live child's flags say about its caller: a child that became a
\* background one without being spawned as such has given its reply away.
LiveInv ==
    \A i \in Live :
        /\ i \notin surfaced /\ i \notin waiterDelivered
        /\ caller[i] # "result"
        /\ request[i].background => i \in handleOnly
        /\ i \in handleOnly /\ i \in spawnReply => request[i].background

CoreInv == Partition /\ RunnerInv /\ LiveInv /\ SurfacedIffUnseen /\ StoppedLeavesNoOrphan

------------------------------------------------------------------------------
(* Commands *)

\* What a command does to the core: it spawns a child, or touches flags only.
LEMMA ReapIsFlagsOnly ==
    ASSUME NEW targets \in SUBSET Live, NEW kills \in SUBSET Live, kills \subseteq targets,
           ReapAndCancel(targets, kills),
           UNCHANGED <<registryVars, deliveryVars, runnerVars, lifeVars>>
    PROVE  FlagsOnly
BY DEF FlagsOnly

LEMMA ReapAloneIsFlagsOnly ==
    ASSUME ReapAbandonedCallers,
           UNCHANGED <<registryVars, deliveryVars, runnerVars, lifeVars>>
    PROVE  FlagsOnly
<1>1. ReapAndCancel({}, {})
  BY DEF ReapAbandonedCallers
<1> QED
  BY <1>1, ReapIsFlagsOnly

\* Every command but Spawn leaves registry, deliveries and runners alone.
LEMMA CommandCases ==
    ASSUME Command, CoreTypeOK
    PROVE  \/ \E i \in Ids, req \in Requests : Spawn(i, req)
           \/ FlagsOnly
<1>1. CASE \E i \in Ids, req \in Requests : Spawn(i, req)
  BY <1>1
<1>2. CASE ReadOnlyCommand
  BY <1>2, ReapAloneIsFlagsOnly DEF ReadOnlyCommand
<1>3. ASSUME NEW c \in Clients, NEW i \in Ids, NEW s \in Scopes
      PROVE  /\ QueryNow(c, i, s) => FlagsOnly
             /\ QueryBlocking(c, i, s) => FlagsOnly
             /\ AskProgress(c, i, s, "query") => FlagsOnly
             /\ AskProgress(c, i, s, "inspect") => FlagsOnly
             /\ InspectNow(c, i, s) => FlagsOnly
  BY ReapAloneIsFlagsOnly DEF QueryNow, QueryBlocking, AskProgress, InspectNow
<1>4. ASSUME NEW c \in Clients, NEW i \in Ids, NEW s \in Scopes, CancelSubagent(c, i, s)
      PROVE  FlagsOnly
  <2> DEFINE hit == IF i \in Live /\ BelongsToSession(i, s) THEN {i} ELSE {}
  <2>1. hit \in SUBSET Live /\ ReapAndCancel(hit, hit)
    BY <1>4 DEF CancelSubagent
  <2> QED
    BY <1>4, <2>1, ReapIsFlagsOnly DEF CancelSubagent
<1>5. ASSUME NEW c \in Clients, NEW s \in Sessions, ListRunning(c, s)
      PROVE  FlagsOnly
  BY <1>5, ReapAloneIsFlagsOnly DEF ListRunning
<1>6. ASSUME NEW c \in Clients, AskLookup(c)
      PROVE  FlagsOnly
  BY <1>6, ReapAloneIsFlagsOnly DEF AskLookup
<1>7. ASSUME NEW c \in Clients, NEW s \in Scopes, NEW p \in Prompts,
             CancelParentPrompt(c, p, s)
      PROVE  FlagsOnly
  BY <1>7, ReapIsFlagsOnly DEF CancelParentPrompt
<1>8. ASSUME NEW c \in Clients, NEW s \in WorkflowScopes, NEW run \in WorkflowRuns,
             CancelWorkflow(c, run, s)
      PROVE  FlagsOnly
  <2> DEFINE targets == {i \in WorkflowOutstanding(run) : BelongsToSession(i, s)}
  <2>1. targets \in SUBSET Live
    BY DEF WorkflowOutstanding
  <2>2. ReapAndCancel(targets, {})
    BY <1>8 DEF CancelWorkflow
  <2> QED
    BY <1>8, <2>1, <2>2, ReapIsFlagsOnly DEF CancelWorkflow
<1>9. ASSUME NEW c \in Clients, NEW s \in Sessions, NEW p \in Prompts, Outstanding(c, s, p)
      PROVE  FlagsOnly
  BY <1>9, ReapAloneIsFlagsOnly DEF Outstanding
<1>10. ASSUME NEW s \in Scopes, DrainCompletions(s)
       PROVE  FlagsOnly
  BY <1>10, ReapAloneIsFlagsOnly DEF DrainCompletions
<1>11. ASSUME NEW scope \in UsageScopes, NEW mark \in BOOLEAN, UsageNotApplied(scope, mark)
       PROVE  FlagsOnly
  BY <1>11, ReapAloneIsFlagsOnly DEF UsageNotApplied
<1> QED
  BY <1>1, <1>2, <1>3, <1>4, <1>5, <1>6, <1>7, <1>8, <1>9, <1>10, <1>11 DEF Command

------------------------------------------------------------------------------
(* Types of the core *)

LEMMA FlagsOnlyTypes ==
    ASSUME CoreTypeOK, FlagsOnly, usageNotApplied' \subseteq UsageScopes
    PROVE  CoreTypeOK'
BY DEF CoreTypeOK, FlagsOnly, ReapAndCancel, Live, Abandoned, AbandonedWorkflow,
       AbandonedTask, registryVars, deliveryVars, runnerVars, lifeVars

LEMMA ReRootedType ==
    ASSUME CoreTypeOK, NEW req \in Requests
    PROVE  ReRooted(req) \in RequestType /\ ReRooted(req).background = req.background
<1>1. req \in RequestType
  BY RequestsAssumption
<1>2. CASE req.parent \in active
  <2>1. request[req.parent] \in RequestType
    BY <1>2 DEF CoreTypeOK, Live
  <2> QED
    BY <1>1, <1>2, <2>1 DEF ReRooted, RequestType
<1>3. CASE req.parent \notin active
  BY <1>1, <1>3 DEF ReRooted
<1> QED
  BY <1>2, <1>3

LEMMA SpawnTypes ==
    ASSUME CoreTypeOK, NEW i \in Ids, NEW req \in Requests, Spawn(i, req)
    PROVE  CoreTypeOK'
<1>1. ReRooted(req) \in RequestType
  BY ReRootedType
<1>2. /\ pending' = pending \cup {i} /\ runs' = runs \cup {i}
      /\ request' = [request EXCEPT ![i] = ReRooted(req)]
      /\ UNCHANGED <<active, completed, completedOrder, reports, usageNotApplied,
                     commandsOpen, stopped>>
  BY DEF Spawn, lifeVars, bufferVars
<1>3. /\ request' \in [Ids -> RequestType \cup {NoRequest}]
      /\ \A j \in (Live \cup completed)' : request'[j] \in RequestType
  BY <1>1, <1>2 DEF CoreTypeOK, Live
<1>4. /\ caller' \in [Ids -> Callers]
      /\ status' \in [Ids -> Statuses \cup {"none"}]
      /\ runner' \in [Ids -> {"none", "init", "ready", "refused"}]
  BY DEF Spawn, CoreTypeOK, Callers
<1>5. /\ cancelled' \subseteq Ids /\ controlCancelled' \subseteq Ids /\ killed' \subseteq Ids
      /\ handleOnly' \subseteq Ids /\ deadline' \subseteq Live' /\ spawnReply' \subseteq Live'
      /\ waiterDelivered' \subseteq Ids /\ surfaced' \subseteq Ids
  BY <1>2 DEF Spawn, CoreTypeOK, Live, Abandoned, AbandonedWorkflow, AbandonedTask,
              ForegroundDeadline
<1> QED
  BY <1>2, <1>3, <1>4, <1>5 DEF CoreTypeOK

LEMMA StartedTypes ==
    ASSUME CoreTypeOK, NEW i \in Ids, HandleStarted(i)
    PROVE  CoreTypeOK'
BY DEF CoreTypeOK, HandleStarted, Promotable, Live, flagVars, deliveryVars, bufferVars, lifeVars

\* The eviction keeps completed_order a sequence and completed a set of ids.
LEMMA RememberTypes ==
    ASSUME CoreTypeOK, NEW i \in Ids, Remember(i)
    PROVE  completedOrder' \in Seq(Ids) /\ completed' \subseteq completed \cup {i}
<1>1. Append(completedOrder, i) \in Seq(Ids) /\ Append(completedOrder, i) # <<>>
  BY DEF CoreTypeOK
<1>2. Tail(Append(completedOrder, i)) \in Seq(Ids)
  BY <1>1
<1> QED
  BY <1>1, <1>2 DEF Remember

LEMMA SettleTypes ==
    ASSUME CoreTypeOK, NEW i \in Ids, NEW st \in Statuses, Settle(i, st), Partition
    PROVE  CoreTypeOK'
<1>1. completedOrder' \in Seq(Ids) /\ completed' \subseteq completed \cup {i}
  BY RememberTypes DEF Settle
<1>2. /\ Live' = Live \ {i} /\ i \in Live
      /\ pending' \subseteq pending /\ active' \subseteq active /\ runs' \subseteq runs
      /\ UNCHANGED <<request, killed, reports, usageNotApplied, commandsOpen, stopped>>
  BY DEF Settle, Live, Partition, lifeVars
<1>3. \A j \in (Live \cup completed)' : request'[j] \in RequestType
  BY <1>1, <1>2 DEF CoreTypeOK
<1>4. /\ caller' \in [Ids -> Callers]
      /\ status' \in [Ids -> Statuses \cup {"none"}]
      /\ runner' \in [Ids -> {"none", "init", "ready", "refused"}]
  BY DEF Settle, CoreTypeOK, Callers
<1>5. /\ cancelled' \subseteq Ids /\ controlCancelled' \subseteq Ids
      /\ handleOnly' \subseteq Ids /\ deadline' \subseteq Live' /\ spawnReply' \subseteq Live'
      /\ waiterDelivered' \subseteq Ids /\ surfaced' \subseteq Ids
  BY <1>2 DEF Settle, CoreTypeOK
<1> QED
  BY <1>1, <1>2, <1>3, <1>4, <1>5 DEF CoreTypeOK

LEMMA DeadlineTypes ==
    ASSUME CoreTypeOK, NEW kids \in SUBSET deadline, NEW due \in SUBSET waiters,
           ProcessDeadlines(kids, due)
    PROVE  CoreTypeOK'
<1>1. UNCHANGED <<registryVars, killed, status, waiterDelivered, surfaced, runnerVars,
                  bufferVars, lifeVars>>
  BY DEF ProcessDeadlines
<1>2. /\ cancelled' \subseteq Ids /\ controlCancelled' \subseteq Ids
      /\ handleOnly' \subseteq Ids /\ deadline' \subseteq Live /\ spawnReply' \subseteq Live
  BY DEF ProcessDeadlines, HandedOff, CoreTypeOK, Live, Abandoned, AbandonedWorkflow, AbandonedTask
<1>3. caller' \in [Ids -> Callers]
  BY DEF ProcessDeadlines, CoreTypeOK, Callers
<1> QED
  BY <1>1, <1>2, <1>3 DEF CoreTypeOK, Live, registryVars, runnerVars, bufferVars, lifeVars

LEMMA EndTypes ==
    ASSUME CoreTypeOK, Shutdown
    PROVE  CoreTypeOK'
BY DEF CoreTypeOK, Shutdown, CancelAllChildren, CallerReceives, Callers, Live, runnerVars, bufferVars

------------------------------------------------------------------------------
(* Types of the askers' state *)

LEMMA NoAskType == NoAsk \in [kind : Kinds \cup {"none"}, id : Ids \cup {NoId}]
BY DEF NoAsk

LEMMA InitTypes == Init => TypeOK
<1> SUFFICES ASSUME Init PROVE TypeOK
  OBVIOUS
<1>1. CoreTypeOK
  <2>1. /\ request \in [Ids -> RequestType \cup {NoRequest}]
        /\ caller \in [Ids -> Callers]
        /\ status \in [Ids -> Statuses \cup {"none"}]
        /\ runner \in [Ids -> {"none", "init", "ready", "refused"}]
    BY DEF Init, Callers
  <2>2. completedOrder \in Seq(Ids)
    BY DEF Init
  <2>3. Live \cup completed = {}
    BY DEF Init, Live
  <2> QED
    BY <2>1, <2>2, <2>3 DEF Init, CoreTypeOK
<1>2. ask \in [Clients -> [kind : Kinds \cup {"none"}, id : Ids \cup {NoId}]]
  BY NoAskType DEF Init
<1>3. /\ inbox \in [Clients -> Answers \cup {"idle", "awaiting", "gone"}]
      /\ listed \in [Clients -> SUBSET Ids]
  BY DEF Init
<1> QED
  BY <1>1, <1>2, <1>3 DEF Init, TypeOK, ClientTypeOK

LEMMA ReplyTypes ==
    ASSUME ClientTypeOK, NEW c \in Clients, NEW a \in Answers, NEW ids \in SUBSET Ids,
           Reply(c, a, ids)
    PROVE  ClientTypeOK'
BY DEF ClientTypeOK, Reply

LEMMA ParkTypes ==
    ASSUME ClientTypeOK, NEW c \in Clients, NEW kind \in Kinds, NEW i \in Ids \cup {NoId},
           Park(c, kind, i)
    PROVE  /\ inbox' \in [Clients -> Answers \cup {"idle", "awaiting", "gone"}]
           /\ ask' \in [Clients -> [kind : Kinds \cup {"none"}, id : Ids \cup {NoId}]]
           /\ listed' \in [Clients -> SUBSET Ids]
BY DEF ClientTypeOK, Park

LEMMA AnswerTypes ==
    /\ \A i : ReadySnapshot(i) \in Answers
    /\ \A kind, i : ProgressAnswer(kind, i) \in Answers
    /\ \A c, a : a \in Answers => Deliver(c, a) \in Answers \cup {"idle"}
BY DEF ReadySnapshot, ProgressAnswer, Deliver, Answers

LEMMA UnparkTypes ==
    ASSUME ClientTypeOK, NEW c \in Clients, NEW a \in Answers,
           inbox' = [inbox EXCEPT ![c] = Deliver(c, a)],
           ask' = [ask EXCEPT ![c] = NoAsk]
    PROVE  /\ inbox' \in [Clients -> Answers \cup {"idle", "awaiting", "gone"}]
           /\ ask' \in [Clients -> [kind : Kinds \cup {"none"}, id : Ids \cup {NoId}]]
<1>1. Deliver(c, a) \in Answers \cup {"idle", "awaiting", "gone"}
  BY AnswerTypes
<1> QED
  BY <1>1, NoAskType DEF ClientTypeOK

LEMMA SettleClientTypes ==
    ASSUME ClientTypeOK, NEW i \in Ids, NEW st \in Statuses, Settle(i, st)
    PROVE  ClientTypeOK'
<1>1. \A c \in Clients :
         /\ Deliver(c, "terminal") \in Answers \cup {"idle", "awaiting", "gone"}
         /\ Deliver(c, "ack") \in Answers \cup {"idle", "awaiting", "gone"}
  BY DEF Deliver, Answers
<1>2. inbox' \in [Clients -> Answers \cup {"idle", "awaiting", "gone"}]
  BY <1>1 DEF Settle, ClientTypeOK
<1>3. ask' \in [Clients -> [kind : Kinds \cup {"none"}, id : Ids \cup {NoId}]]
  BY NoAskType DEF Settle, ClientTypeOK
<1> QED
  BY <1>2, <1>3 DEF Settle, ClientTypeOK

LEMMA DeadlineClientTypes ==
    ASSUME CoreTypeOK, ClientTypeOK, NEW kids \in SUBSET deadline, NEW due \in SUBSET waiters,
           ProcessDeadlines(kids, due)
    PROVE  ClientTypeOK'
<1> DEFINE open == {c \in due : inbox[c] = "awaiting"}
           poll == {c \in open : ask[c].id \in active}
<1>1. inbox' = [c \in Clients |->
                   IF c \notin due \/ c \in poll THEN inbox[c]
                   ELSE IF c \in open THEN ReadySnapshot(ask[c].id) ELSE "idle"]
  BY DEF ProcessDeadlines
<1>2. inbox' \in [Clients -> Answers \cup {"idle", "awaiting", "gone"}]
  BY <1>1, AnswerTypes DEF ClientTypeOK
<1>3. ask' = [c \in Clients |-> IF c \in due \ poll THEN NoAsk ELSE ask[c]]
  BY DEF ProcessDeadlines
<1>4. ask' \in [Clients -> [kind : Kinds \cup {"none"}, id : Ids \cup {NoId}]]
  BY <1>3, NoAskType DEF ClientTypeOK
<1>5. progress' = progress \cup {<<c, ask[c].id>> : c \in poll}
  BY DEF ProcessDeadlines
<1>6. progress' \subseteq Clients \X Ids
  BY <1>5 DEF ClientTypeOK, CoreTypeOK
<1>7. waiters' \subseteq Clients /\ UNCHANGED <<workflowCancelWaiters, lookups, listed>>
  BY DEF ProcessDeadlines, ClientTypeOK
<1> QED
  BY <1>2, <1>4, <1>6, <1>7 DEF ClientTypeOK

LEMMA CommandClientTypes ==
    ASSUME TypeOK, Command
    PROVE  ClientTypeOK' /\ usageNotApplied' \subseteq UsageScopes
<1> USE DEF TypeOK
<1>0. CASE UNCHANGED clientVars /\ UNCHANGED usageNotApplied
  BY <1>0 DEF clientVars, ClientTypeOK, CoreTypeOK
<1>1. ASSUME NEW i \in Ids, NEW req \in Requests, Spawn(i, req)
      PROVE  ClientTypeOK' /\ usageNotApplied' \subseteq UsageScopes
  BY <1>0, <1>1 DEF Spawn, bufferVars
<1>2. CASE ReadOnlyCommand
  BY <1>0, <1>2 DEF ReadOnlyCommand, bufferVars
<1>3. ASSUME NEW c \in Clients, NEW i \in Ids, NEW s \in Scopes, QueryNow(c, i, s)
      PROVE  ClientTypeOK' /\ usageNotApplied' \subseteq UsageScopes
  <2>1. (IF Visible(i, s) THEN ReadySnapshot(i) ELSE "missing") \in Answers
    BY AnswerTypes DEF Answers
  <2> QED
    BY <1>3, <2>1, ReplyTypes DEF QueryNow, bufferVars, CoreTypeOK
<1>4. ASSUME NEW c \in Clients, NEW i \in Ids, NEW s \in Scopes, QueryBlocking(c, i, s)
      PROVE  ClientTypeOK' /\ usageNotApplied' \subseteq UsageScopes
  <2>1. "query" \in Kinds
    BY DEF Kinds
  <2>2. Park(c, "query", i)
    BY <1>4 DEF QueryBlocking
  <2> QED
    BY <1>4, <2>1, <2>2, ParkTypes DEF QueryBlocking, ClientTypeOK, bufferVars, CoreTypeOK
<1>5. ASSUME NEW c \in Clients, NEW i \in Ids, NEW s \in Scopes, NEW kind,
             AskProgress(c, i, s, kind)
      PROVE  ClientTypeOK' /\ usageNotApplied' \subseteq UsageScopes
  <2>1. kind \in Kinds
    BY <1>5 DEF AskProgress, Kinds
  <2>2. Park(c, kind, i)
    BY <1>5 DEF AskProgress
  <2> QED
    BY <1>5, <2>1, <2>2, ParkTypes DEF AskProgress, ClientTypeOK, bufferVars, CoreTypeOK
<1>6. ASSUME NEW c \in Clients, NEW i \in Ids, NEW s \in Scopes, InspectNow(c, i, s)
      PROVE  ClientTypeOK' /\ usageNotApplied' \subseteq UsageScopes
  <2>1. \E a \in Answers : Reply(c, a, {})
    BY <1>6 DEF InspectNow, Answers
  <2> QED
    BY <1>6, <2>1, ReplyTypes DEF InspectNow, bufferVars, CoreTypeOK
<1>7. ASSUME NEW c \in Clients, NEW i \in Ids, NEW s \in Scopes, CancelSubagent(c, i, s)
      PROVE  ClientTypeOK' /\ usageNotApplied' \subseteq UsageScopes
  <2>1. \E a \in Answers : Reply(c, a, {})
    BY <1>7 DEF CancelSubagent, Answers
  <2> QED
    BY <1>7, <2>1, ReplyTypes DEF CancelSubagent, bufferVars, CoreTypeOK
<1>8. ASSUME NEW c \in Clients, NEW s \in Sessions, ListRunning(c, s)
      PROVE  ClientTypeOK' /\ usageNotApplied' \subseteq UsageScopes
  <2>1. UNCHANGED usageNotApplied
    BY <1>8 DEF ListRunning, bufferVars
  <2>2. CASE Reply(c, "ack", {})
    <3>1. "ack" \in Answers
      BY DEF Answers
    <3> QED
      BY <2>1, <2>2, <3>1, ReplyTypes DEF CoreTypeOK
  <2>3. CASE /\ Park(c, "list", NoId)
             /\ progress' = progress \cup ({c} \X Listable(s))
             /\ UNCHANGED <<waiters, workflowCancelWaiters, lookups>>
    <3>1. "list" \in Kinds
      BY DEF Kinds
    <3>2. progress' \subseteq Clients \X Ids
      BY <2>3 DEF Listable, ClientTypeOK, CoreTypeOK
    <3> QED
      BY <2>1, <2>3, <3>1, <3>2, ParkTypes DEF ClientTypeOK, CoreTypeOK
  <2> QED
    BY <1>8, <2>2, <2>3 DEF ListRunning
<1>9. ASSUME NEW c \in Clients, AskLookup(c)
      PROVE  ClientTypeOK' /\ usageNotApplied' \subseteq UsageScopes
  <2>1. "lookup" \in Kinds /\ Park(c, "lookup", NoId)
    BY <1>9 DEF Kinds, AskLookup
  <2> QED
    BY <1>9, <2>1, ParkTypes DEF AskLookup, ClientTypeOK, bufferVars, CoreTypeOK
<1>10. ASSUME NEW c \in Clients, NEW s \in Scopes, NEW p \in Prompts,
              CancelParentPrompt(c, p, s)
       PROVE  ClientTypeOK' /\ usageNotApplied' \subseteq UsageScopes
  <2>1. "ack" \in Answers /\ Reply(c, "ack", {})
    BY <1>10 DEF CancelParentPrompt, Answers
  <2> QED
    BY <1>10, <2>1, ReplyTypes DEF CancelParentPrompt, bufferVars, CoreTypeOK
<1>11. ASSUME NEW c \in Clients, NEW s \in WorkflowScopes, NEW run \in WorkflowRuns,
              CancelWorkflow(c, run, s)
       PROVE  ClientTypeOK' /\ usageNotApplied' \subseteq UsageScopes
  <2>1. UNCHANGED usageNotApplied
    BY <1>11 DEF CancelWorkflow, bufferVars
  <2>2. CASE Reply(c, "ack", {})
    <3>1. "ack" \in Answers
      BY DEF Answers
    <3> QED
      BY <2>1, <2>2, <3>1, ReplyTypes DEF CoreTypeOK
  <2>3. CASE /\ Park(c, "workflow", NoId)
             /\ workflowCancelWaiters' = workflowCancelWaiters \cup {<<c, run>>}
             /\ UNCHANGED <<waiters, progress, listRemaining, lookups>>
    <3>1. "workflow" \in Kinds
      BY DEF Kinds
    <3> QED
      BY <2>1, <2>3, <3>1, ParkTypes DEF ClientTypeOK, CoreTypeOK
  <2> QED
    BY <1>11, <2>2, <2>3 DEF CancelWorkflow
<1>12. ASSUME NEW c \in Clients, NEW s \in Sessions, NEW p \in Prompts, Outstanding(c, s, p)
       PROVE  ClientTypeOK' /\ usageNotApplied' \subseteq UsageScopes
  <2>1. TurnBlocking(s, p) \in SUBSET Ids
    BY DEF TurnBlocking, Live, CoreTypeOK
  <2>2. "ack" \in Answers /\ Reply(c, "ack", TurnBlocking(s, p))
    BY <1>12 DEF Outstanding, Answers
  <2> QED
    BY <1>12, <2>1, <2>2, ReplyTypes DEF Outstanding, bufferVars, CoreTypeOK
<1>13. ASSUME NEW s \in Scopes, DrainCompletions(s)
       PROVE  ClientTypeOK' /\ usageNotApplied' \subseteq UsageScopes
  BY <1>0, <1>13 DEF DrainCompletions
<1>14. ASSUME NEW scope \in UsageScopes, NEW mark \in BOOLEAN, UsageNotApplied(scope, mark)
       PROVE  ClientTypeOK' /\ usageNotApplied' \subseteq UsageScopes
  BY <1>14 DEF UsageNotApplied, clientVars, ClientTypeOK, CoreTypeOK
<1> QED
  BY <1>1, <1>2, <1>3, <1>4, <1>5, <1>6, <1>7, <1>8, <1>9, <1>10, <1>11, <1>12, <1>13, <1>14
     DEF Command

------------------------------------------------------------------------------
(* The core invariant *)

LEMMA InitCore == Init => CoreInv
<1> SUFFICES ASSUME Init PROVE CoreInv
  OBVIOUS
<1>1. Live = {} /\ completed = {} /\ active = {} /\ pending = {} /\ runs = {} /\ ~stopped
      /\ commandsOpen
  BY DEF Init, Live
<1> QED
  BY <1>1 DEF CoreInv, Partition, RunnerInv, LiveInv, SurfacedIffUnseen, StoppedLeavesNoOrphan

LEMMA FlagsOnlyCore ==
    ASSUME CoreTypeOK, CoreInv, FlagsOnly
    PROVE  CoreInv'
<1>1. PICK targets \in SUBSET Live, kills \in SUBSET Live :
         kills \subseteq targets /\ ReapAndCancel(targets, kills)
  BY DEF FlagsOnly
<1>2. /\ UNCHANGED <<pending, active, completed, completedOrder, runs, request>>
      /\ UNCHANGED <<caller, status, waiterDelivered, surfaced>>
      /\ UNCHANGED <<runner, reports, commandsOpen, stopped>>
      /\ Live' = Live
  BY DEF FlagsOnly, registryVars, deliveryVars, runnerVars, lifeVars, Live
<1>3. Partition'
  BY <1>2 DEF CoreInv, Partition
<1>4. RunnerInv'
  BY <1>1, <1>2 DEF CoreInv, RunnerInv, ReapAndCancel, Live
<1>5. LiveInv'
  BY <1>1, <1>2 DEF CoreInv, LiveInv, ReapAndCancel, Abandoned, AbandonedTask
<1>6. SurfacedIffUnseen'
  BY <1>1, <1>2 DEF CoreInv, SurfacedIffUnseen, ReapAndCancel, Partition
<1>7. StoppedLeavesNoOrphan'
  BY <1>1, <1>2 DEF CoreInv, StoppedLeavesNoOrphan, ReapAndCancel
<1> QED
  BY <1>3, <1>4, <1>5, <1>6, <1>7 DEF CoreInv

LEMMA SpawnCore ==
    ASSUME CoreTypeOK, CoreInv, NEW i \in Ids, NEW req \in Requests, Spawn(i, req)
    PROVE  CoreInv'
<1>1. /\ i \notin Live \cup completed \cup reports /\ ~stopped
      /\ pending' = pending \cup {i} /\ runs' = runs \cup {i} /\ Live' = Live \cup {i}
      /\ request' = [request EXCEPT ![i] = ReRooted(req)]
      /\ UNCHANGED <<active, completed, completedOrder, reports, commandsOpen, stopped>>
  BY DEF Spawn, lifeVars, Live, CoreInv, Partition
<1>2. Partition'
  BY <1>1 DEF CoreInv, Partition, Live
<1>3. RunnerInv'
  <2>1. \A j \in Live' : runner'[j] = "ready" <=> j \in active'
    BY <1>1 DEF Spawn, CoreInv, RunnerInv, CoreTypeOK, Live
  <2>2. \A j \in reports' \cap Live' : j \in pending'
    BY <1>1 DEF CoreInv, RunnerInv
  <2>3. /\ killed' \cap Live' \subseteq cancelled'
        /\ killed' \cap active' \subseteq controlCancelled'
    BY <1>1 DEF Spawn, CoreInv, RunnerInv, Live
  <2> QED
    BY <2>1, <2>2, <2>3 DEF RunnerInv
<1>4. LiveInv'
  <2>1. ASSUME NEW j \in Live', j # i
        PROVE  /\ j \notin surfaced' /\ j \notin waiterDelivered' /\ caller'[j] # "result"
               /\ request'[j].background => j \in handleOnly'
               /\ j \in handleOnly' /\ j \in spawnReply' => request'[j].background
    BY <1>1, <2>1 DEF Spawn, CoreInv, LiveInv, CoreTypeOK, Live, Abandoned, AbandonedTask
  <2>2. request'[i].background = req.background
    BY <1>1, ReRootedType DEF CoreTypeOK
  <2>3. /\ i \notin surfaced' /\ i \notin waiterDelivered' /\ caller'[i] # "result"
        /\ request'[i].background => i \in handleOnly'
        /\ i \in handleOnly' /\ i \in spawnReply' => request'[i].background
    BY <1>1, <2>2 DEF Spawn, CoreTypeOK
  <2> QED
    BY <2>1, <2>3 DEF LiveInv
<1>5. SurfacedIffUnseen'
  BY <1>1 DEF Spawn, CoreInv, SurfacedIffUnseen, CoreTypeOK, Live
<1>6. StoppedLeavesNoOrphan'
  BY <1>1 DEF StoppedLeavesNoOrphan
<1> QED
  BY <1>2, <1>3, <1>4, <1>5, <1>6 DEF CoreInv

LEMMA StartedCore ==
    ASSUME CoreTypeOK, CoreInv, NEW i \in Ids, HandleStarted(i)
    PROVE  CoreInv'
<1>1. /\ ~stopped /\ i \in reports /\ reports' = reports \ {i}
      /\ Live' = Live
      /\ UNCHANGED <<completed, completedOrder, runs, request, cancelled, controlCancelled,
                     killed, handleOnly, deadline, spawnReply, caller, status,
                     waiterDelivered, surfaced, commandsOpen, stopped>>
  BY DEF HandleStarted, Promotable, flagVars, deliveryVars, lifeVars, Live
<1>2. Partition'
  BY <1>1 DEF CoreInv, Partition, HandleStarted, Promotable, Live
<1>3. RunnerInv'
  <2>1. CASE Promotable(i)
    BY <1>1, <2>1 DEF CoreInv, Partition, RunnerInv, HandleStarted, Promotable, CoreTypeOK, Live
  <2>2. CASE ~Promotable(i)
    BY <1>1, <2>2 DEF CoreInv, Partition, RunnerInv, HandleStarted, CoreTypeOK, Live
  <2> QED
    BY <2>1, <2>2
<1>4. LiveInv' /\ SurfacedIffUnseen' /\ StoppedLeavesNoOrphan'
  BY <1>1 DEF CoreInv, LiveInv, SurfacedIffUnseen, StoppedLeavesNoOrphan
<1> QED
  BY <1>2, <1>3, <1>4 DEF CoreInv

LEMMA SettleCore ==
    ASSUME CoreTypeOK, CoreInv, NEW i \in Ids, NEW st \in Statuses, Settle(i, st)
    PROVE  CoreInv'
<1>1. completed' \subseteq completed \cup {i}
  BY RememberTypes DEF Settle
<1>2. /\ ~stopped /\ i \in Live /\ runs' = runs \ {i} /\ active' = active \ {i}
      /\ Live' = Live \ {i} /\ pending' \subseteq pending
      /\ UNCHANGED <<request, killed, reports, commandsOpen, stopped>>
  BY DEF Settle, CoreInv, Partition, Live, lifeVars
<1>3. Partition'
  <2>1. pending' \cap active' = {} /\ completed' \cap Live' = {}
    BY <1>1, <1>2 DEF CoreInv, Partition
  <2>2. runs' = Live'
    BY <1>2 DEF CoreInv, Partition
  <2> QED
    BY <1>2, <2>1, <2>2 DEF Partition
<1>4. RunnerInv'
  <2>1. \A j \in Live' : runner'[j] = "ready" <=> j \in active'
    BY <1>2 DEF Settle, CoreInv, RunnerInv, CoreTypeOK
  <2>2. \A j \in reports' \cap Live' : j \in pending'
    BY <1>2 DEF Settle, CoreInv, RunnerInv, Live
  <2>3. /\ killed' \cap Live' \subseteq cancelled'
        /\ killed' \cap active' \subseteq controlCancelled'
    BY <1>2 DEF Settle, CoreInv, RunnerInv
  <2> QED
    BY <2>1, <2>2, <2>3 DEF RunnerInv
<1>5. LiveInv'
  BY <1>2 DEF Settle, CoreInv, LiveInv, CoreTypeOK
<1>6. SurfacedIffUnseen'
  <2> SUFFICES ASSUME NEW j \in completed'
               PROVE  j \in surfaced' <=>
                         /\ request'[j].surface /\ status'[j] # "cancelled"
                         /\ j \notin killed' /\ j \notin waiterDelivered'
                         /\ request'[j].background \/ caller'[j] # "result"
    BY DEF SurfacedIffUnseen
  <2>1. CASE j # i
    <3>1. j \in completed /\ j \in Ids
      BY <1>1, <2>1 DEF CoreTypeOK
    <3>2. /\ j \in surfaced' <=> j \in surfaced
          /\ j \in waiterDelivered' <=> j \in waiterDelivered
          /\ status'[j] = status[j] /\ caller'[j] = caller[j]
      BY <2>1, <3>1 DEF Settle, CoreTypeOK
    <3> QED
      BY <1>2, <3>1, <3>2 DEF CoreInv, SurfacedIffUnseen
  <2>2. CASE j = i
    <3>1. status'[i] = st /\ caller'[i] = IF CallerReceives(i) THEN "result" ELSE caller[i]
      BY DEF Settle, CoreTypeOK
    <3>2. i \in waiterDelivered' <=> Seen(i) # {}
      BY <1>2 DEF Settle, CoreInv, LiveInv
    <3>3. i \in surfaced' <=> ShouldSurface(i, st)
      BY <1>2 DEF Settle, CoreInv, LiveInv
    <3>4. caller'[i] = "result" <=> CallerReceives(i)
      BY <1>2, <3>1 DEF CoreInv, LiveInv
    <3>5. Backgrounded(i) <=> request[i].background \/ ~CallerReceives(i)
      BY <1>2 DEF Backgrounded, CallerReceives, CoreInv, LiveInv
    <3> QED
      BY <1>2, <2>2, <3>1, <3>2, <3>3, <3>4, <3>5 DEF ShouldSurface
  <2> QED
    BY <2>1, <2>2
<1>7. StoppedLeavesNoOrphan'
  BY <1>2 DEF StoppedLeavesNoOrphan
<1> QED
  BY <1>3, <1>4, <1>5, <1>6, <1>7 DEF CoreInv

LEMMA DeadlineCore ==
    ASSUME CoreTypeOK, CoreInv, NEW kids \in SUBSET deadline, NEW due \in SUBSET waiters,
           ProcessDeadlines(kids, due)
    PROVE  CoreInv'
<1>1. /\ Live' = Live /\ ~stopped
      /\ UNCHANGED <<pending, active, completed, completedOrder, runs, request, killed, status,
                     waiterDelivered, surfaced, runner, reports, commandsOpen, stopped>>
  BY DEF ProcessDeadlines, registryVars, runnerVars, lifeVars, Live
<1>2. Partition'
  BY <1>1 DEF CoreInv, Partition
<1>3. RunnerInv'
  BY <1>1 DEF ProcessDeadlines, CoreInv, RunnerInv
<1>4. \A j \in Ids : caller'[j] = "result" <=> caller[j] = "result"
  BY DEF ProcessDeadlines, HandedOff, CallerReceives, CoreTypeOK
<1>5. LiveInv'
  <2> SUFFICES ASSUME NEW j \in Live
               PROVE  /\ j \notin surfaced' /\ j \notin waiterDelivered'
                      /\ caller'[j] # "result"
                      /\ request'[j].background => j \in handleOnly'
                      /\ j \in handleOnly' /\ j \in spawnReply' => request'[j].background
    BY <1>1 DEF LiveInv
  <2>1. j \in Ids
    BY DEF CoreTypeOK, Live
  <2>2. /\ request[j].background => j \in handleOnly'
        /\ j \in handleOnly' /\ j \in spawnReply' => request[j].background
    BY DEF ProcessDeadlines, HandedOff, CoreInv, LiveInv, AbandonedTask
  <2> QED
    BY <1>1, <1>4, <2>1, <2>2 DEF CoreInv, LiveInv
<1>6. SurfacedIffUnseen'
  BY <1>1, <1>4 DEF CoreInv, SurfacedIffUnseen, CoreTypeOK
<1>7. StoppedLeavesNoOrphan'
  BY <1>1 DEF StoppedLeavesNoOrphan
<1> QED
  BY <1>2, <1>3, <1>5, <1>6, <1>7 DEF CoreInv

LEMMA ShutdownCore ==
    ASSUME CoreTypeOK, CoreInv, Shutdown
    PROVE  CoreInv'
<1>1. /\ Live' = Live /\ stopped' /\ ~commandsOpen' /\ runs' = {}
      /\ cancelled' = cancelled \cup Live /\ controlCancelled' = controlCancelled \cup active
      /\ spawnReply' = {}
      /\ UNCHANGED <<pending, active, completed, completedOrder, request, killed, handleOnly,
                     status, waiterDelivered, surfaced, runner, reports>>
  BY DEF Shutdown, CancelAllChildren, Live, runnerVars
<1>2. \A j \in Ids : caller'[j] = "result" <=> caller[j] = "result"
  BY DEF Shutdown, CallerReceives, CoreTypeOK
<1>3. Partition' /\ RunnerInv' /\ StoppedLeavesNoOrphan'
  BY <1>1 DEF CoreInv, Partition, RunnerInv, StoppedLeavesNoOrphan
<1>4. LiveInv' /\ SurfacedIffUnseen'
  BY <1>1, <1>2 DEF CoreInv, LiveInv, SurfacedIffUnseen, CoreTypeOK, Live
<1> QED
  BY <1>3, <1>4 DEF CoreInv

LEMMA DropsCore ==
    ASSUME CoreTypeOK, CoreInv, NEW i \in Ids, CallerDrops(i) \/ ForwardToolCancel(i)
    PROVE  CoreInv' /\ CoreTypeOK'
<1>1. /\ Live' = Live
      /\ UNCHANGED <<pending, active, completed, completedOrder, runs, request,
                     controlCancelled, killed, handleOnly, deadline, spawnReply, status,
                     waiterDelivered, surfaced, runner, reports, usageNotApplied,
                     commandsOpen, stopped>>
      /\ cancelled \subseteq cancelled' /\ cancelled' \subseteq cancelled \cup {i}
  BY DEF CallerDrops, ForwardToolCancel, registryVars, deliveryVars, runnerVars, bufferVars,
         lifeVars, Live
<1>2. caller' \in [Ids -> Callers]
  BY DEF CallerDrops, ForwardToolCancel, deliveryVars, CoreTypeOK, Callers
<1>3. \A j \in Ids : caller'[j] = "result" <=> caller[j] = "result"
  BY DEF CallerDrops, ForwardToolCancel, deliveryVars, CoreTypeOK
<1>4. Partition' /\ RunnerInv' /\ StoppedLeavesNoOrphan'
  BY <1>1 DEF CoreInv, Partition, RunnerInv, StoppedLeavesNoOrphan
<1>5. LiveInv' /\ SurfacedIffUnseen'
  BY <1>1, <1>3 DEF CoreInv, LiveInv, SurfacedIffUnseen, CoreTypeOK, Live
<1>6. CoreTypeOK'
  BY <1>1, <1>2 DEF CoreTypeOK
<1> QED
  BY <1>4, <1>5, <1>6 DEF CoreInv

------------------------------------------------------------------------------
(* The eviction order *)

\* completed_order lists the completed map, each id once.
OrderInv ==
    /\ {completedOrder[k] : k \in DOMAIN completedOrder} = completed
    /\ \A j, k \in DOMAIN completedOrder : completedOrder[j] = completedOrder[k] => j = k

LEMMA RememberOrder ==
    ASSUME CoreTypeOK, OrderInv, NEW i \in Ids, i \notin completed, Remember(i)
    PROVE  OrderInv'
<1> DEFINE n == Len(completedOrder)
           order == Append(completedOrder, i)
<1>1. /\ n \in Nat /\ DOMAIN completedOrder = 1..n
      /\ Len(order) = n + 1 /\ DOMAIN order = 1..(n + 1) /\ order \in Seq(Ids)
      /\ \A k \in 1..n : order[k] = completedOrder[k]
      /\ order[n + 1] = i
  BY DEF CoreTypeOK
<1>2. \A k \in 1..n : completedOrder[k] \in completed
  BY <1>1 DEF OrderInv
<1>3. \A j, k \in 1..(n + 1) : order[j] = order[k] => j = k
  BY <1>1, <1>2 DEF OrderInv
<1>4. \A x : x \in completed \cup {i} <=> \E k \in 1..(n + 1) : x = order[k]
  BY <1>1 DEF OrderInv
<1>5. CASE completedOrder' = order /\ completed' = completed \cup {i}
  BY <1>1, <1>3, <1>4, <1>5 DEF OrderInv
<1>6. CASE completedOrder' = Tail(order) /\ completed' = (completed \cup {i}) \ {Head(order)}
  <2>1. /\ Len(Tail(order)) = n /\ DOMAIN Tail(order) = 1..n
        /\ \A k \in 1..n : Tail(order)[k] = order[k + 1]
        /\ Head(order) = order[1]
    BY <1>1
  <2>2. \A j, k \in 1..n : Tail(order)[j] = Tail(order)[k] => j = k
    BY <1>1, <1>3, <2>1
  <2>3. \A x : x \in completed' <=> \E k \in 1..n : x = Tail(order)[k]
    <3>1. ASSUME NEW x \in completed' PROVE \E k \in 1..n : x = Tail(order)[k]
      <4>1. PICK m \in 1..(n + 1) : x = order[m]
        BY <1>4, <1>6
      <4>2. m # 1 /\ m - 1 \in 1..n
        BY <1>1, <1>6, <2>1, <4>1
      <4>3. (m - 1) + 1 = m
        BY <1>1
      <4>4. Tail(order)[m - 1] = order[m]
        BY <2>1, <4>2, <4>3
      <4> QED
        BY <4>1, <4>2, <4>4
    <3>2. ASSUME NEW k \in 1..n PROVE Tail(order)[k] \in completed'
      <4>1. k + 1 \in 1..(n + 1) /\ k + 1 # 1 /\ 1 \in 1..(n + 1)
        BY <1>1
      <4> QED
        BY <1>3, <1>4, <1>6, <2>1, <4>1
    <3> QED
      BY <3>1, <3>2
  <2>4. {Tail(order)[k] : k \in 1..n} = completed'
    BY <2>3
  <2>5. DOMAIN completedOrder' = 1..n
    BY <1>6, <2>1
  <2>6. {completedOrder'[k] : k \in DOMAIN completedOrder'} = completed'
    BY <1>6, <2>4, <2>5, Zenon
  <2>7. \A j, k \in DOMAIN completedOrder' : completedOrder'[j] = completedOrder'[k] => j = k
    BY <1>6, <2>2, <2>5, Zenon
  <2> QED
    BY <2>6, <2>7 DEF OrderInv
<1> QED
  BY <1>5, <1>6 DEF Remember

------------------------------------------------------------------------------
(* One step, and the theorems *)

Inv == TypeOK /\ CoreInv /\ OrderInv

LEMMA NextPreserves ==
    ASSUME Inv, [Next]_vars
    PROVE  Inv'
<1> USE DEF Inv, TypeOK
<1>1. ASSUME UNCHANGED coreVars, usageNotApplied' \subseteq UsageScopes
      PROVE  CoreTypeOK' /\ CoreInv' /\ OrderInv'
  BY <1>1 DEF coreVars, registryVars, flagVars, deliveryVars, runnerVars, lifeVars, CoreTypeOK,
              CoreInv, Partition, RunnerInv, LiveInv, SurfacedIffUnseen,
              StoppedLeavesNoOrphan, OrderInv, Live
<1>2. CASE Command
  <2>1. ClientTypeOK' /\ usageNotApplied' \subseteq UsageScopes
    BY <1>2, CommandClientTypes
  <2>2. CASE FlagsOnly
    <3>1. CoreTypeOK' /\ CoreInv'
      BY <2>1, <2>2, FlagsOnlyTypes, FlagsOnlyCore
    <3>2. OrderInv'
      BY <2>2 DEF FlagsOnly, registryVars, OrderInv
    <3> QED
      BY <2>1, <3>1, <3>2
  <2>3. CASE \E i \in Ids, req \in Requests : Spawn(i, req)
    <3>1. PICK i \in Ids, req \in Requests : Spawn(i, req)
      BY <2>3
    <3>2. CoreTypeOK' /\ CoreInv'
      BY <3>1, SpawnTypes, SpawnCore
    <3>3. OrderInv'
      BY <3>1 DEF Spawn, OrderInv
    <3> QED
      BY <2>1, <3>2, <3>3
  <2> QED
    BY <1>2, <2>2, <2>3, CommandCases
<1>3. ASSUME NEW i \in Ids, ReportStarted(i)
      PROVE  Inv'
  <2>1. /\ Live' = Live /\ reports' = reports \cup {i} /\ i \in Live /\ runner[i] = "init"
        /\ UNCHANGED <<registryVars, flagVars, deliveryVars, runner, clientVars, bufferVars,
                       lifeVars>>
    BY <1>3 DEF ReportStarted, registryVars, Live, CoreInv, Partition
  <2>2. i \in pending
    BY <2>1 DEF CoreInv, RunnerInv, Live
  <2>3. CoreTypeOK'
    BY <2>1 DEF CoreTypeOK, registryVars, flagVars, deliveryVars, bufferVars, lifeVars
  <2>4. CoreInv' /\ OrderInv'
    BY <2>1, <2>2 DEF registryVars, flagVars, deliveryVars, lifeVars, CoreInv, Partition,
                      RunnerInv, LiveInv, SurfacedIffUnseen, StoppedLeavesNoOrphan, OrderInv
  <2> QED
    BY <2>1, <2>3, <2>4 DEF clientVars, ClientTypeOK
<1>4. ASSUME NEW i \in Ids, CallerDrops(i) \/ ForwardToolCancel(i)
      PROVE  Inv'
  <2>1. CoreTypeOK' /\ CoreInv'
    BY <1>4, DropsCore
  <2>2. UNCHANGED clientVars /\ UNCHANGED <<completed, completedOrder>>
    BY <1>4 DEF CallerDrops, ForwardToolCancel, registryVars
  <2> QED
    BY <2>1, <2>2 DEF clientVars, ClientTypeOK, OrderInv
<1>5. ASSUME NEW c \in Clients, ClientDrops(c)
      PROVE  Inv'
  <2>1. ClientTypeOK'
    BY <1>5 DEF ClientDrops, ClientTypeOK
  <2> QED
    BY <1>1, <1>5, <2>1 DEF ClientDrops, coreVars, bufferVars, CoreTypeOK
<1>6. CASE CloseCommands
  <2>1. ClientTypeOK' /\ OrderInv'
    BY <1>6 DEF CloseCommands, registryVars, clientVars, ClientTypeOK, OrderInv
  <2>2. CoreTypeOK'
    BY <1>6 DEF CloseCommands, registryVars, flagVars, deliveryVars, runnerVars, bufferVars,
                CoreTypeOK, Live
  <2>3. CoreInv'
    BY <1>6 DEF CloseCommands, registryVars, flagVars, deliveryVars, runnerVars, CoreInv,
                Partition, RunnerInv, LiveInv, SurfacedIffUnseen, StoppedLeavesNoOrphan, Live
  <2> QED
    BY <2>1, <2>2, <2>3
<1>7. CASE Abort \/ Exit
  <2>1. Shutdown
    BY <1>7 DEF Abort, Exit
  <2>2. CoreTypeOK' /\ CoreInv'
    BY <2>1, EndTypes, ShutdownCore
  <2>3. "lost" \in Answers
    BY DEF Answers
  <2>4. ClientTypeOK' /\ OrderInv'
    BY <2>1, <2>3 DEF Shutdown, ClientTypeOK, OrderInv
  <2> QED
    BY <2>2, <2>4
<1>8. ASSUME NEW i \in Ids, HandleStarted(i)
      PROVE  Inv'
  <2>1. CoreTypeOK' /\ CoreInv'
    BY <1>8, StartedTypes, StartedCore
  <2>2. ClientTypeOK' /\ OrderInv'
    BY <1>8 DEF HandleStarted, clientVars, ClientTypeOK, OrderInv
  <2> QED
    BY <2>1, <2>2
<1>9. ASSUME NEW i \in Ids, NEW st \in Statuses, Settle(i, st)
      PROVE  Inv'
  <2>1. CoreTypeOK' /\ CoreInv'
    BY <1>9, SettleTypes, SettleCore DEF CoreInv
  <2>2. ClientTypeOK'
    BY <1>9, SettleClientTypes
  <2>3. OrderInv'
    BY <1>9, RememberOrder DEF Settle, CoreInv, Partition
  <2> QED
    BY <2>1, <2>2, <2>3
<1>10. ASSUME NEW c \in Clients, NEW i \in Ids, FinishProgress(c, i)
       PROVE  Inv'
  <2>1. ProgressAnswer(ask[c].kind, i) \in Answers
    BY AnswerTypes
  <2>2. ClientTypeOK'
    BY <1>10, <2>1, UnparkTypes DEF FinishProgress, ClientTypeOK
  <2> QED
    BY <1>1, <1>10, <2>2 DEF FinishProgress, coreVars, bufferVars, CoreTypeOK
<1>11. ASSUME NEW c \in Clients, NEW i \in Ids, FinishListSlot(c, i)
       PROVE  Inv'
  <2>1. "ack" \in Answers
    BY DEF Answers
  <2>2. CASE listRemaining[c] = 1
    <3>1. /\ inbox' \in [Clients -> Answers \cup {"idle", "awaiting", "gone"}]
          /\ ask' \in [Clients -> [kind : Kinds \cup {"none"}, id : Ids \cup {NoId}]]
      BY <1>11, <2>1, <2>2, UnparkTypes DEF FinishListSlot
    <3>2. listed' \in [Clients -> SUBSET Ids]
      BY <1>11 DEF FinishListSlot, ClientTypeOK
    <3> QED
      BY <1>1, <1>11, <3>1, <3>2
         DEF FinishListSlot, ClientTypeOK, coreVars, bufferVars, CoreTypeOK
  <2>3. CASE listRemaining[c] # 1
    <3>1. listed' \in [Clients -> SUBSET Ids] /\ UNCHANGED <<inbox, ask>>
      BY <1>11, <2>3 DEF FinishListSlot, ClientTypeOK
    <3> QED
      BY <1>1, <1>11, <3>1
         DEF FinishListSlot, ClientTypeOK, coreVars, bufferVars, CoreTypeOK
  <2> QED
    BY <2>2, <2>3
<1>12. ASSUME NEW c \in Clients, FinishLookup(c)
       PROVE  Inv'
  <2>1. "ack" \in Answers
    BY DEF Answers
  <2>2. ClientTypeOK'
    BY <1>12, <2>1, UnparkTypes DEF FinishLookup, ClientTypeOK
  <2> QED
    BY <1>1, <1>12, <2>2 DEF FinishLookup, coreVars, bufferVars, CoreTypeOK
<1>13. ASSUME NEW kids \in SUBSET deadline, NEW due \in SUBSET waiters,
              ProcessDeadlines(kids, due)
       PROVE  Inv'
  <2>1. CoreTypeOK' /\ CoreInv' /\ ClientTypeOK'
    BY <1>13, DeadlineTypes, DeadlineCore, DeadlineClientTypes
  <2>2. OrderInv'
    BY <1>13 DEF ProcessDeadlines, registryVars, OrderInv
  <2> QED
    BY <2>1, <2>2
<1>14. CASE UNCHANGED vars
  BY <1>1, <1>14 DEF vars, coreVars, clientVars, bufferVars, ClientTypeOK, CoreTypeOK
<1>15. CASE Environment
  BY <1>3, <1>4, <1>5, <1>6, <1>7, <1>15 DEF Environment
<1>16. CASE ActorStep
  <2>1. "ended" \in Statuses
    BY DEF Statuses
  <2> QED
    BY <1>7, <1>8, <1>9, <1>10, <1>11, <1>12, <1>13, <1>16, <2>1
       DEF ActorStep, FinishChild, FinishPanickedChild
<1> QED
  BY <1>2, <1>14, <1>15, <1>16 DEF Next, Terminated

LEMMA InitInv == Init => Inv
<1>1. Init => OrderInv
  BY DEF Init, OrderInv
<1> QED
  BY <1>1, InitTypes, InitCore DEF Inv

LEMMA Invariance == Spec => []Inv
<1>1. Inv /\ [Next]_vars => Inv'
  BY NextPreserves
<1> QED
  BY <1>1, InitInv, PTL DEF Spec

\* The registry, the flags of its children and the askers' channels keep their
\* types through every command, runner event and deadline.
THEOREM TypeCorrect == Spec => []TypeOK
<1>1. Inv => TypeOK
  BY DEF Inv
<1> QED
  BY <1>1, Invariance, PTL

\* pending, active and completed stay disjoint, every live child has its run
\* future, and completed_order is an exact listing of completed.
THEOREM RegistryCorrect == Spec => []RegistryConsistent
<1>1. Inv => RegistryConsistent
  BY DEF Inv, CoreInv, Partition, OrderInv, RegistryConsistent
<1> QED
  BY <1>1, Invariance, PTL

\* However a kill and a promotion are ordered, the runtime that was told it is
\* live has been cancelled.
THEOREM KillCorrect == Spec => []KillReachesRuntime
<1>1. Inv => KillReachesRuntime
  BY DEF Inv, CoreInv, RunnerInv, KillReachesRuntime, Live
<1> QED
  BY <1>1, Invariance, PTL

\* A result is surfaced exactly when nobody has seen it: no result is lost and
\* none is announced twice, whatever callers, deadlines and kills do.
THEOREM SurfacingCorrect == Spec => []SurfacedIffUnseen
<1>1. Inv => SurfacedIffUnseen
  BY DEF Inv, CoreInv
<1> QED
  BY <1>1, Invariance, PTL

\* No child outlives the coordinator without having been cancelled.
THEOREM NoOrphans == Spec => []StoppedLeavesNoOrphan
<1>1. Inv => StoppedLeavesNoOrphan
  BY DEF Inv, CoreInv
<1> QED
  BY <1>1, Invariance, PTL
==============================================================================
