------------------------ MODULE SubagentAskerProofs --------------------------
(***************************************************************************)
(* Proofs about what SubagentCoordinator owes those who wait on it: the    *)
(* askers with a parked reply, the spawn callers and the parent turns, for *)
(* any number of children, askers, sessions and workflow runs; and about   *)
(* its caps and the rooting of nested children.                            *)
(*                                                                         *)
(* NobodyForgotten is not inductive: nothing in it says that an asker is   *)
(* parked in one place only, that the question it has open is the one the  *)
(* place serves, or that listRemaining counts the slots still to come.     *)
(* Seat says all that; ForegroundInv says what the flags of a child that   *)
(* still blocks its turn look like; CapInv ties the eviction loop's count  *)
(* to the length of completed_order.                                       *)
(***************************************************************************)
EXTENDS SubagentRefinementProofs, SequenceTheorems

\* The progress futures of an asker, and the workflow runs whose end it awaits.
Slots(c) == {i \in Ids : <<c, i>> \in progress}
AwaitedRuns(c) == {run \in WorkflowRuns : <<c, run>> \in workflowCancelWaiters}

Nowhere(c) == c \notin waiters /\ c \notin lookups /\ Slots(c) = {} /\ AwaitedRuns(c) = {}

OnChild(c) ==
    /\ ask[c].kind = "query" /\ ask[c].id \in Live
    /\ c \in waiters /\ c \notin lookups /\ Slots(c) = {} /\ AwaitedRuns(c) = {}

OnProgress(c) ==
    /\ ask[c].kind \in {"query", "inspect"} /\ ask[c].id \in Ids
    /\ c \notin waiters /\ c \notin lookups /\ Slots(c) = {ask[c].id} /\ AwaitedRuns(c) = {}

OnList(c) ==
    /\ ask[c].kind = "list"
    /\ c \notin waiters /\ c \notin lookups /\ AwaitedRuns(c) = {}
    /\ Slots(c) # {} /\ IsFiniteSet(Slots(c)) /\ listRemaining[c] = Cardinality(Slots(c))

OnWorkflow(c) ==
    /\ ask[c].kind = "workflow"
    /\ c \notin waiters /\ c \notin lookups /\ Slots(c) = {}
    /\ \E run \in WorkflowRuns : AwaitedRuns(c) = {run} /\ WorkflowOutstanding(run) # {}

OnLookup(c) ==
    /\ ask[c].kind = "lookup"
    /\ c \notin waiters /\ c \in lookups /\ Slots(c) = {} /\ AwaitedRuns(c) = {}

\* An asker is parked in exactly one place, the one that serves its question, for
\* as long as its reply sender is held; otherwise nowhere.
Seat(c) ==
    \/ Ready(c) /\ Nowhere(c)
    \/ ~Ready(c) /\ (OnChild(c) \/ OnProgress(c) \/ OnList(c) \/ OnWorkflow(c) \/ OnLookup(c))

AskerInv ==
    /\ ~stopped => \A c \in Clients : Seat(c)
    /\ stopped => \A c \in Clients : inbox[c] # "awaiting"
    /\ IsFiniteSet(pending) /\ IsFiniteSet(active)
    /\ listRemaining \in [Clients -> Nat]

\* A child that is not handle-only still holds its caller's reply sender, unless
\* the caller of a workflow child is gone; who holds it has not been answered.
ForegroundInv ==
    ~stopped => \A i \in Live :
        /\ i \notin handleOnly /\ ~IsWorkflow(i) => i \in spawnReply
        /\ i \in spawnReply => caller[i] \in {"waiting", "gone"}

\* What the eviction loop counts is the length of completed_order.
CapInv ==
    /\ IsFiniteSet(completed) /\ Cardinality(completed) = Len(completedOrder)
    /\ Len(completedOrder) <= MaxCompleted

------------------------------------------------------------------------------
(* Seats *)

\* Nothing an asker's seat depends on changes.
Undisturbed(c) ==
    /\ inbox'[c] = inbox[c] /\ ask'[c] = ask[c] /\ listRemaining'[c] = listRemaining[c]
    /\ (c \in waiters' <=> c \in waiters) /\ (c \in lookups' <=> c \in lookups)
    /\ Slots(c)' = Slots(c) /\ AwaitedRuns(c)' = AwaitedRuns(c)

LEMMA SeatKept ==
    ASSUME NEW c \in Clients, Seat(c), Undisturbed(c),
           c \in waiters /\ ask[c].id \in Live => ask[c].id \in Live',
           \A run \in AwaitedRuns(c) :
              WorkflowOutstanding(run) # {} => WorkflowOutstanding(run)' # {}
    PROVE  Seat(c)'
<1> USE DEF Undisturbed
<1>1. Ready(c)' <=> Ready(c)
  BY DEF Ready
<1>2. Nowhere(c) => Nowhere(c)'
  BY DEF Nowhere
<1>3. OnChild(c) => OnChild(c)'
  BY DEF OnChild
<1>4. OnProgress(c) => OnProgress(c)'
  BY DEF OnProgress
<1>5. OnList(c) => OnList(c)'
  BY DEF OnList
<1>6. OnWorkflow(c) => OnWorkflow(c)'
  BY DEF OnWorkflow
<1>7. OnLookup(c) => OnLookup(c)'
  BY DEF OnLookup
<1> QED
  BY <1>1, <1>2, <1>3, <1>4, <1>5, <1>6, <1>7 DEF Seat

\* The registry an asker can be parked on is the same.
SameChildren == Live' = Live /\ request' = request

LEMMA SeatKeptHere ==
    ASSUME NEW c \in Clients, Seat(c), Undisturbed(c), SameChildren
    PROVE  Seat(c)'
<1>1. \A run : WorkflowOutstanding(run)' = WorkflowOutstanding(run)
  BY DEF SameChildren, WorkflowOutstanding
<1> QED
  BY <1>1, SeatKept DEF SameChildren

LEMMA FreeIsNowhere ==
    ASSUME NEW c \in Clients, Seat(c), Ready(c)
    PROVE  Nowhere(c)
BY DEF Seat

\* An asker answered on the spot stays free.
LEMMA ReplySeats ==
    ASSUME ClientTypeOK, \A d \in Clients : Seat(d), NEW c \in Clients, Ready(c),
           NEW a \in Answers, NEW ids, Reply(c, a, ids), SameChildren
    PROVE  \A d \in Clients : Seat(d)'
<1> SUFFICES ASSUME NEW d \in Clients PROVE Seat(d)'
  OBVIOUS
<1>0. /\ inbox' = [inbox EXCEPT ![c] = a]
      /\ UNCHANGED <<ask, waiters, workflowCancelWaiters, progress, listRemaining, lookups>>
  BY DEF Reply
<1>1. CASE d # c
  <2>1. Undisturbed(d)
    BY <1>0, <1>1 DEF Undisturbed, ClientTypeOK, Slots, AwaitedRuns
  <2> QED
    BY <2>1, SeatKeptHere
<1>2. CASE d = c
  <2>1. Nowhere(c)' /\ Ready(c)'
    BY <1>0, FreeIsNowhere DEF Nowhere, Slots, AwaitedRuns, Ready, ClientTypeOK, Answers
  <2> QED
    BY <1>2, <2>1 DEF Seat
<1> QED
  BY <1>1, <1>2

\* A command that parks one asker leaves the others where they are.
LEMMA ParkSeats ==
    ASSUME ClientTypeOK, \A d \in Clients : Seat(d), NEW c \in Clients,
           NEW kind, NEW i, Park(c, kind, i), SameChildren,
           \A d \in Clients \ {c} :
              /\ listRemaining'[d] = listRemaining[d]
              /\ (d \in waiters' <=> d \in waiters) /\ (d \in lookups' <=> d \in lookups)
              /\ Slots(d)' = Slots(d) /\ AwaitedRuns(d)' = AwaitedRuns(d)
    PROVE  /\ \A d \in Clients \ {c} : Seat(d)'
           /\ ~Ready(c)' /\ ask'[c].kind = kind /\ ask'[c].id = i
<1>1. ASSUME NEW d \in Clients \ {c} PROVE Seat(d)'
  <2>1. Undisturbed(d)
    BY DEF Undisturbed, Park, ClientTypeOK
  <2> QED
    BY <2>1, SeatKeptHere
<1>2. ~Ready(c)' /\ ask'[c].kind = kind /\ ask'[c].id = i
  BY DEF Park, Ready, ClientTypeOK
<1> QED
  BY <1>1, <1>2

------------------------------------------------------------------------------
(* Commands and seats *)

LEMMA QueryBlockingSeats ==
    ASSUME Inv, \A d \in Clients : Seat(d), NEW c \in Clients, NEW i \in Ids, NEW s,
           QueryBlocking(c, i, s)
    PROVE  \A d \in Clients : Seat(d)'
<1> USE DEF Inv, TypeOK
<1>1. /\ SameChildren /\ Ready(c) /\ i \in Live /\ Park(c, "query", i)
      /\ waiters' = waiters \cup {c}
      /\ UNCHANGED <<workflowCancelWaiters, progress, listRemaining, lookups>>
  BY DEF QueryBlocking, SameChildren, registryVars, Live
<1>2. \A d \in Clients : Slots(d)' = Slots(d) /\ AwaitedRuns(d)' = AwaitedRuns(d)
  BY <1>1 DEF Slots, AwaitedRuns
<1>3. /\ \A d \in Clients \ {c} : Seat(d)'
      /\ ~Ready(c)' /\ ask'[c].kind = "query" /\ ask'[c].id = i
  BY <1>1, <1>2, ParkSeats
<1>4. Nowhere(c)
  BY <1>1, FreeIsNowhere
<1>5. OnChild(c)'
  BY <1>1, <1>2, <1>3, <1>4 DEF OnChild, Nowhere, SameChildren
<1> QED
  BY <1>3, <1>5 DEF Seat

LEMMA AskProgressSeats ==
    ASSUME Inv, \A d \in Clients : Seat(d), NEW c \in Clients, NEW i \in Ids, NEW s,
           NEW kind, AskProgress(c, i, s, kind)
    PROVE  \A d \in Clients : Seat(d)'
<1> USE DEF Inv, TypeOK
<1>1. /\ SameChildren /\ Ready(c) /\ kind \in {"query", "inspect"} /\ Park(c, kind, i)
      /\ progress' = progress \cup {<<c, i>>}
      /\ UNCHANGED <<waiters, workflowCancelWaiters, listRemaining, lookups>>
  BY DEF AskProgress, SameChildren, registryVars, Live
<1>2. /\ \A d \in Clients : AwaitedRuns(d)' = AwaitedRuns(d)
      /\ \A d \in Clients \ {c} : Slots(d)' = Slots(d)
      /\ Slots(c)' = Slots(c) \cup {i}
  BY <1>1 DEF Slots, AwaitedRuns
<1>3. /\ \A d \in Clients \ {c} : Seat(d)'
      /\ ~Ready(c)' /\ ask'[c].kind = kind /\ ask'[c].id = i
  BY <1>1, <1>2, ParkSeats
<1>4. Nowhere(c)
  BY <1>1, FreeIsNowhere
<1>5. OnProgress(c)'
  BY <1>1, <1>2, <1>3, <1>4 DEF OnProgress, Nowhere
<1> QED
  BY <1>3, <1>5 DEF Seat

LEMMA ListRunningSeats ==
    ASSUME Inv, AskerInv, \A d \in Clients : Seat(d), NEW c \in Clients, NEW s,
           ListRunning(c, s)
    PROVE  \A d \in Clients : Seat(d)'
<1> USE DEF Inv, TypeOK
<1>1. SameChildren /\ Ready(c)
  BY DEF ListRunning, SameChildren, registryVars, Live
<1>2. CASE Reply(c, "ack", {})
  <2>1. "ack" \in Answers
    BY DEF Answers
  <2> QED
    BY <1>1, <1>2, <2>1, ReplySeats
<1>3. CASE /\ Listable(s) # {} /\ Park(c, "list", NoId)
           /\ listRemaining' = [listRemaining EXCEPT ![c] = Cardinality(Listable(s))]
           /\ progress' = progress \cup ({c} \X Listable(s))
           /\ UNCHANGED <<waiters, workflowCancelWaiters, lookups>>
  <2>1. Listable(s) \subseteq active /\ Listable(s) \subseteq Ids
    BY DEF Listable, CoreTypeOK
  <2>2. IsFiniteSet(Listable(s))
    BY <2>1, FS_Subset DEF AskerInv
  <2>3. /\ \A d \in Clients : AwaitedRuns(d)' = AwaitedRuns(d)
        /\ \A d \in Clients \ {c} : Slots(d)' = Slots(d)
        /\ Slots(c)' = Slots(c) \cup Listable(s)
    BY <1>3, <2>1 DEF Slots, AwaitedRuns
  <2>4. /\ \A d \in Clients \ {c} : listRemaining'[d] = listRemaining[d]
        /\ listRemaining'[c] = Cardinality(Listable(s))
    BY <1>3 DEF AskerInv
  <2>5. /\ \A d \in Clients \ {c} : Seat(d)'
        /\ ~Ready(c)' /\ ask'[c].kind = "list"
    BY <1>1, <1>3, <2>3, <2>4, ParkSeats
  <2>6. Nowhere(c)
    BY <1>1, FreeIsNowhere
  <2>7. OnList(c)'
    BY <1>3, <2>2, <2>3, <2>4, <2>5, <2>6 DEF OnList, Nowhere
  <2> QED
    BY <2>5, <2>7 DEF Seat
<1> QED
  BY <1>2, <1>3 DEF ListRunning

LEMMA AskLookupSeats ==
    ASSUME Inv, \A d \in Clients : Seat(d), NEW c \in Clients, AskLookup(c)
    PROVE  \A d \in Clients : Seat(d)'
<1> USE DEF Inv, TypeOK
<1>1. /\ SameChildren /\ Ready(c) /\ Park(c, "lookup", NoId) /\ lookups' = lookups \cup {c}
      /\ UNCHANGED <<waiters, workflowCancelWaiters, progress, listRemaining>>
  BY DEF AskLookup, SameChildren, registryVars, Live
<1>2. \A d \in Clients : Slots(d)' = Slots(d) /\ AwaitedRuns(d)' = AwaitedRuns(d)
  BY <1>1 DEF Slots, AwaitedRuns
<1>3. /\ \A d \in Clients \ {c} : Seat(d)'
      /\ ~Ready(c)' /\ ask'[c].kind = "lookup"
  BY <1>1, <1>2, ParkSeats
<1>4. Nowhere(c)
  BY <1>1, FreeIsNowhere
<1>5. OnLookup(c)'
  BY <1>1, <1>2, <1>3, <1>4 DEF OnLookup, Nowhere
<1> QED
  BY <1>3, <1>5 DEF Seat

LEMMA CancelWorkflowSeats ==
    ASSUME Inv, \A d \in Clients : Seat(d), NEW c \in Clients, NEW run \in WorkflowRuns,
           NEW s, CancelWorkflow(c, run, s)
    PROVE  \A d \in Clients : Seat(d)'
<1> USE DEF Inv, TypeOK
<1>1. SameChildren /\ Ready(c)
  BY DEF CancelWorkflow, SameChildren, registryVars, Live
<1>2. CASE Reply(c, "ack", {})
  <2>1. "ack" \in Answers
    BY DEF Answers
  <2> QED
    BY <1>1, <1>2, <2>1, ReplySeats
<1>3. CASE /\ WorkflowOutstanding(run) # {} /\ Park(c, "workflow", NoId)
           /\ workflowCancelWaiters' = workflowCancelWaiters \cup {<<c, run>>}
           /\ UNCHANGED <<waiters, progress, listRemaining, lookups>>
  <2>1. /\ \A d \in Clients : Slots(d)' = Slots(d)
        /\ \A d \in Clients \ {c} : AwaitedRuns(d)' = AwaitedRuns(d)
        /\ AwaitedRuns(c)' = AwaitedRuns(c) \cup {run}
    BY <1>3 DEF Slots, AwaitedRuns
  <2>2. /\ \A d \in Clients \ {c} : Seat(d)'
        /\ ~Ready(c)' /\ ask'[c].kind = "workflow"
    BY <1>1, <1>3, <2>1, ParkSeats
  <2>3. Nowhere(c)
    BY <1>1, FreeIsNowhere
  <2>4. WorkflowOutstanding(run)' # {}
    BY <1>1, <1>3 DEF WorkflowOutstanding, SameChildren
  <2>5. OnWorkflow(c)'
    BY <1>3, <2>1, <2>2, <2>3, <2>4 DEF OnWorkflow, Nowhere
  <2> QED
    BY <2>2, <2>5 DEF Seat
<1> QED
  BY <1>2, <1>3 DEF CancelWorkflow

\* Nothing of the askers' own state changes, and no live child is lost.
LEMMA QuietSeats ==
    ASSUME Inv, \A d \in Clients : Seat(d), UNCHANGED clientVars, Live \subseteq Live',
           \A i \in Live : request'[i] = request[i]
    PROVE  \A d \in Clients : Seat(d)'
<1> SUFFICES ASSUME NEW d \in Clients PROVE Seat(d)'
  OBVIOUS
<1>1. Undisturbed(d)
  BY DEF Undisturbed, clientVars, Slots, AwaitedRuns
<1>2. \A run : WorkflowOutstanding(run) \subseteq WorkflowOutstanding(run)'
  BY DEF WorkflowOutstanding
<1> QED
  BY <1>1, <1>2, SeatKept

LEMMA CommandIsOpen == Command => commandsOpen
<1>1. \A c, i, s : CancelSubagent(c, i, s) => commandsOpen
  BY DEF CancelSubagent
<1>2. \A c, i, s, kind : QueryNow(c, i, s) \/ QueryBlocking(c, i, s) \/ InspectNow(c, i, s)
                           \/ AskProgress(c, i, s, kind) => commandsOpen
  BY DEF QueryNow, QueryBlocking, AskProgress, InspectNow
<1>3. \A c, s, p : ListRunning(c, s) \/ AskLookup(c) \/ CancelParentPrompt(c, p, s)
                     \/ CancelWorkflow(c, p, s) \/ Outstanding(c, s, p)
                     \/ DrainCompletions(s) \/ UsageNotApplied(s, p) => commandsOpen
  BY DEF ListRunning, AskLookup, CancelParentPrompt, CancelWorkflow, Outstanding,
         DrainCompletions, UsageNotApplied
<1>4. \A i, req : Spawn(i, req) \/ ReadOnlyCommand => commandsOpen
  BY DEF Spawn, ReadOnlyCommand
<1> QED
  BY <1>1, <1>2, <1>3, <1>4 DEF Command

LEMMA CommandCounts ==
    ASSUME Inv, AskerInv, Command
    PROVE  listRemaining' \in [Clients -> Nat]
<1>1. ASSUME NEW c \in Clients, NEW s, ListRunning(c, s)
      PROVE  listRemaining' \in [Clients -> Nat]
  <2>1. CASE UNCHANGED listRemaining
    BY <2>1 DEF AskerInv
  <2>2. CASE listRemaining' = [listRemaining EXCEPT ![c] = Cardinality(Listable(s))]
    <3>1. IsFiniteSet(Listable(s))
      BY FS_Subset DEF AskerInv, Listable
    <3>2. Cardinality(Listable(s)) \in Nat
      BY <3>1, FS_CardinalityType
    <3> QED
      BY <2>2, <3>2 DEF AskerInv
  <2> QED
    BY <1>1, <2>1, <2>2 DEF ListRunning, Reply
<1>2. \A c, i, s : CancelSubagent(c, i, s) => UNCHANGED listRemaining
  BY DEF CancelSubagent, Reply
<1>3. \A c, i, s, kind : QueryNow(c, i, s) \/ QueryBlocking(c, i, s) \/ InspectNow(c, i, s)
                           \/ AskProgress(c, i, s, kind) => UNCHANGED listRemaining
  BY DEF QueryNow, QueryBlocking, AskProgress, InspectNow, Reply
<1>4. \A c, s, p : AskLookup(c) \/ CancelParentPrompt(c, p, s) \/ CancelWorkflow(c, p, s)
                     \/ Outstanding(c, s, p) \/ DrainCompletions(s) \/ UsageNotApplied(s, p)
                     => UNCHANGED listRemaining
  BY DEF AskLookup, CancelParentPrompt, CancelWorkflow, Outstanding, DrainCompletions,
         UsageNotApplied, Reply, clientVars
<1>5. \A i, req : Spawn(i, req) \/ ReadOnlyCommand => UNCHANGED listRemaining
  BY DEF Spawn, ReadOnlyCommand, clientVars
<1>6. listRemaining \in [Clients -> Nat]
  BY DEF AskerInv
<1> QED
  BY <1>1, <1>2, <1>3, <1>4, <1>5, <1>6 DEF Command

LEMMA CommandSeats ==
    ASSUME Inv, AskerInv, Command
    PROVE  \A d \in Clients : Seat(d)'
<1> USE DEF Inv, TypeOK
<1>0. ~stopped
  BY CommandIsOpen DEF CoreInv, Partition
<1>s. \A d \in Clients : Seat(d)
  BY <1>0 DEF AskerInv
<1>1. ASSUME NEW i \in Ids, NEW req \in Requests, Spawn(i, req)
      PROVE  \A d \in Clients : Seat(d)'
  <2>1. /\ UNCHANGED clientVars /\ i \notin Live /\ Live' = Live \cup {i}
        /\ request' = [request EXCEPT ![i] = ReRooted(req)]
    BY <1>1 DEF Spawn, Live
  <2>2. \A j \in Live : request'[j] = request[j]
    BY <2>1 DEF CoreTypeOK, Live
  <2> QED
    BY <1>s, <2>1, <2>2, QuietSeats
<1>2. ASSUME UNCHANGED clientVars, UNCHANGED registryVars
      PROVE  \A d \in Clients : Seat(d)'
  BY <1>s, <1>2, QuietSeats DEF registryVars, Live
<1>3. CASE ReadOnlyCommand
  BY <1>2, <1>3 DEF ReadOnlyCommand
<1>4. ASSUME NEW c \in Clients, NEW a \in Answers, NEW ids, Ready(c), Reply(c, a, ids),
             UNCHANGED registryVars
      PROVE  \A d \in Clients : Seat(d)'
  BY <1>s, <1>4, ReplySeats DEF SameChildren, registryVars, Live
<1>5. ASSUME NEW c \in Clients, NEW i \in Ids, NEW s \in Scopes,
             QueryNow(c, i, s) \/ InspectNow(c, i, s) \/ CancelSubagent(c, i, s)
      PROVE  \A d \in Clients : Seat(d)'
  <2>1. Ready(c) /\ UNCHANGED registryVars
    BY <1>5 DEF QueryNow, InspectNow, CancelSubagent
  <2>2. \E a \in Answers : Reply(c, a, {})
    BY <1>5 DEF QueryNow, InspectNow, CancelSubagent, ReadySnapshot, Answers
  <2> QED
    BY <1>4, <2>1, <2>2
<1>6. ASSUME NEW c \in Clients, NEW p \in Prompts, NEW s,
             CancelParentPrompt(c, p, s) \/ Outstanding(c, s, p)
      PROVE  \A d \in Clients : Seat(d)'
  <2>1. Ready(c) /\ UNCHANGED registryVars /\ "ack" \in Answers
    BY <1>6 DEF CancelParentPrompt, Outstanding, Answers
  <2>2. \E ids : Reply(c, "ack", ids)
    BY <1>6 DEF CancelParentPrompt, Outstanding
  <2> QED
    BY <1>4, <2>1, <2>2
<1>7. ASSUME NEW s \in Scopes, DrainCompletions(s)
      PROVE  \A d \in Clients : Seat(d)'
  BY <1>2, <1>7 DEF DrainCompletions
<1>8. ASSUME NEW scope \in UsageScopes, NEW mark \in BOOLEAN, UsageNotApplied(scope, mark)
      PROVE  \A d \in Clients : Seat(d)'
  BY <1>2, <1>8 DEF UsageNotApplied
<1> QED
  BY <1>s, <1>1, <1>3, <1>5, <1>6, <1>7, <1>8, QueryBlockingSeats, AskProgressSeats,
     ListRunningSeats, AskLookupSeats, CancelWorkflowSeats DEF Command

------------------------------------------------------------------------------
(* The actor's own steps and seats *)

LEMMA ClientDropsSeats ==
    ASSUME Inv, \A d \in Clients : Seat(d), NEW c \in Clients, ClientDrops(c)
    PROVE  \A d \in Clients : Seat(d)'
<1> USE DEF Inv, TypeOK
<1> SUFFICES ASSUME NEW d \in Clients PROVE Seat(d)'
  OBVIOUS
<1>1. /\ SameChildren /\ inbox[c] = "awaiting" /\ inbox' = [inbox EXCEPT ![c] = "gone"]
      /\ UNCHANGED <<ask, waiters, workflowCancelWaiters, progress, listRemaining, lookups>>
      /\ Slots(d)' = Slots(d) /\ AwaitedRuns(d)' = AwaitedRuns(d)
      /\ \A run : WorkflowOutstanding(run)' = WorkflowOutstanding(run)
  BY DEF ClientDrops, SameChildren, registryVars, Live, Slots, AwaitedRuns, WorkflowOutstanding
<1>2. CASE d # c
  BY <1>1, <1>2, SeatKeptHere DEF Undisturbed, ClientTypeOK
<1>3. CASE d = c
  <2>1. ~Ready(c) /\ ~Ready(c)'
    BY <1>1 DEF Ready, ClientTypeOK
  <2>2. OnChild(c)' <=> OnChild(c)
    BY <1>1, <1>3 DEF OnChild, SameChildren
  <2>3. OnProgress(c)' <=> OnProgress(c)
    BY <1>1, <1>3 DEF OnProgress
  <2>4. OnList(c)' <=> OnList(c)
    BY <1>1, <1>3 DEF OnList
  <2>5. OnWorkflow(c)' <=> OnWorkflow(c)
    BY <1>1, <1>3 DEF OnWorkflow
  <2>6. OnLookup(c)' <=> OnLookup(c)
    BY <1>1, <1>3 DEF OnLookup
  <2> QED
    BY <1>3, <2>1, <2>2, <2>3, <2>4, <2>5, <2>6 DEF Seat
<1> QED
  BY <1>2, <1>3

\* A parked asker is answered: it is free, and nothing of it is left in the actor.
LEMMA AnsweredSeats ==
    ASSUME Inv, \A d \in Clients : Seat(d), NEW c \in Clients, NEW a \in Answers,
           SameChildren, inbox' = [inbox EXCEPT ![c] = Deliver(c, a)],
           \A d \in Clients \ {c} :
              /\ ask'[d] = ask[d] /\ listRemaining'[d] = listRemaining[d]
              /\ (d \in waiters' <=> d \in waiters) /\ (d \in lookups' <=> d \in lookups)
              /\ Slots(d)' = Slots(d) /\ AwaitedRuns(d)' = AwaitedRuns(d),
           Nowhere(c)'
    PROVE  \A d \in Clients : Seat(d)'
<1> USE DEF Inv, TypeOK
<1> SUFFICES ASSUME NEW d \in Clients PROVE Seat(d)'
  OBVIOUS
<1>1. CASE d # c
  BY <1>1, SeatKeptHere DEF Undisturbed, ClientTypeOK
<1>2. CASE d = c
  BY <1>2 DEF Seat, Ready, Deliver, Answers, ClientTypeOK
<1> QED
  BY <1>1, <1>2

LEMMA FinishProgressSeats ==
    ASSUME Inv, \A d \in Clients : Seat(d), NEW c \in Clients, NEW i \in Ids,
           FinishProgress(c, i)
    PROVE  (\A d \in Clients : Seat(d)') /\ i = ask[c].id
<1> USE DEF Inv, TypeOK
<1>1. /\ SameChildren /\ <<c, i>> \in progress /\ ask[c].kind \in {"query", "inspect"}
      /\ progress' = progress \ {<<c, i>>}
      /\ inbox' = [inbox EXCEPT ![c] = Deliver(c, ProgressAnswer(ask[c].kind, i))]
      /\ ask' = [ask EXCEPT ![c] = NoAsk]
      /\ UNCHANGED <<waiters, workflowCancelWaiters, listRemaining, lookups>>
  BY DEF FinishProgress, SameChildren, registryVars, Live
<1>2. ProgressAnswer(ask[c].kind, i) \in Answers
  BY AnswerTypes
<1>3. i \in Slots(c)
  BY <1>1 DEF Slots
<1>4. OnProgress(c)
  BY <1>1, <1>3 DEF Seat, Nowhere, OnChild, OnList, OnWorkflow, OnLookup
<1>5. /\ \A d \in Clients : AwaitedRuns(d)' = AwaitedRuns(d)
      /\ \A d \in Clients \ {c} : Slots(d)' = Slots(d)
      /\ Slots(c)' = Slots(c) \ {i}
  BY <1>1 DEF Slots, AwaitedRuns
<1>6. Nowhere(c)' /\ i = ask[c].id
  BY <1>1, <1>3, <1>4, <1>5 DEF OnProgress, Nowhere
<1>7. \A d \in Clients \ {c} : ask'[d] = ask[d]
  BY <1>1 DEF ClientTypeOK
<1> QED
  BY <1>1, <1>2, <1>5, <1>6, <1>7, AnsweredSeats

LEMMA FinishLookupSeats ==
    ASSUME Inv, \A d \in Clients : Seat(d), NEW c \in Clients, FinishLookup(c)
    PROVE  \A d \in Clients : Seat(d)'
<1> USE DEF Inv, TypeOK
<1>1. /\ SameChildren /\ c \in lookups /\ lookups' = lookups \ {c}
      /\ inbox' = [inbox EXCEPT ![c] = Deliver(c, "ack")]
      /\ ask' = [ask EXCEPT ![c] = NoAsk]
      /\ UNCHANGED <<waiters, workflowCancelWaiters, progress, listRemaining>>
  BY DEF FinishLookup, SameChildren, registryVars, Live
<1>2. OnLookup(c)
  BY <1>1 DEF Seat, Nowhere, OnChild, OnProgress, OnList, OnWorkflow
<1>3. \A d \in Clients : Slots(d)' = Slots(d) /\ AwaitedRuns(d)' = AwaitedRuns(d)
  BY <1>1 DEF Slots, AwaitedRuns
<1>4. Nowhere(c)'
  BY <1>1, <1>2, <1>3 DEF OnLookup, Nowhere
<1>5. "ack" \in Answers /\ \A d \in Clients \ {c} : ask'[d] = ask[d]
  BY <1>1 DEF ClientTypeOK, Answers
<1> QED
  BY <1>1, <1>3, <1>4, <1>5, AnsweredSeats

LEMMA FinishListSlotSeats ==
    ASSUME Inv, AskerInv, \A d \in Clients : Seat(d), NEW c \in Clients, NEW i \in Ids,
           FinishListSlot(c, i)
    PROVE  (\A d \in Clients : Seat(d)') /\ listRemaining' \in [Clients -> Nat]
<1> USE DEF Inv, TypeOK
<1>1. /\ SameChildren /\ <<c, i>> \in progress /\ ask[c].kind = "list"
      /\ progress' = progress \ {<<c, i>>}
      /\ listRemaining' = [listRemaining EXCEPT ![c] = @ - 1]
      /\ UNCHANGED <<waiters, workflowCancelWaiters, lookups>>
  BY DEF FinishListSlot, SameChildren, registryVars, Live
<1>2. i \in Slots(c)
  BY <1>1 DEF Slots
<1>3. OnList(c) /\ ~Ready(c)
  BY <1>1, <1>2 DEF Seat, Nowhere, OnChild, OnProgress, OnWorkflow, OnLookup
<1>4. /\ \A d \in Clients : AwaitedRuns(d)' = AwaitedRuns(d)
      /\ \A d \in Clients \ {c} : Slots(d)' = Slots(d)
      /\ Slots(c)' = Slots(c) \ {i}
  BY <1>1 DEF Slots, AwaitedRuns
<1>5. /\ IsFiniteSet(Slots(c)') /\ Cardinality(Slots(c)') = Cardinality(Slots(c)) - 1
      /\ Cardinality(Slots(c)) \in Nat /\ Cardinality(Slots(c)') \in Nat
  BY <1>2, <1>3, <1>4, FS_RemoveElement, FS_CardinalityType DEF OnList
<1>6. /\ \A d \in Clients \ {c} : listRemaining'[d] = listRemaining[d]
      /\ listRemaining'[c] = Cardinality(Slots(c)')
      /\ listRemaining[c] = Cardinality(Slots(c))
      /\ listRemaining' \in [Clients -> Nat]
  BY <1>1, <1>3, <1>5 DEF OnList, AskerInv
<1>7. CASE listRemaining[c] = 1
  <2>1. /\ inbox' = [inbox EXCEPT ![c] = Deliver(c, "ack")]
        /\ ask' = [ask EXCEPT ![c] = NoAsk]
    BY <1>7 DEF FinishListSlot
  <2>2. Slots(c)' = {}
    BY <1>5, <1>6, <1>7, FS_EmptySet
  <2>3. Nowhere(c)'
    BY <1>1, <1>3, <1>4, <2>2 DEF OnList, Nowhere
  <2>4. "ack" \in Answers /\ \A d \in Clients \ {c} : ask'[d] = ask[d]
    BY <2>1 DEF ClientTypeOK, Answers
  <2> QED
    BY <1>1, <1>4, <1>6, <2>1, <2>3, <2>4, AnsweredSeats
<1>8. CASE listRemaining[c] # 1
  <2>1. UNCHANGED <<inbox, ask>>
    BY <1>8 DEF FinishListSlot
  <2>2. Slots(c)' # {}
    BY <1>5, <1>6, <1>8, FS_EmptySet
  <2>3. OnList(c)' /\ ~Ready(c)'
    BY <1>1, <1>3, <1>4, <1>5, <1>6, <2>1, <2>2 DEF OnList, Ready
  <2>4. ASSUME NEW d \in Clients \ {c} PROVE Seat(d)'
    BY <1>1, <1>4, <1>6, <2>1, SeatKeptHere DEF Undisturbed
  <2> QED
    BY <1>6, <2>3, <2>4 DEF Seat
<1> QED
  BY <1>7, <1>8

LEMMA SettleSeats ==
    ASSUME Inv, \A d \in Clients : Seat(d), NEW i \in Ids, NEW st \in Statuses, Settle(i, st)
    PROVE  \A d \in Clients : Seat(d)'
<1> USE DEF Inv, TypeOK
<1> DEFINE parked == Parked(i)
           freed == {w[1] : w \in Released(i)}
<1>1. /\ i \in Live /\ Live' = Live \ {i} /\ request' = request
      /\ waiters' = waiters \ parked
      /\ workflowCancelWaiters' = workflowCancelWaiters \ Released(i)
      /\ UNCHANGED <<progress, listRemaining, lookups>>
  BY DEF Settle, CoreInv, Partition, Live
<1>2. /\ inbox' = [c \in Clients |-> IF c \in parked THEN Deliver(c, "terminal")
                                     ELSE IF c \in freed THEN Deliver(c, "ack")
                                     ELSE inbox[c]]
      /\ ask' = [c \in Clients |-> IF c \in parked \cup freed THEN NoAsk ELSE ask[c]]
  BY DEF Settle
<1>3. /\ \A d \in Clients : Slots(d)' = Slots(d)
      /\ \A d \in Clients : d \in parked <=> d \in waiters /\ ask[d].id = i
      /\ \A d \in Clients : d \in freed <=> \E run \in AwaitedRuns(d) : <<d, run>> \in Released(i)
      /\ \A d \in Clients, run \in WorkflowRuns :
            run \in AwaitedRuns(d)' <=> run \in AwaitedRuns(d) /\ <<d, run>> \notin Released(i)
  <2>1. Released(i) \subseteq Clients \X WorkflowRuns /\ Released(i) \subseteq workflowCancelWaiters
    BY DEF Released, ClientTypeOK
  <2>2. \A d \in Clients : Slots(d)' = Slots(d)
    BY <1>1 DEF Slots
  <2>3. \A d \in Clients : d \in parked <=> d \in waiters /\ ask[d].id = i
    BY DEF Parked
  <2>4. ASSUME NEW d \in Clients
        PROVE  d \in freed <=> \E run \in AwaitedRuns(d) : <<d, run>> \in Released(i)
    <3>1. ASSUME d \in freed PROVE \E run \in AwaitedRuns(d) : <<d, run>> \in Released(i)
      <4>1. PICK w \in Released(i) : d = w[1]
        BY <3>1
      <4>2. w = <<d, w[2]>> /\ w[2] \in WorkflowRuns
        BY <2>1, <4>1
      <4> QED
        BY <2>1, <4>2 DEF AwaitedRuns
    <3>2. ASSUME NEW run \in AwaitedRuns(d), <<d, run>> \in Released(i) PROVE d \in freed
      <4>1. <<d, run>>[1] = d
        OBVIOUS
      <4> QED
        BY <3>2, <4>1
    <3> QED
      BY <3>1, <3>2
  <2>5. \A d \in Clients, run \in WorkflowRuns :
            run \in AwaitedRuns(d)' <=> run \in AwaitedRuns(d) /\ <<d, run>> \notin Released(i)
    BY <1>1 DEF AwaitedRuns
  <2> QED
    BY <2>2, <2>3, <2>4, <2>5
<1> HIDE DEF parked, freed
<1> SUFFICES ASSUME NEW d \in Clients PROVE Seat(d)'
  OBVIOUS
<1>4. CASE d \in parked
  <2>1. OnChild(d) /\ ~Ready(d)
    BY <1>3, <1>4 DEF Seat, Nowhere, OnProgress, OnList, OnWorkflow, OnLookup
  <2>2. AwaitedRuns(d)' = {}
    BY <1>3, <2>1 DEF OnChild, AwaitedRuns
  <2>3. Nowhere(d)'
    BY <1>1, <1>3, <1>4, <2>1, <2>2 DEF OnChild, Nowhere
  <2>4. Ready(d)'
    BY <1>2, <1>4 DEF Ready, Deliver
  <2> QED
    BY <2>3, <2>4 DEF Seat
<1>5. CASE d \in freed
  <2>1. PICK run \in AwaitedRuns(d) : <<d, run>> \in Released(i)
    BY <1>3, <1>5
  <2>2. OnWorkflow(d) /\ ~Ready(d)
    BY <2>1 DEF Seat, Nowhere, OnChild, OnProgress, OnList, OnLookup
  <2>3. AwaitedRuns(d)' = {}
    <3>1. AwaitedRuns(d) = {run}
      BY <2>1, <2>2 DEF OnWorkflow
    <3> QED
      BY <1>3, <2>1, <3>1 DEF AwaitedRuns
  <2>4. Nowhere(d)'
    BY <1>1, <1>3, <2>2, <2>3 DEF OnWorkflow, Nowhere
  <2>5. Ready(d)'
    BY <1>2, <1>5 DEF Ready, Deliver
  <2> QED
    BY <2>4, <2>5 DEF Seat
<1>6. CASE d \notin parked /\ d \notin freed
  <2>1. AwaitedRuns(d)' = AwaitedRuns(d)
    BY <1>3, <1>6 DEF AwaitedRuns
  <2>2. Undisturbed(d)
    BY <1>1, <1>2, <1>3, <1>6, <2>1 DEF Undisturbed
  <2>3. d \in waiters /\ ask[d].id \in Live => ask[d].id \in Live'
    BY <1>1, <1>3, <1>6
  <2>4. ASSUME NEW run \in AwaitedRuns(d), WorkflowOutstanding(run) # {}
        PROVE  WorkflowOutstanding(run)' # {}
    <3>1. WorkflowOutstanding(run)' = WorkflowOutstanding(run) \ {i}
      BY <1>1 DEF WorkflowOutstanding
    <3>2. <<d, run>> \in workflowCancelWaiters /\ <<d, run>>[2] = run
      BY DEF AwaitedRuns
    <3>3. ~(run = request[i].run /\ WorkflowOutstanding(run) \subseteq {i})
      BY <1>3, <1>6, <3>2 DEF Released
    <3>4. i \in WorkflowOutstanding(run) => run = request[i].run
      BY DEF WorkflowOutstanding
    <3> QED
      BY <2>4, <3>1, <3>3, <3>4
  <2> QED
    BY <2>2, <2>3, <2>4, SeatKept
<1> QED
  BY <1>4, <1>5, <1>6

LEMMA DeadlineSeats ==
    ASSUME Inv, \A d \in Clients : Seat(d), NEW kids \in SUBSET deadline,
           NEW due \in SUBSET waiters, ProcessDeadlines(kids, due)
    PROVE  \A d \in Clients : Seat(d)'
<1> USE DEF Inv, TypeOK
<1> DEFINE open == {c \in due : inbox[c] = "awaiting"}
           poll == {c \in open : ask[c].id \in active}
<1>1. /\ SameChildren /\ waiters' = waiters \ due
      /\ progress' = progress \cup {<<c, ask[c].id>> : c \in poll}
      /\ UNCHANGED <<workflowCancelWaiters, listRemaining, lookups>>
  BY DEF ProcessDeadlines, SameChildren, registryVars, Live
<1>2. /\ inbox' = [c \in Clients |->
                      IF c \notin due \/ c \in poll THEN inbox[c]
                      ELSE IF c \in open THEN ReadySnapshot(ask[c].id) ELSE "idle"]
      /\ ask' = [c \in Clients |-> IF c \in due \ poll THEN NoAsk ELSE ask[c]]
  BY DEF ProcessDeadlines
<1>3. \A d \in Clients : AwaitedRuns(d)' = AwaitedRuns(d)
  BY <1>1 DEF AwaitedRuns
<1>4. \A d \in Clients : Slots(d)' = IF d \in poll THEN Slots(d) \cup {ask[d].id} ELSE Slots(d)
  <2>1. \A d \in poll : ask[d].id \in Ids
    BY DEF CoreTypeOK
  <2> QED
    BY <1>1, <2>1 DEF Slots
<1>5. \A d \in poll : d \in open /\ ask[d].id \in Ids
  BY DEF CoreTypeOK
<1>6. \A d \in open : d \in due /\ inbox[d] = "awaiting"
  OBVIOUS
<1> HIDE DEF open, poll
<1> SUFFICES ASSUME NEW d \in Clients PROVE Seat(d)'
  OBVIOUS
<1>7. CASE d \notin due
  <2>1. Undisturbed(d)
    BY <1>1, <1>2, <1>3, <1>4, <1>5, <1>6, <1>7 DEF Undisturbed
  <2> QED
    BY <1>1, <2>1, SeatKeptHere
<1>8. CASE d \in due
  <2>1. OnChild(d) /\ ~Ready(d)
    BY <1>8 DEF Seat, Nowhere, OnProgress, OnList, OnWorkflow, OnLookup
  <2>2. CASE d \in poll
    <3>1. OnProgress(d)'
      BY <1>1, <1>2, <1>3, <1>4, <1>5, <1>8, <2>1, <2>2 DEF OnChild, OnProgress
    <3>2. ~Ready(d)'
      BY <1>2, <2>1, <2>2 DEF Ready
    <3> QED
      BY <3>1, <3>2 DEF Seat
  <2>3. CASE d \notin poll
    <3>1. Nowhere(d)'
      BY <1>1, <1>3, <1>4, <1>8, <2>1, <2>3 DEF OnChild, Nowhere
    <3>2. Ready(d)'
      BY <1>2, <1>8, <2>3 DEF Ready, ReadySnapshot
    <3> QED
      BY <3>1, <3>2 DEF Seat
  <2> QED
    BY <2>2, <2>3
<1> QED
  BY <1>7, <1>8

------------------------------------------------------------------------------
(* One step of the coordinator *)

\* The registry never holds infinitely many live children.
LEMMA FiniteStep ==
    ASSUME Inv, [Next]_vars, IsFiniteSet(pending), IsFiniteSet(active)
    PROVE  IsFiniteSet(pending') /\ IsFiniteSet(active')
<1> USE DEF Inv, TypeOK
<1>1. \/ pending' \subseteq pending /\ active' \subseteq active
      \/ \E i \in Ids : pending' \subseteq pending \cup {i} /\ active' \subseteq active \cup {i}
  <2>1. CASE FlagsOnly \/ UNCHANGED <<pending, active>>
    BY <2>1 DEF FlagsOnly, registryVars
  <2>2. ASSUME NEW i \in Ids, NEW req \in Requests, Spawn(i, req)
        PROVE  pending' = pending \cup {i} /\ active' = active
    BY <2>2 DEF Spawn
  <2>3. ASSUME NEW i \in Ids, HandleStarted(i)
        PROVE  pending' \subseteq pending /\ active' \subseteq active \cup {i}
    BY <2>3 DEF HandleStarted
  <2>4. ASSUME NEW i \in Ids, NEW st \in Statuses, Settle(i, st)
        PROVE  pending' \subseteq pending /\ active' \subseteq active
    BY <2>4 DEF Settle
  <2>5. CASE Command
    BY <2>1, <2>2, <2>5, CommandCases
  <2>6. CASE Environment
    BY <2>1, <2>6 DEF Environment, ReportStarted, CallerDrops, ForwardToolCancel, ClientDrops,
                      CloseCommands, Abort, Shutdown, registryVars
  <2>7. CASE ActorStep
    <3>1. "ended" \in Statuses
      BY DEF Statuses
    <3>2. ASSUME NEW c \in Clients, NEW i \in Ids, FinishProgress(c, i) \/ FinishListSlot(c, i)
          PROVE  UNCHANGED <<pending, active>>
      BY <3>2 DEF FinishProgress, FinishListSlot, registryVars
    <3>3. ASSUME NEW c \in Clients, FinishLookup(c)
          PROVE  UNCHANGED <<pending, active>>
      BY <3>3 DEF FinishLookup, registryVars
    <3>4. ASSUME NEW kids \in SUBSET deadline, NEW due \in SUBSET waiters,
                 ProcessDeadlines(kids, due)
          PROVE  UNCHANGED <<pending, active>>
      BY <3>4 DEF ProcessDeadlines, registryVars
    <3>5. Exit => UNCHANGED <<pending, active>>
      BY DEF Exit, Shutdown
    <3> QED
      BY <2>1, <2>3, <2>4, <2>7, <3>1, <3>2, <3>3, <3>4, <3>5
         DEF ActorStep, FinishChild, FinishPanickedChild
  <2>8. CASE UNCHANGED vars
    BY <2>1, <2>8 DEF vars, registryVars
  <2> QED
    BY <2>5, <2>6, <2>7, <2>8 DEF Next, Terminated
<1> QED
  BY <1>1, FS_Subset, FS_AddElement

LEMMA AskerStep ==
    ASSUME Inv, AskerInv, [Next]_vars
    PROVE  AskerInv'
<1> USE DEF Inv, TypeOK
<1>1. IsFiniteSet(pending') /\ IsFiniteSet(active')
  BY FiniteStep DEF AskerInv
<1>2. ASSUME ~stopped, ~stopped', \A d \in Clients : Seat(d)', listRemaining' \in [Clients -> Nat]
      PROVE  AskerInv'
  BY <1>1, <1>2 DEF AskerInv
<1>3. ASSUME UNCHANGED <<clientVars, registryVars, stopped>>
      PROVE  AskerInv'
  <2>1. UNCHANGED <<inbox, listRemaining, stopped>>
    BY <1>3 DEF clientVars
  <2>2. CASE stopped
    BY <1>1, <2>1, <2>2 DEF AskerInv
  <2>3. CASE ~stopped
    <3>1. UNCHANGED clientVars /\ Live' = Live /\ request' = request
      BY <1>3 DEF registryVars, Live
    <3>2. \A d \in Clients : Seat(d)'
      BY <2>3, <3>1, QuietSeats DEF AskerInv
    <3> QED
      BY <1>2, <2>1, <2>3, <3>2 DEF AskerInv
  <2> QED
    BY <2>2, <2>3
<1>4. CASE Command
  <2>1. \A d \in Clients : Seat(d)'
    BY <1>4, CommandSeats
  <2>2. ~stopped /\ ~stopped'
    <3>1. CASE FlagsOnly
      BY <1>4, <3>1, CommandIsOpen DEF FlagsOnly, lifeVars, CoreInv, Partition
    <3>2. ASSUME NEW i \in Ids, NEW req \in Requests, Spawn(i, req)
          PROVE  ~stopped /\ ~stopped'
      BY <3>2 DEF Spawn, lifeVars, CoreInv, Partition
    <3> QED
      BY <1>4, <3>1, <3>2, CommandCases
  <2>3. listRemaining' \in [Clients -> Nat]
    BY <1>4, CommandCounts
  <2> QED
    BY <1>2, <2>1, <2>2, <2>3
<1>5. ASSUME NEW i \in Ids, ReportStarted(i) \/ CallerDrops(i) \/ ForwardToolCancel(i)
      PROVE  AskerInv'
  BY <1>3, <1>5 DEF ReportStarted, CallerDrops, ForwardToolCancel, lifeVars
<1>6. ASSUME NEW c \in Clients, ClientDrops(c)
      PROVE  AskerInv'
  <2>1. ~stopped /\ ~stopped' /\ listRemaining' = listRemaining
    BY <1>6 DEF ClientDrops, lifeVars, AskerInv
  <2> QED
    BY <1>2, <1>6, <2>1, ClientDropsSeats DEF AskerInv
<1>7. CASE CloseCommands
  BY <1>3, <1>7 DEF CloseCommands
<1>8. CASE Abort \/ Exit
  <2>1. /\ stopped' /\ listRemaining' = listRemaining
        /\ inbox' = [c \in Clients |-> IF inbox[c] = "awaiting" THEN "lost" ELSE inbox[c]]
    BY <1>8 DEF Abort, Exit, Shutdown
  <2> QED
    BY <1>1, <2>1 DEF AskerInv
<1>9. ASSUME NEW i \in Ids, HandleStarted(i)
      PROVE  AskerInv'
  <2>1. /\ ~stopped /\ ~stopped' /\ UNCHANGED clientVars /\ Live' = Live /\ request' = request
        /\ listRemaining' = listRemaining
    BY <1>9 DEF HandleStarted, Promotable, lifeVars, Live, clientVars
  <2> QED
    BY <1>2, <2>1, QuietSeats DEF AskerInv
<1>10. ASSUME NEW i \in Ids, NEW st \in Statuses, Settle(i, st)
       PROVE  AskerInv'
  <2>1. ~stopped /\ ~stopped' /\ listRemaining' = listRemaining
    BY <1>10 DEF Settle, lifeVars
  <2> QED
    BY <1>2, <1>10, <2>1, SettleSeats DEF AskerInv
<1>11. ASSUME NEW c \in Clients, NEW i \in Ids, FinishProgress(c, i)
       PROVE  AskerInv'
  <2>1. ~stopped /\ ~stopped' /\ listRemaining' = listRemaining
    BY <1>11 DEF FinishProgress, lifeVars
  <2> QED
    BY <1>2, <1>11, <2>1, FinishProgressSeats DEF AskerInv
<1>12. ASSUME NEW c \in Clients, NEW i \in Ids, FinishListSlot(c, i)
       PROVE  AskerInv'
  <2>1. ~stopped /\ ~stopped'
    BY <1>12 DEF FinishListSlot, lifeVars
  <2> QED
    BY <1>2, <1>12, <2>1, FinishListSlotSeats DEF AskerInv
<1>13. ASSUME NEW c \in Clients, FinishLookup(c)
       PROVE  AskerInv'
  <2>1. ~stopped /\ ~stopped' /\ listRemaining' = listRemaining
    BY <1>13 DEF FinishLookup, lifeVars
  <2> QED
    BY <1>2, <1>13, <2>1, FinishLookupSeats DEF AskerInv
<1>14. ASSUME NEW kids \in SUBSET deadline, NEW due \in SUBSET waiters,
              ProcessDeadlines(kids, due)
       PROVE  AskerInv'
  <2>1. ~stopped /\ ~stopped' /\ listRemaining' = listRemaining
    BY <1>14 DEF ProcessDeadlines, lifeVars
  <2> QED
    BY <1>2, <1>14, <2>1, DeadlineSeats DEF AskerInv
<1>15. CASE UNCHANGED vars
  BY <1>3, <1>15 DEF vars, lifeVars
<1>16. CASE Environment
  BY <1>5, <1>6, <1>7, <1>8, <1>16 DEF Environment
<1>17. CASE ActorStep
  <2>1. "ended" \in Statuses
    BY DEF Statuses
  <2> QED
    BY <1>8, <1>9, <1>10, <1>11, <1>12, <1>13, <1>14, <1>17, <2>1
       DEF ActorStep, FinishChild, FinishPanickedChild
<1> QED
  BY <1>4, <1>15, <1>16, <1>17 DEF Next, Terminated

LEMMA ForegroundStep ==
    ASSUME Inv, ForegroundInv, [Next]_vars
    PROVE  ForegroundInv'
<1> USE DEF Inv, TypeOK, CoreTypeOK
<1>0. ASSUME UNCHANGED <<Live, request, handleOnly, spawnReply, caller, stopped>>
      PROVE  ForegroundInv'
  BY <1>0 DEF ForegroundInv, IsWorkflow
<1>1. CASE FlagsOnly
  <2>1. /\ Live' = Live /\ UNCHANGED <<request, caller, stopped>>
        /\ spawnReply' = spawnReply \ Abandoned /\ handleOnly' = handleOnly \cup AbandonedTask
    BY <1>1 DEF FlagsOnly, ReapAndCancel, registryVars, deliveryVars, lifeVars, Live
  <2> QED
    BY <2>1 DEF ForegroundInv, AbandonedTask, AbandonedWorkflow, IsWorkflow
<1>2. ASSUME NEW i \in Ids, NEW req \in Requests, Spawn(i, req)
      PROVE  ForegroundInv'
  <2>1. /\ Live' = Live \cup {i} /\ i \notin Live /\ ~stopped /\ ~stopped'
        /\ request' = [request EXCEPT ![i] = ReRooted(req)]
        /\ caller' = [caller EXCEPT ![i] = "waiting"]
        /\ spawnReply' = (spawnReply \ Abandoned) \cup {i}
        /\ \A j \in Live : j \in handleOnly' <=> j \in handleOnly \/ j \in AbandonedTask
    BY <1>2 DEF Spawn, Live, lifeVars, CoreInv, Partition
  <2>2. \A j \in Live : request'[j] = request[j] /\ caller'[j] = caller[j]
    BY <2>1 DEF Live
  <2>3. \A j \in Live : IsWorkflow(j)' <=> IsWorkflow(j)
    BY <2>2 DEF IsWorkflow
  <2>4. caller'[i] = "waiting"
    BY <2>1
  <2> QED
    BY <2>1, <2>2, <2>3, <2>4 DEF ForegroundInv, AbandonedTask, AbandonedWorkflow
<1>3. ASSUME NEW i \in Ids, CallerDrops(i)
      PROVE  ForegroundInv'
  BY <1>3 DEF CallerDrops, registryVars, lifeVars, Live, ForegroundInv, IsWorkflow
<1>4. ASSUME NEW kids \in SUBSET deadline, NEW due \in SUBSET waiters,
             ProcessDeadlines(kids, due)
      PROVE  ForegroundInv'
  <2>1. /\ Live' = Live /\ UNCHANGED <<request, stopped>>
        /\ spawnReply' = (spawnReply \ Abandoned) \ HandedOff(kids)
        /\ handleOnly' = handleOnly \cup AbandonedTask \cup HandedOff(kids)
        /\ \A j \in Live : j \notin HandedOff(kids) => caller'[j] = caller[j]
    BY <1>4 DEF ProcessDeadlines, registryVars, lifeVars, Live
  <2> QED
    BY <2>1 DEF ForegroundInv, AbandonedTask, AbandonedWorkflow, IsWorkflow
<1>5. ASSUME NEW i \in Ids, NEW st \in Statuses, Settle(i, st)
      PROVE  ForegroundInv'
  <2>1. /\ Live' = Live \ {i} /\ UNCHANGED <<request, stopped>>
        /\ spawnReply' = spawnReply \ {i} /\ handleOnly \subseteq handleOnly'
        /\ \A j \in Live \ {i} : caller'[j] = caller[j]
    BY <1>5 DEF Settle, lifeVars, Live, CoreInv, Partition
  <2> QED
    BY <2>1 DEF ForegroundInv, IsWorkflow
<1>6. CASE Shutdown
  BY <1>6 DEF Shutdown, ForegroundInv
<1>7. CASE Command
  BY <1>1, <1>2, <1>7, CommandCases
<1>8. CASE Environment
  <2>1. ASSUME NEW i \in Ids, ReportStarted(i) \/ ForwardToolCancel(i)
        PROVE  ForegroundInv'
    BY <1>0, <2>1 DEF ReportStarted, ForwardToolCancel, registryVars, flagVars, deliveryVars,
                      lifeVars, Live
  <2>2. ASSUME NEW c \in Clients, ClientDrops(c)
        PROVE  ForegroundInv'
    BY <1>0, <2>2 DEF ClientDrops, registryVars, flagVars, deliveryVars, lifeVars, Live
  <2>3. CASE CloseCommands
    BY <1>0, <2>3 DEF CloseCommands, registryVars, flagVars, deliveryVars, Live
  <2> QED
    BY <1>3, <1>6, <1>8, <2>1, <2>2, <2>3 DEF Environment, Abort
<1>9. CASE ActorStep
  <2>1. "ended" \in Statuses
    BY DEF Statuses
  <2>2. ASSUME NEW i \in Ids, HandleStarted(i)
        PROVE  ForegroundInv'
    BY <1>0, <2>2 DEF HandleStarted, Promotable, flagVars, deliveryVars, lifeVars, Live
  <2>3. ASSUME NEW c \in Clients, NEW i \in Ids, FinishProgress(c, i) \/ FinishListSlot(c, i)
        PROVE  ForegroundInv'
    BY <1>0, <2>3 DEF FinishProgress, FinishListSlot, registryVars, flagVars, deliveryVars,
                      lifeVars, Live
  <2>4. ASSUME NEW c \in Clients, FinishLookup(c)
        PROVE  ForegroundInv'
    BY <1>0, <2>4 DEF FinishLookup, registryVars, flagVars, deliveryVars, lifeVars, Live
  <2> QED
    BY <1>4, <1>5, <1>6, <1>9, <2>1, <2>2, <2>3, <2>4
       DEF ActorStep, FinishChild, FinishPanickedChild, Exit
<1>10. CASE UNCHANGED vars
  BY <1>0, <1>10 DEF vars, registryVars, flagVars, deliveryVars, lifeVars, Live
<1> QED
  BY <1>7, <1>8, <1>9, <1>10 DEF Next, Terminated

\* insert, then evict while there are too many: one at most, the oldest.
LEMMA RememberCaps ==
    ASSUME Inv, CapInv, NEW i \in Ids, i \notin completed, Remember(i)
    PROVE  CapInv'
<1> USE DEF Inv, TypeOK, CoreTypeOK
<1> DEFINE n == Len(completedOrder)
           order == Append(completedOrder, i)
<1>1. /\ n \in Nat /\ Len(order) = n + 1 /\ order \in Seq(Ids) /\ order # <<>>
      /\ Len(Tail(order)) = n
  OBVIOUS
<1>2. IsFiniteSet(completed \cup {i}) /\ Cardinality(completed \cup {i}) = n + 1
  BY FS_AddElement DEF CapInv
<1>3. CASE n + 1 > MaxCompleted
  <2>1. completedOrder' = Tail(order) /\ completed' = (completed \cup {i}) \ {Head(order)}
    BY <1>2, <1>3 DEF Remember
  <2>2. Head(order) \in completed \cup {i}
    <3>1. CASE completedOrder = <<>>
      BY <3>1
    <3>2. CASE completedOrder # <<>>
      <4>1. Head(order) = completedOrder[1] /\ 1 \in DOMAIN completedOrder
        BY <3>2
      <4> QED
        BY <4>1 DEF OrderInv
    <3> QED
      BY <3>1, <3>2
  <2>3. IsFiniteSet(completed') /\ Cardinality(completed') = n
    <3> DEFINE known == completed \cup {i}
               oldest == Head(order)
    <3>1. IsFiniteSet(known) /\ Cardinality(known) = n + 1 /\ oldest \in known
      BY <1>2, <2>2
    <3> HIDE DEF known, oldest
    <3>2. /\ IsFiniteSet(known \ {oldest})
          /\ Cardinality(known \ {oldest}) = Cardinality(known) - 1
      BY <3>1, FS_RemoveElement
    <3>3. completed' = known \ {oldest}
      BY <2>1 DEF known, oldest
    <3> HIDE DEF n
    <3> QED
      BY <1>1, <3>1, <3>2, <3>3
  <2>4. Len(completedOrder') = n
    BY <1>1, <2>1
  <2> QED
    BY <2>3, <2>4 DEF CapInv
<1>4. CASE ~(n + 1 > MaxCompleted)
  <2>1. completedOrder' = order /\ completed' = completed \cup {i}
    BY <1>2, <1>4 DEF Remember
  <2> QED
    BY <1>1, <1>2, <1>4, <2>1, BoundsAssumption DEF CapInv
<1> QED
  BY <1>3, <1>4

LEMMA CapStep ==
    ASSUME Inv, CapInv, [Next]_vars
    PROVE  CapInv'
<1>1. CASE UNCHANGED <<completed, completedOrder>>
  BY <1>1 DEF CapInv
<1>2. ASSUME NEW i \in Ids, NEW st \in Statuses, Settle(i, st)
      PROVE  CapInv'
  BY <1>2, RememberCaps DEF Settle, Inv, CoreInv, Partition
<1>3. CASE Command
  BY <1>1, <1>3, CommandCases DEF FlagsOnly, Spawn, registryVars, Inv, TypeOK
<1>4. CASE Environment
  BY <1>1, <1>4 DEF Environment, ReportStarted, CallerDrops, ForwardToolCancel, ClientDrops,
                    CloseCommands, Abort, Shutdown, registryVars
<1>5. CASE ActorStep
  <2>1. "ended" \in Statuses
    BY DEF Statuses
  <2>2. ASSUME NEW i \in Ids, HandleStarted(i)
        PROVE  CapInv'
    BY <1>1, <2>2 DEF HandleStarted
  <2>3. ASSUME NEW c \in Clients, NEW i \in Ids, FinishProgress(c, i) \/ FinishListSlot(c, i)
        PROVE  CapInv'
    BY <1>1, <2>3 DEF FinishProgress, FinishListSlot, registryVars
  <2>4. ASSUME NEW c \in Clients, FinishLookup(c)
        PROVE  CapInv'
    BY <1>1, <2>4 DEF FinishLookup, registryVars
  <2>5. ASSUME NEW kids \in SUBSET deadline, NEW due \in SUBSET waiters,
               ProcessDeadlines(kids, due)
        PROVE  CapInv'
    BY <1>1, <2>5 DEF ProcessDeadlines, registryVars
  <2>6. Exit => CapInv'
    BY <1>1 DEF Exit, Shutdown
  <2> QED
    BY <1>2, <1>5, <2>1, <2>2, <2>3, <2>4, <2>5, <2>6
       DEF ActorStep, FinishChild, FinishPanickedChild
<1>6. CASE UNCHANGED vars
  BY <1>1, <1>6 DEF vars, registryVars
<1> QED
  BY <1>3, <1>4, <1>5, <1>6 DEF Next, Terminated

------------------------------------------------------------------------------
(* The invariant of every run *)

LEMMA InitAskers == Init => AskerInv /\ ForegroundInv /\ CapInv /\ CallerInv
<1> SUFFICES ASSUME Init PROVE AskerInv /\ ForegroundInv /\ CapInv /\ CallerInv
  OBVIOUS
<1>1. ASSUME NEW c \in Clients PROVE Seat(c)
  BY DEF Init, Seat, Ready, Nowhere, Slots, AwaitedRuns
<1>2. IsFiniteSet({}) /\ Cardinality({}) = 0
  BY FS_EmptySet
<1>3. AskerInv
  BY <1>1, <1>2 DEF Init, AskerInv
<1>4. CapInv
  BY <1>2, BoundsAssumption DEF Init, CapInv
<1>5. ForegroundInv
  BY DEF Init, ForegroundInv, Live
<1> QED
  BY <1>3, <1>4, <1>5, InitSimulation

WaitingInv == CallerInv /\ AskerInv /\ ForegroundInv /\ CapInv

LEMMA WaitingInvariance == Spec => [](Inv /\ WaitingInv)
<1>1. Init => WaitingInv
  BY InitAskers DEF WaitingInv
<1>2. Inv /\ WaitingInv /\ [Next]_vars => WaitingInv'
  BY CallerStep, AskerStep, ForegroundStep, CapStep DEF WaitingInv
<1> QED
  BY <1>1, <1>2, Invariance, PTL DEF Spec

\* An asker that listens is parked where something will find it: on a live child,
\* a future, or a workflow run that has children left.
LEMMA SeatedIsFound ==
    ASSUME NEW c \in Clients, Seat(c), inbox[c] = "awaiting"
    PROVE  \/ c \in waiters /\ ask[c].id \in Live
           \/ c \in lookups
           \/ \E i \in Ids : <<c, i>> \in progress
           \/ \E run \in WorkflowRuns :
                 <<c, run>> \in workflowCancelWaiters /\ WorkflowOutstanding(run) # {}
<1>1. ~Ready(c)
  BY DEF Ready
<1>2. CASE OnChild(c)
  BY <1>2 DEF OnChild
<1>3. CASE OnProgress(c)
  BY <1>3 DEF OnProgress, Slots
<1>4. CASE OnList(c)
  BY <1>4 DEF OnList, Slots
<1>5. CASE OnWorkflow(c)
  BY <1>5 DEF OnWorkflow, AwaitedRuns
<1>6. CASE OnLookup(c)
  BY <1>6 DEF OnLookup
<1> QED
  BY <1>1, <1>2, <1>3, <1>4, <1>5, <1>6 DEF Seat

\* Whoever waits is held somewhere that will answer: no interleaving of commands,
\* deadlines, dropped receivers and endings loses an asker or a spawn caller.
THEOREM NobodyForgottenCorrect == Spec => []NobodyForgotten
<1>1. WaitingInv => NobodyForgotten
  BY SeatedIsFound DEF WaitingInv, AskerInv, CallerInv, NobodyForgotten
<1> QED
  BY <1>1, WaitingInvariance, PTL

------------------------------------------------------------------------------
(* What a step may never do *)

LEMMA ExitStep ==
    ASSUME Inv, WaitingInv, Exit
    PROVE  UNCHANGED <<caller, inbox>>
<1> USE DEF Inv, TypeOK, CoreTypeOK, ClientTypeOK
<1>1. /\ ~stopped /\ Live = {} /\ spawnReply = {} /\ lookups = {} /\ progress = {}
  BY DEF Exit, Drained, CoreInv, Partition
<1>2. caller' = caller
  BY <1>1 DEF Exit, Shutdown, CallerReceives
<1>3. \A c \in Clients : inbox[c] # "awaiting"
  BY <1>1, SeatedIsFound DEF WaitingInv, AskerInv, WorkflowOutstanding
<1>4. inbox' = inbox
  BY <1>3 DEF Exit, Shutdown
<1> QED
  BY <1>2, <1>4

\* run() leaves its loop only when no caller and no asker is left to lose a reply.
THEOREM ExitCorrect == Spec => ExitLosesNobody
<1>1. Inv /\ WaitingInv => (Exit => UNCHANGED <<caller, inbox>>)
  BY ExitStep
<1> QED
  BY <1>1, WaitingInvariance, PTL DEF ExitLosesNobody

\* A command answers or parks only the asker that sent it.
LEMMA CommandInbox ==
    ASSUME Command, ClientTypeOK
    PROVE  \A c \in Clients : ~Ready(c) => inbox'[c] = inbox[c]
<1> USE DEF ClientTypeOK
<1>1. ASSUME NEW d \in Clients, Ready(d), NEW a, inbox' = [inbox EXCEPT ![d] = a]
      PROVE  \A c \in Clients : ~Ready(c) => inbox'[c] = inbox[c]
  BY <1>1
<1>2. CASE UNCHANGED clientVars
  BY <1>2 DEF clientVars
<1>3. ASSUME NEW i \in Ids, NEW req \in Requests, Spawn(i, req)
      PROVE  UNCHANGED clientVars
  BY <1>3 DEF Spawn
<1>4. CASE ReadOnlyCommand
  BY <1>2, <1>4 DEF ReadOnlyCommand
<1>5. ASSUME NEW d \in Clients, NEW i \in Ids, NEW s \in Scopes,
             \/ QueryNow(d, i, s) \/ QueryBlocking(d, i, s)
             \/ AskProgress(d, i, s, "query") \/ AskProgress(d, i, s, "inspect")
             \/ InspectNow(d, i, s) \/ CancelSubagent(d, i, s)
      PROVE  Ready(d) /\ \E a : inbox' = [inbox EXCEPT ![d] = a]
  BY <1>5 DEF QueryNow, QueryBlocking, AskProgress, InspectNow, CancelSubagent, Reply, Park
<1>6. ASSUME NEW d \in Clients, NEW s \in Sessions, ListRunning(d, s)
      PROVE  Ready(d) /\ \E a : inbox' = [inbox EXCEPT ![d] = a]
  BY <1>6 DEF ListRunning, Reply, Park
<1>7. ASSUME NEW d \in Clients, AskLookup(d)
      PROVE  Ready(d) /\ \E a : inbox' = [inbox EXCEPT ![d] = a]
  BY <1>7 DEF AskLookup, Park
<1>8. ASSUME NEW d \in Clients, NEW s \in Scopes, NEW p \in Prompts, CancelParentPrompt(d, p, s)
      PROVE  Ready(d) /\ \E a : inbox' = [inbox EXCEPT ![d] = a]
  BY <1>8 DEF CancelParentPrompt, Reply
<1>9. ASSUME NEW d \in Clients, NEW s \in WorkflowScopes, NEW run \in WorkflowRuns,
             CancelWorkflow(d, run, s)
      PROVE  Ready(d) /\ \E a : inbox' = [inbox EXCEPT ![d] = a]
  BY <1>9 DEF CancelWorkflow, Reply, Park
<1>10. ASSUME NEW d \in Clients, NEW s \in Sessions, NEW p \in Prompts, Outstanding(d, s, p)
       PROVE  Ready(d) /\ \E a : inbox' = [inbox EXCEPT ![d] = a]
  BY <1>10 DEF Outstanding, Reply
<1>11. ASSUME NEW s \in Scopes, DrainCompletions(s)
       PROVE  UNCHANGED clientVars
  BY <1>11 DEF DrainCompletions
<1>12. ASSUME NEW scope \in UsageScopes, NEW mark \in BOOLEAN, UsageNotApplied(scope, mark)
       PROVE  UNCHANGED clientVars
  BY <1>12 DEF UsageNotApplied
<1> QED
  BY <1>1, <1>2, <1>3, <1>4, <1>5, <1>6, <1>7, <1>8, <1>9, <1>10, <1>11, <1>12 DEF Command

LEMMA RunningStep ==
    ASSUME Inv, WaitingInv, [Next]_vars,
           NEW c \in Clients, inbox[c] = "awaiting", inbox'[c] = "running"
    PROVE  ask[c].id \in active
<1> USE DEF Inv, TypeOK, ClientTypeOK
<1>0. ~Ready(c)
  BY DEF Ready
<1>1. CASE inbox'[c] = inbox[c]
  BY <1>1
<1>2. CASE Command
  BY <1>0, <1>1, <1>2, CommandInbox
<1>3. ASSUME NEW d \in Clients, NEW i \in Ids, FinishProgress(d, i)
      PROVE  ask[c].id \in active
  <2>1. ~stopped /\ inbox' = [inbox EXCEPT ![d] = Deliver(d, ProgressAnswer(ask[d].kind, i))]
    BY <1>3 DEF FinishProgress
  <2>2. d = c /\ ProgressAnswer(ask[c].kind, i) = "running"
    BY <2>1 DEF Deliver
  <2>3. i \in active
    BY <2>2 DEF ProgressAnswer, ReadySnapshot
  <2>4. i = ask[c].id
    BY <1>3, <2>1, <2>2, FinishProgressSeats DEF WaitingInv, AskerInv
  <2> QED
    BY <2>3, <2>4
<1>4. ASSUME NEW i \in Ids, NEW st \in Statuses, Settle(i, st)
      PROVE  FALSE
  <2>1. inbox'[c] \in {"terminal", "ack", inbox[c]}
    BY <1>4 DEF Settle, Deliver
  <2> QED
    BY <2>1
<1>5. ASSUME NEW kids \in SUBSET deadline, NEW due \in SUBSET waiters,
             ProcessDeadlines(kids, due)
      PROVE  FALSE
  <2>1. inbox'[c] \in {inbox[c], ReadySnapshot(ask[c].id), "idle"}
    BY <1>5 DEF ProcessDeadlines
  <2> QED
    BY <2>1 DEF ReadySnapshot
<1>6. CASE Environment
  <2>1. ASSUME NEW d \in Clients, ClientDrops(d) PROVE FALSE
    BY <2>1 DEF ClientDrops
  <2>2. ASSUME NEW i \in Ids, ReportStarted(i) \/ CallerDrops(i) \/ ForwardToolCancel(i)
        PROVE  UNCHANGED clientVars
    BY <2>2 DEF ReportStarted, CallerDrops, ForwardToolCancel
  <2>3. CloseCommands => UNCHANGED clientVars
    BY DEF CloseCommands
  <2>4. ~Shutdown
    BY DEF Shutdown
  <2> QED
    BY <1>1, <1>6, <2>1, <2>2, <2>3, <2>4 DEF Environment, Abort, clientVars
<1>7. CASE ActorStep
  <2>1. "ended" \in Statuses
    BY DEF Statuses
  <2>2. ASSUME NEW i \in Ids, HandleStarted(i) PROVE FALSE
    BY <2>2 DEF HandleStarted, clientVars
  <2>3. ASSUME NEW d \in Clients, NEW i \in Ids, FinishListSlot(d, i) PROVE FALSE
    <3>1. inbox'[c] \in {inbox[c], "ack"}
      BY <2>3 DEF FinishListSlot, Deliver
    <3> QED
      BY <3>1
  <2>4. ASSUME NEW d \in Clients, FinishLookup(d) PROVE FALSE
    <3>1. inbox'[c] \in {inbox[c], "ack"}
      BY <2>4 DEF FinishLookup, Deliver
    <3> QED
      BY <3>1
  <2>5. ~Exit
    BY DEF Exit, Shutdown
  <2> QED
    BY <1>3, <1>4, <1>5, <1>7, <2>1, <2>2, <2>3, <2>4, <2>5
       DEF ActorStep, FinishChild, FinishPanickedChild
<1>8. CASE UNCHANGED vars
  BY <1>1, <1>8 DEF vars, clientVars
<1> QED
  BY <1>2, <1>6, <1>7, <1>8 DEF Next, Terminated

\* A "running" answer is sent for a child that is still active at that moment,
\* however late its progress future resolves.
THEOREM RunningIsFresh == Spec => NoStaleRunning
<1>1. Inv /\ WaitingInv /\ [Next]_vars =>
         \A c \in Clients :
            inbox[c] = "awaiting" /\ inbox'[c] = "running" => ask[c].id \in active
  BY RunningStep
<1> QED
  BY <1>1, WaitingInvariance, PTL DEF Spec, NoStaleRunning

\* Only the end of a child takes a workflow cancel off the list.
LEMMA AcknowledgedStep ==
    ASSUME Inv, [Next]_vars, NEW w \in workflowCancelWaiters, w \notin workflowCancelWaiters'
    PROVE  WorkflowOutstanding(w[2])' = {}
<1>1. CASE workflowCancelWaiters \subseteq workflowCancelWaiters'
  BY <1>1
<1>2. ASSUME NEW i \in Ids, NEW st \in Statuses, Settle(i, st)
      PROVE  WorkflowOutstanding(w[2])' = {}
  <2>1. /\ Live' = Live \ {i} /\ request' = request
        /\ workflowCancelWaiters' = workflowCancelWaiters \ Released(i)
    BY <1>2 DEF Settle, Inv, CoreInv, Partition, Live
  <2>2. WorkflowOutstanding(w[2]) \subseteq {i}
    BY <2>1 DEF Released
  <2> QED
    BY <2>1, <2>2 DEF WorkflowOutstanding
<1>3. CASE Command
  <2>1. ASSUME NEW c \in Clients, NEW i \in Ids, NEW s \in Scopes,
               \/ QueryNow(c, i, s) \/ QueryBlocking(c, i, s)
               \/ AskProgress(c, i, s, "query") \/ AskProgress(c, i, s, "inspect")
               \/ InspectNow(c, i, s) \/ CancelSubagent(c, i, s)
        PROVE  FALSE
    BY <2>1 DEF QueryNow, QueryBlocking, AskProgress, InspectNow, CancelSubagent, Reply
  <2>2. ASSUME NEW c \in Clients, NEW s, NEW p,
               \/ ListRunning(c, s) \/ AskLookup(c) \/ CancelParentPrompt(c, p, s)
               \/ CancelWorkflow(c, p, s) \/ Outstanding(c, s, p)
        PROVE  FALSE
    BY <2>2 DEF ListRunning, AskLookup, CancelParentPrompt, CancelWorkflow, Outstanding, Reply
  <2>3. ASSUME NEW s, NEW p, NEW i \in Ids, NEW req \in Requests,
               Spawn(i, req) \/ ReadOnlyCommand \/ DrainCompletions(s) \/ UsageNotApplied(s, p)
        PROVE  FALSE
    BY <2>3 DEF Spawn, ReadOnlyCommand, DrainCompletions, UsageNotApplied, clientVars
  <2>4. ~ReadOnlyCommand /\ \A s, p : ~DrainCompletions(s) /\ ~UsageNotApplied(s, p)
    BY DEF ReadOnlyCommand, DrainCompletions, UsageNotApplied, clientVars
  <2> QED
    BY <1>3, <2>1, <2>2, <2>3, <2>4 DEF Command
<1>4. CASE Environment
  BY <1>1, <1>4 DEF Environment, ReportStarted, CallerDrops, ForwardToolCancel, ClientDrops,
                    CloseCommands, Abort, Shutdown, clientVars
<1>5. CASE ActorStep
  <2>1. "ended" \in Statuses
    BY DEF Statuses
  <2>2. ASSUME NEW i \in Ids, HandleStarted(i) PROVE FALSE
    BY <2>2 DEF HandleStarted, clientVars
  <2>3. ASSUME NEW c \in Clients, NEW i \in Ids,
               FinishProgress(c, i) \/ FinishListSlot(c, i)
        PROVE  FALSE
    BY <2>3 DEF FinishProgress, FinishListSlot
  <2>4. ASSUME NEW c \in Clients, FinishLookup(c) PROVE FALSE
    BY <2>4 DEF FinishLookup
  <2>5. ASSUME NEW kids, NEW due, ProcessDeadlines(kids, due) PROVE FALSE
    BY <2>5 DEF ProcessDeadlines
  <2>6. ~Exit
    BY DEF Exit, Shutdown
  <2> QED
    BY <1>2, <1>5, <2>1, <2>2, <2>3, <2>4, <2>5, <2>6
       DEF ActorStep, FinishChild, FinishPanickedChild
<1>6. CASE UNCHANGED vars
  BY <1>1, <1>6 DEF vars, clientVars
<1> QED
  BY <1>3, <1>4, <1>5, <1>6 DEF Next, Terminated

\* A workflow cancel that had to wait is acknowledged by the end of the run's last
\* live child, never earlier.
THEOREM CancelAckCorrect == Spec => CancelAckMeansQuiet
<1>1. Inv /\ [Next]_vars =>
         \A w \in workflowCancelWaiters :
            w \notin workflowCancelWaiters' => WorkflowOutstanding(w[2])' = {}
  BY AcknowledgedStep
<1> QED
  BY <1>1, Invariance, PTL DEF Spec, CancelAckMeansQuiet

\* After reaping, a child that is not handle-only is one whose caller listens.
LEMMA BlockingIsWaitedFor ==
    ASSUME Inv, WaitingInv, ~stopped, NEW i \in Live, ~IsWorkflow(i)
    PROVE  i \notin handleOnly \cup AbandonedTask
              <=> caller[i] = "waiting" /\ ~request[i].background
<1>1. i \in Ids /\ request[i].background \in BOOLEAN
  BY DEF Inv, TypeOK, CoreTypeOK, Live, RequestType
<1>2. /\ request[i].background => i \in handleOnly
      /\ i \in handleOnly /\ i \in spawnReply => request[i].background
  BY DEF Inv, CoreInv, LiveInv
<1>3. /\ i \notin handleOnly => i \in spawnReply
      /\ i \in spawnReply => caller[i] \in {"waiting", "gone"}
  BY DEF WaitingInv, ForegroundInv
<1>4. caller[i] = "waiting" => i \in spawnReply
  BY <1>1 DEF WaitingInv, CallerInv
<1>5. i \in AbandonedTask <=> i \notin handleOnly /\ i \in spawnReply /\ caller[i] = "gone"
  BY DEF AbandonedTask, AbandonedWorkflow, Abandoned
<1> QED
  BY <1>1, <1>2, <1>3, <1>4, <1>5

LEMMA OutstandingStep ==
    ASSUME Inv, WaitingInv, NEW c \in Clients, NEW s \in Sessions, NEW p \in Prompts,
           Outstanding(c, s, p)
    PROVE  listed'[c] = {i \in Live :
              /\ request[i].parent = s /\ request[i].prompt = p /\ ~IsWorkflow(i)
              /\ caller[i] = "waiting" /\ ~request[i].background
              /\ i \in active => ~request[i].defBackground}
<1>1. ~stopped
  BY DEF Outstanding, Inv, CoreInv, Partition
<1>2. listed'[c] = TurnBlocking(s, p)
  BY DEF Outstanding, Reply, Inv, TypeOK, ClientTypeOK
<1> QED
  BY <1>1, <1>2, BlockingIsWaitedFor DEF TurnBlocking

\* What Outstanding names is what the parent's turn is blocked on: the foreground
\* children whose caller still listens.
THEOREM OutstandingCorrect == Spec => OutstandingIsExact
<1>1. Inv /\ WaitingInv =>
         \A c \in Clients, s \in Sessions, p \in Prompts :
            Outstanding(c, s, p) =>
                listed'[c] = {i \in Live :
                    /\ request[i].parent = s /\ request[i].prompt = p /\ ~IsWorkflow(i)
                    /\ caller[i] = "waiting" /\ ~request[i].background
                    /\ i \in active => ~request[i].defBackground}
  BY OutstandingStep
<1> QED
  BY <1>1, WaitingInvariance, PTL DEF OutstandingIsExact

------------------------------------------------------------------------------
(* Nested spawns *)

\* SubagentRequest.id is a UUID v7: a spawn never names an id that was used
\* before.  The coordinator itself refuses only the ids it still remembers, so an
\* id that was evicted could come back; a late spawn of its former child would
\* then be parented to the new one.
IdsAreFresh == [][\A i \in pending' \ pending : request[i] = NoRequest]_vars

\* The session a live child is rooted at is no live child, and no id still to be
\* used: it is a user's session, or that of a child that has come and gone.
RootedInv ==
    /\ \A i \in Live :
          /\ request[i].parent \notin Live
          /\ request[i].parent \in Ids => request[request[i].parent] # NoRequest
    /\ \A i \in Ids : runner[i] # "none" => request[i] # NoRequest

LEMMA SpawnRooted ==
    ASSUME Inv, RootedInv, NEW i \in Ids, NEW req \in Requests, Spawn(i, req),
           request[i] = NoRequest
    PROVE  RootedInv'
<1> USE DEF Inv, TypeOK, CoreTypeOK
<1>1. /\ Live' = Live \cup {i} /\ i \notin Live
      /\ request' = [request EXCEPT ![i] = ReRooted(req)]
      /\ runner' = [runner EXCEPT ![i] = "init"]
      /\ req.parent \in Ids => req.parent # i /\ runner[req.parent] = "ready"
  BY DEF Spawn, Live
<1>2. ReRooted(req) \in RequestType /\ ReRooted(req) # NoRequest
  BY ReRootedType, SentinelsAssumption
<1>3. /\ ReRooted(req).parent \notin Live \cup {i}
      /\ ReRooted(req).parent \in Ids => request[ReRooted(req).parent] # NoRequest
  <2>1. CASE req.parent \in active
    <3>1. request[req.parent] \in RequestType /\ req.parent \in Live
      BY <2>1 DEF Live
    <3>2. ReRooted(req).parent = request[req.parent].parent
      <4>1. req \in RequestType
        BY RequestsAssumption
      <4> QED
        BY <2>1, <4>1 DEF ReRooted, RequestType
    <3> QED
      BY <3>1, <3>2 DEF RootedInv
  <2>2. CASE req.parent \notin active
    <3>1. ReRooted(req).parent = req.parent
      BY <2>2 DEF ReRooted
    <3>2. req.parent \notin Live
      BY <1>1, <2>2 DEF CoreInv, RunnerInv, Live
    <3>3. req.parent \in Ids => request[req.parent] # NoRequest
      BY <1>1 DEF RootedInv
    <3> QED
      BY <1>1, <3>1, <3>2, <3>3
  <2> QED
    BY <2>1, <2>2
<1>4. ASSUME NEW j \in Live'
      PROVE  /\ request'[j].parent \notin Live'
             /\ request'[j].parent \in Ids => request'[request'[j].parent] # NoRequest
  <2>1. CASE j = i
    BY <1>1, <1>2, <1>3, <2>1
  <2>2. CASE j # i
    <3>1. j \in Live /\ request'[j] = request[j]
      BY <1>1, <2>2 DEF Live
    <3> QED
      BY <1>1, <1>2, <3>1 DEF RootedInv
  <2> QED
    BY <2>1, <2>2
<1>5. \A j \in Ids : runner'[j] # "none" => request'[j] # NoRequest
  BY <1>1, <1>2 DEF RootedInv
<1> QED
  BY <1>4, <1>5 DEF RootedInv

\* A step that starts no child.
LEMMA SettledRooted ==
    ASSUME RootedInv, Live' \subseteq Live, request' = request,
           \A i \in Ids : runner'[i] # "none" => request[i] # NoRequest
    PROVE  RootedInv'
BY DEF RootedInv

LEMMA RootedStep ==
    ASSUME Inv, RootedInv, [Next]_vars, \A i \in pending' \ pending : request[i] = NoRequest
    PROVE  RootedInv'
<1> USE DEF Inv, TypeOK, CoreTypeOK
<1>1. ASSUME UNCHANGED <<registryVars, runnerVars>>
      PROVE  RootedInv'
  BY <1>1 DEF registryVars, runnerVars, RootedInv, Live
<1>2. ASSUME NEW i \in Ids, NEW req \in Requests, Spawn(i, req)
      PROVE  RootedInv'
  <2>1. i \in pending' \ pending
    BY <1>2 DEF Spawn, Live
  <2> QED
    BY <1>2, <2>1, SpawnRooted
<1>3. CASE Command
  BY <1>1, <1>2, <1>3, CommandCases DEF FlagsOnly
<1>4. ASSUME NEW i \in Ids, NEW st \in Statuses, Settle(i, st)
      PROVE  RootedInv'
  <2>1. Live' \subseteq Live /\ request' = request
    BY <1>4 DEF Settle, Live
  <2>2. \A j \in Ids : runner'[j] # "none" => runner[j] # "none"
    BY <1>4 DEF Settle
  <2> QED
    BY <2>1, <2>2, SettledRooted DEF RootedInv
<1>5. ASSUME NEW i \in Ids, HandleStarted(i)
      PROVE  RootedInv'
  <2>1. Live' \subseteq Live /\ request' = request /\ ~stopped
    BY <1>5 DEF HandleStarted, Promotable, Live
  <2>2. i \in pending \/ i \in runs => request[i] # NoRequest
    BY <2>1, SentinelsAssumption DEF CoreInv, Partition, Live
  <2>3. \A j \in Ids : runner'[j] # "none" => request[j] # NoRequest
    BY <1>5, <2>2 DEF HandleStarted, Promotable, RootedInv
  <2> QED
    BY <2>1, <2>3, SettledRooted
<1>6. Shutdown => RootedInv'
  <2>1. Shutdown => Live' \subseteq Live /\ request' = request /\ runner' = runner
    BY DEF Shutdown, runnerVars, Live
  <2> QED
    BY <2>1, SettledRooted DEF RootedInv
<1>7. CASE Environment
  <2>1. ASSUME NEW i \in Ids, ReportStarted(i)
        PROVE  RootedInv'
    BY <2>1 DEF ReportStarted, registryVars, RootedInv, Live
  <2> QED
    BY <1>1, <1>6, <1>7, <2>1 DEF Environment, CallerDrops, ForwardToolCancel,
                                  ClientDrops, CloseCommands, Abort
<1>8. CASE ActorStep
  <2>1. "ended" \in Statuses
    BY DEF Statuses
  <2>2. ASSUME NEW c, NEW i, FinishProgress(c, i) \/ FinishListSlot(c, i) \/ FinishLookup(c)
        PROVE  RootedInv'
    BY <1>1, <2>2 DEF FinishProgress, FinishListSlot, FinishLookup
  <2>3. ASSUME NEW kids, NEW due, ProcessDeadlines(kids, due)
        PROVE  RootedInv'
    BY <1>1, <2>3 DEF ProcessDeadlines
  <2> QED
    BY <1>4, <1>5, <1>6, <1>8, <2>1, <2>2, <2>3
       DEF ActorStep, FinishChild, FinishPanickedChild, Exit
<1>9. CASE UNCHANGED vars
  BY <1>1, <1>9 DEF vars
<1> QED
  BY <1>3, <1>7, <1>8, <1>9 DEF Next, Terminated

\* As long as ids are fresh, no live child is parented to an active one: a nested
\* spawn is rooted at the session that will drain it, even when it is handled
\* after its sender has finished.
THEOREM NestingCorrect == Spec /\ IdsAreFresh => []NestedChildrenRooted
<1>1. Init => RootedInv
  BY DEF Init, RootedInv, Live
<1>2. Inv /\ RootedInv /\ [Next]_vars /\ [\A i \in pending' \ pending : request[i] = NoRequest]_vars
         => RootedInv'
  <2>1. UNCHANGED vars => UNCHANGED pending
    BY DEF vars, registryVars
  <2> QED
    BY <2>1, RootedStep
<1>3. RootedInv => NestedChildrenRooted
  BY DEF RootedInv, NestedChildrenRooted, Live
<1> QED
  BY <1>1, <1>2, <1>3, Invariance, PTL DEF Spec, IdsAreFresh

------------------------------------------------------------------------------
(* The buffer of completion summaries *)

\* A vector of at most n entries, whatever they are.
Holds(v, n) == Len(v) \in Nat /\ Len(v) <= n /\ \E S : v \in Seq(S)

BufferInv == Holds(pendingCompletions, MaxBuffered)

LEMMA VectorOfLength ==
    ASSUME NEW n \in Nat, NEW v, v = [k \in 1..n |-> v[k]]
    PROVE  Len(v) = n /\ v \in Seq({v[k] : k \in 1..n})
<1> DEFINE S == {v[k] : k \in 1..n}
<1>1. v \in [1..n -> S] /\ DOMAIN v = 1..n
  OBVIOUS
<1> HIDE DEF S
<1>2. v \in Seq(S)
  BY <1>1, SeqDef
<1>3. Len(v) \in Nat /\ 1..Len(v) = 1..n
  BY <1>1, <1>2, LenProperties
<1>4. Len(v) = n
  BY <1>3
<1> QED
  BY <1>2, <1>4 DEF S

\* What retain leaves is no longer than what it was given.
LEMMA RetainHolds ==
    ASSUME NEW n \in Nat, NEW v, Holds(v, n), NEW kept \in SUBSET DOMAIN v
    PROVE  Holds(Retain(v, kept), n)
<1>1. PICK S : v \in Seq(S)
  BY DEF Holds
<1>2. DOMAIN v = 1..Len(v) /\ Len(v) \in Nat /\ Len(v) <= n
  BY <1>1 DEF Holds
<1>3. IsFiniteSet(DOMAIN v) /\ Cardinality(DOMAIN v) = Len(v)
  <2> DEFINE len == Len(v)
  <2>1. len \in Nat /\ DOMAIN v = 1..len
    BY <1>2
  <2> HIDE DEF len
  <2>2. IsFiniteSet(1..len) /\ Cardinality(1..len) = IF 1 > len THEN 0 ELSE len - 1 + 1
    BY <2>1, FS_Interval
  <2>3. Cardinality(1..len) = len
    BY <2>1, <2>2
  <2> QED
    BY <2>1, <2>2, <2>3 DEF len
<1>4. /\ IsFiniteSet(kept) /\ Cardinality(kept) \in Nat
      /\ Cardinality(kept) <= Cardinality(DOMAIN v)
  BY <1>3, FS_Subset, FS_CardinalityType
<1> DEFINE m == Cardinality(kept)
           w == Retain(v, kept)
<1>5. w = [k \in 1..m |-> w[k]]
  BY DEF Retain
<1> HIDE DEF w, m
<1>6. m \in Nat /\ m <= n
  BY <1>2, <1>3, <1>4 DEF m
<1>7. Len(w) = m /\ w \in Seq({w[k] : k \in 1..m})
  BY <1>5, <1>6, VectorOfLength
<1> QED
  BY <1>6, <1>7 DEF Holds, w

LEMMA BoundedHolds ==
    ASSUME NEW n \in Nat, NEW v, NEW e, Holds(v, n)
    PROVE  Holds(Bounded(Append(v, e), n), n)
<1>1. PICK S : v \in Seq(S)
  BY DEF Holds
<1> DEFINE T == S \cup {e}
           w == Append(v, e)
<1>2. v \in Seq(T) /\ w \in Seq(T) /\ Len(w) = Len(v) + 1 /\ Len(v) \in Nat /\ Len(v) <= n
  BY <1>1 DEF Holds
<1> HIDE DEF T, w
<1>3. CASE Len(w) > n
  <2>1. SubSeq(w, Len(w) - n + 1, Len(w)) \in Seq(T)
    BY <1>2, <1>3
  <2>2. Len(SubSeq(w, Len(w) - n + 1, Len(w))) = n
    BY <1>2, <1>3
  <2>3. Bounded(w, n) = SubSeq(w, Len(w) - n + 1, Len(w))
    BY <1>3 DEF Bounded
  <2>4. Len(Bounded(w, n)) = n /\ \E S1 : Bounded(w, n) \in Seq(S1)
    BY <2>1, <2>2, <2>3
  <2> HIDE DEF Bounded
  <2> QED
    BY <2>4 DEF Holds, w
<1>4. CASE ~(Len(w) > n)
  BY <1>2, <1>4 DEF Bounded, Holds, w
<1> QED
  BY <1>3, <1>4

LEMMA BufferStep ==
    ASSUME Inv, BufferInv, [Next]_vars
    PROVE  BufferInv'
<1>0. MaxBuffered \in Nat
  BY BoundsAssumption
<1>1. ASSUME UNCHANGED pendingCompletions
      PROVE  BufferInv'
  BY <1>1 DEF BufferInv
<1>2. ASSUME NEW s \in Scopes, DrainCompletions(s)
      PROVE  BufferInv'
  <2> DEFINE kept == {k \in DOMAIN pendingCompletions :
                         s # AnySession /\ pendingCompletions[k].parent # s}
  <2>1. pendingCompletions' = Retain(pendingCompletions, kept)
    BY <1>2 DEF DrainCompletions
  <2>2. Holds(Retain(pendingCompletions, kept), MaxBuffered)
    BY <1>0, RetainHolds DEF BufferInv
  <2> QED
    BY <2>1, <2>2 DEF BufferInv
<1>3. ASSUME NEW i \in Ids, NEW st \in Statuses, Settle(i, st)
      PROVE  BufferInv'
  <2>1. pendingCompletions' = BufferedWith(i)
    BY <1>3 DEF Settle
  <2>2. Holds(BufferedWith(i), MaxBuffered)
    BY <1>0, BoundedHolds DEF BufferedWith, BufferInv
  <2> QED
    BY <2>1, <2>2 DEF BufferInv
<1>4. CASE Command
  <2>1. ASSUME NEW c, NEW i, NEW s,
               \/ QueryNow(c, i, s) \/ QueryBlocking(c, i, s)
               \/ AskProgress(c, i, s, "query") \/ AskProgress(c, i, s, "inspect")
               \/ InspectNow(c, i, s) \/ CancelSubagent(c, i, s)
        PROVE  UNCHANGED pendingCompletions
    BY <2>1 DEF QueryNow, QueryBlocking, AskProgress, InspectNow, CancelSubagent, bufferVars
  <2>2. ASSUME NEW c, NEW s, NEW p,
               \/ ListRunning(c, s) \/ AskLookup(c) \/ CancelParentPrompt(c, p, s)
               \/ CancelWorkflow(c, p, s) \/ Outstanding(c, s, p)
        PROVE  UNCHANGED pendingCompletions
    BY <2>2 DEF ListRunning, AskLookup, CancelParentPrompt, CancelWorkflow, Outstanding,
                bufferVars
  <2>3. ASSUME NEW i, NEW req, Spawn(i, req)
        PROVE  UNCHANGED pendingCompletions
    BY <2>3 DEF Spawn, bufferVars
  <2>4. /\ ReadOnlyCommand => UNCHANGED pendingCompletions
        /\ \A scope, mark : UsageNotApplied(scope, mark) => UNCHANGED pendingCompletions
    BY DEF ReadOnlyCommand, UsageNotApplied, bufferVars
  <2> QED
    BY <1>1, <1>2, <1>4, <2>1, <2>2, <2>3, <2>4 DEF Command
<1>5. CASE Environment
  BY <1>1, <1>5 DEF Environment, ReportStarted, CallerDrops, ForwardToolCancel, ClientDrops,
                    CloseCommands, Abort, Shutdown, bufferVars
<1>6. CASE ActorStep
  <2>1. "ended" \in Statuses
    BY DEF Statuses
  <2>2. ASSUME NEW c, NEW i,
               FinishProgress(c, i) \/ FinishListSlot(c, i) \/ FinishLookup(c) \/ HandleStarted(i)
        PROVE  UNCHANGED pendingCompletions
    BY <2>2 DEF FinishProgress, FinishListSlot, FinishLookup, HandleStarted, bufferVars
  <2>3. ASSUME NEW kids, NEW due, ProcessDeadlines(kids, due)
        PROVE  UNCHANGED pendingCompletions
    BY <2>3 DEF ProcessDeadlines, bufferVars
  <2>4. Exit => UNCHANGED pendingCompletions
    BY DEF Exit, Shutdown, bufferVars
  <2> QED
    BY <1>1, <1>3, <1>6, <2>1, <2>2, <2>3, <2>4
       DEF ActorStep, FinishChild, FinishPanickedChild
<1>7. CASE UNCHANGED vars
  BY <1>1, <1>7 DEF vars, bufferVars
<1> QED
  BY <1>4, <1>5, <1>6, <1>7 DEF Next, Terminated

\* Neither the completed map nor the buffer of summaries outgrows its cap, however
\* ids are evicted and reused.
THEOREM CapsCorrect == Spec => []WithinCaps
<1>1. Init => BufferInv
  <2>1. ASSUME Init PROVE Len(pendingCompletions) = 0 /\ pendingCompletions \in Seq({})
    BY <2>1 DEF Init
  <2> QED
    BY <2>1, BoundsAssumption DEF BufferInv, Holds
<1>2. Inv /\ BufferInv /\ [Next]_vars => BufferInv'
  BY BufferStep
<1>3. WaitingInv /\ BufferInv => WithinCaps
  BY DEF WaitingInv, CapInv, BufferInv, Holds, WithinCaps
<1> QED
  BY <1>1, <1>2, <1>3, WaitingInvariance, PTL DEF Spec

==============================================================================
