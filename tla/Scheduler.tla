------------------------------ MODULE Scheduler -----------------------------
(***************************************************************************)
(* The scheduler of one session (xai-grok-tools, scheduler/actor.rs): an   *)
(* actor that keeps the list of scheduled tasks in the session's shared    *)
(* resources, handles commands one at a time, fires due tasks, and removes *)
(* tasks behind two barriers: the resources are flushed and a tombstone is *)
(* acknowledged by the session's update log.                               *)
(*                                                                         *)
(* Around it: the writer of the resources (ResourcesPersistence); the log, *)
(* from which a client rebuilds the list of tasks when it replays the      *)
(* session (notification_bridge.rs); the subagent coordinator, which runs  *)
(* the iterations of a loop task (external here; SubagentCoordinator has   *)
(* its model).  The actor waits inside a handler, and everything else goes *)
(* on meanwhile: `job.at` is the await it stands at.                       *)
(*                                                                         *)
(* Time is abstract: `due` and `overage` hold the tasks whose next_fire_at *)
(* or expires_at has passed.  A deadline may strike at any await.          *)
(* Definitions whose names end in _bug are faulty variants of the          *)
(* definition that follows them; nothing uses them but mutation runs.      *)
(***************************************************************************)
EXTENDS ResourcesPersistence, FiniteSets

CONSTANTS
  Tasks,        \* ids of tasks; an id is fresh at every Create
  Recurring, Durable, Foreground,   \* attributes of tasks: subsets of Tasks
  Wired,        \* the session has a subagent event channel and background loops
  MAX_SCHEDULED_TASKS,
  MaxRevision,  \* u64::MAX of the clock
  FRESH_EVERY,  \* LOOP_FRESH_CHAIN_EVERY
  MaxPrompt,    \* bound on prompt changes of a task
  MaxIterations,\* bound on loop iterations, over all tasks
  MaxFaults     \* bound on write failures, closed targets, deaths and power losses

ASSUME SchedulerAssumption ==
  /\ Recurring \subseteq Tasks /\ Durable \subseteq Tasks /\ Foreground \subseteq Tasks
  /\ Wired \in BOOLEAN
  /\ {MAX_SCHEDULED_TASKS, FRESH_EVERY, MaxPrompt, MaxIterations, MaxFaults} \subseteq Nat
  /\ MaxRevision \in Nat \ {0} /\ MAX_SCHEDULED_TASKS <= MaxRevision
  /\ Tasks \subseteq Recurring \/ 2 <= MaxRevision

VARIABLES
  tasks,     \* SchedulerState.tasks, in order
  due, overage,
  clock,     \* SchedulerClock.version
  pending,   \* pending_removal
  blocked,   \* blocked_expiries
  job,       \* the handler the actor is in
  target,    \* a live acknowledging notification target exists
  kids,      \* the loop iterations, by number
  open,      \* the coordinator's event channel is open
  log,       \* the tasks a replay of the log shows when all updates have landed
  logDisk,   \* what a replay may show after the process or the machine dies
  used,      \* the ids created so far
  deleted,   \* history: the ids whose Delete was answered Ok(true)
  faults

sched == <<tasks, due, overage, clock, pending, blocked, job, target>>
outside == <<kids, open>>
replay == <<log, logDisk>>
history == <<used, deleted>>
vars == <<sched, outside, replay, history, faults, writer>>

None == 0
Iterations == 1..MaxIterations

\* What is persisted of a task, besides its times.
Entry == [id : Tasks, prompt : 0..MaxPrompt, anchor : {None} \cup Iterations,
          iters : 0..MaxIterations, reset : BOOLEAN]

Ids(list) == {list[i].id : i \in DOMAIN list}
Position(t) == CHOOSE i \in DOMAIN tasks : tasks[i].id = t
Task(t) == tasks[Position(t)]
Without(list, i) == SubSeq(list, 1, i - 1) \o SubSeq(list, i + 1, Len(list))
Inserted(list, i, e) == SubSeq(list, 1, i - 1) \o <<e>> \o SubSeq(list, i, Len(list))

NewTask(t) == [id |-> t, prompt |-> 0, anchor |-> None, iters |-> 0, reset |-> FALSE]

\* An iteration: how it stands, whether the coordinator (still) knows it, the
\* iteration whose transcript it resumes, whether a subagent it started is
\* running, whether an error result is on its way to the detached watcher.
NoKid == [status |-> "unused", known |-> FALSE, task |-> None, prompt |-> 0, resume |-> None,
          descendant |-> FALSE, watched |-> FALSE]
Kid == [status : {"unused", "live", "completed", "failed"}, known : BOOLEAN,
        task : Tasks \cup {None}, prompt : 0..MaxPrompt, resume : {None} \cup Iterations,
        descendant : BOOLEAN, watched : BOOLEAN]

NoJob == [at |-> "loop", why |-> "none", entry |-> NewTask(None), index |-> 0, seen |-> "unused",
          source |-> <<0, 0>>]
NoRemoval == [id |-> None, source |-> <<0, 0>>]

Init ==
  /\ PersistenceInit
  /\ tasks = <<>> /\ due = {} /\ overage = {} /\ clock = <<0, 0>>
  /\ pending = NoRemoval /\ blocked = {} /\ job = [NoJob EXCEPT !.at = "start"]
  /\ target = TRUE /\ kids = [n \in Iterations |-> NoKid] /\ open = TRUE
  /\ log = {} /\ logDisk = {{}} /\ used = {} /\ deleted = {} /\ faults = 0

-----------------------------------------------------------------------------
(***************************************************************************)
(* SchedulerClock: a version is a generation and a revision; a reservation *)
(* that would overflow the revision moves to a new generation.             *)
(***************************************************************************)

prepare_transition_bug(count) == <<clock[1], clock[2] + count>>

\* The version `count` commits of one reservation lead to.  Generations are
\* random: two of them that follow each other differ, no more is known.
prepare_transition(count) ==
  IF clock[2] + count > MaxRevision THEN <<1 - clock[1], count>>
                                    ELSE <<clock[1], clock[2] + count>>

\* commit_next asserts that nothing was committed since the reservation.
commit_next(count) == clock' = prepare_transition(count)

(***************************************************************************)
(* Notifications to the log.  An ordinary update lands, in order, unless   *)
(* the process dies first.                                                 *)
(***************************************************************************)
SendCreated(ids) ==
  log' = log \cup ids /\ logDisk' = logDisk \cup {log \cup part : part \in SUBSET ids}
SendRemoved(ids) ==
  log' = log \ ids /\ logDisk' = logDisk \cup {log \ part : part \in SUBSET ids}

Budget == faults < MaxFaults /\ faults' = faults + 1
Idle == job.at = "loop"
Return == job' = NoJob

-----------------------------------------------------------------------------
(***************************************************************************)
(* Commands.                                                               *)
(***************************************************************************)

Create_bug(t) ==
  /\ Idle
  /\ t \notin used
  /\ Len(tasks) < MAX_SCHEDULED_TASKS
  /\ tasks' = Append(tasks, NewTask(t))
  /\ used' = used \cup {t}
  /\ commit_next(1)
  /\ SendCreated({t})
  /\ UNCHANGED <<due, overage, pending, blocked, job, target, outside, deleted, faults, writer>>

\* A refused Create changes nothing.
Create(t) ==
  /\ Idle
  /\ pending = NoRemoval
  /\ t \notin used
  /\ Len(tasks) < MAX_SCHEDULED_TASKS
  /\ tasks' = Append(tasks, NewTask(t))
  /\ used' = used \cup {t}
  /\ commit_next(1)
  /\ SendCreated({t})
  /\ UNCHANGED <<due, overage, pending, blocked, job, target, outside, deleted, faults, writer>>

\* A new prompt is a new job: the next fire starts a fresh transcript.  The
\* anchor is kept, so that the in-flight guard still sees the old iteration.
\* A new interval never makes a task due at once.
Update(t) ==
  /\ Idle
  /\ pending = NoRemoval
  /\ t \in Ids(tasks)
  /\ \E prompt, interval \in BOOLEAN :
       /\ prompt => Task(t).prompt < MaxPrompt
       /\ tasks' = IF prompt
                     THEN [tasks EXCEPT ![Position(t)].prompt = @ + 1,
                                        ![Position(t)].reset = TRUE, ![Position(t)].iters = 0]
                     ELSE tasks
       /\ due' = IF interval THEN due \ {t} ELSE due
  /\ commit_next(1)
  /\ SendCreated({t})
  /\ UNCHANGED <<overage, pending, blocked, job, target, outside, history, faults, writer>>

\* persist_resources: the snapshot is taken under the lock.
Persist(why, entry, index, list) ==
  /\ job' = [NoJob EXCEPT !.at = "persist", !.why = why, !.entry = entry, !.index = index,
                          !.source = clock]
  /\ EnqueueSaveAndFlush(list)

\* The first Delete of a task takes it off the list before anything else.
Delete(t) ==
  /\ Idle
  /\ pending = NoRemoval
  /\ t \in Ids(tasks)
  /\ target
  /\ tasks' = Without(tasks, Position(t))
  /\ pending' = [id |-> t, source |-> clock]
  /\ Persist("delete", Task(t), Position(t), tasks')
  /\ UNCHANGED <<due, overage, clock, blocked, target, outside, replay, history, faults>>

\* A Delete of the task whose removal is pending: complete_pending_removal.
RetryDelete ==
  /\ Idle
  /\ pending # NoRemoval
  /\ IF target
       THEN /\ Persist("delete", NewTask(pending.id), 0, tasks)
            /\ UNCHANGED pending
       ELSE /\ pending' = NoRemoval
            /\ UNCHANGED <<job, writer>>
  /\ UNCHANGED <<tasks, due, overage, clock, blocked, target, outside, replay, history, faults>>

-----------------------------------------------------------------------------
(***************************************************************************)
(* The removal of a task, once the resources have been enqueued.           *)
(***************************************************************************)

\* The flush is acknowledged: the tombstone goes out.
Persisted ==
  /\ job.at = "persist" /\ receipt = "ok"
  /\ job' = [job EXCEPT !.at = "publish"]
  /\ DropReceipt
  /\ UNCHANGED <<tasks, due, overage, clock, pending, blocked, target, outside, replay, history, faults>>

\* The flush failed.  A Delete stays pending; an expired task goes back to
\* its place and is blocked.
NotPersisted ==
  /\ job.at = "persist" /\ receipt = "err"
  /\ Return
  /\ DropReceipt
  /\ IF job.why = "expiry"
       THEN /\ tasks' = Inserted(tasks, job.index, job.entry)
            /\ blocked' = blocked \cup {job.entry.id}
       ELSE UNCHANGED <<tasks, blocked>>
  /\ UNCHANGED <<due, overage, clock, pending, target, outside, replay, history, faults>>

PersistTimeout_bug ==
  /\ job.at = "persist" /\ receipt # "none"
  /\ Return
  /\ DropReceipt
  /\ UNCHANGED <<tasks, due, overage, clock, pending, blocked, target, outside, replay, history, faults>>

\* DURABILITY_BARRIER_TIMEOUT: nobody knows what the writer will do.
PersistTimeout ==
  /\ job.at = "persist"
  /\ Return
  /\ DropReceipt
  /\ UNCHANGED <<tasks, due, overage, clock, pending, blocked, target, outside, replay, history, faults>>

\* The bridge appended the tombstone durably and acknowledges it.
Tombstone(t) == log' = log \ {t} /\ logDisk' = {log'}

Published_bug ==
  /\ job.at = "publish" /\ target
  /\ Return
  /\ SendRemoved({job.entry.id})
  /\ clock' = prepare_transition(1)
  /\ IF job.why = "delete"
       THEN pending' = NoRemoval /\ deleted' = deleted \cup {job.entry.id}
       ELSE UNCHANGED <<pending, deleted>>
  /\ UNCHANGED <<tasks, due, overage, blocked, target, outside, used, faults, writer>>

Published ==
  /\ job.at = "publish" /\ target
  /\ Return
  /\ Tombstone(job.entry.id)
  /\ clock' = prepare_transition(1)
  /\ IF job.why = "delete"
       THEN pending' = NoRemoval /\ deleted' = deleted \cup {job.entry.id}
       ELSE UNCHANGED <<pending, deleted>>
  /\ UNCHANGED <<tasks, due, overage, blocked, target, outside, used, faults, writer>>

\* The append failed, the channel is closed, or the deadline struck; in the
\* last case the tombstone may still land.
NotPublished ==
  /\ job.at = "publish"
  /\ Return
  /\ \/ UNCHANGED replay
     \/ SendRemoved({job.entry.id})
  /\ UNCHANGED <<tasks, due, overage, clock, pending, blocked, target, outside, history, faults, writer>>

-----------------------------------------------------------------------------
(***************************************************************************)
(* fire_next_task: the first due task that is not blocked.                 *)
(***************************************************************************)

Chosen(t) ==
  /\ Idle
  /\ pending = NoRemoval
  /\ t \in Ids(tasks) \cap (due \ blocked)
  /\ \A i \in 1..(Position(t) - 1) : tasks[i].id \notin due \ blocked

Expired(t) == t \in Recurring \cap overage

\* A durable task that has expired is removed behind both barriers, or
\* blocked when nobody could acknowledge.
ExpireDurable(t) ==
  /\ Chosen(t)
  /\ Expired(t) /\ t \in Durable
  /\ IF target
       THEN /\ tasks' = Without(tasks, Position(t))
            /\ Persist("expiry", Task(t), Position(t), tasks')
            /\ UNCHANGED blocked
       ELSE /\ blocked' = blocked \cup {t}
            /\ UNCHANGED <<tasks, job, writer>>
  /\ UNCHANGED <<due, overage, clock, pending, target, outside, replay, history, faults>>

ExpirePlain(t) ==
  /\ Chosen(t)
  /\ Expired(t) /\ t \notin Durable
  /\ tasks' = Without(tasks, Position(t))
  /\ commit_next(1)
  /\ SendRemoved({t})
  /\ UNCHANGED <<due, overage, pending, blocked, job, target, outside, history, faults, writer>>

\* A one-shot task leaves the list when it fires: two versions, two updates.
FireOneShot(t) ==
  /\ Chosen(t)
  /\ t \notin Recurring
  /\ tasks' = Without(tasks, Position(t))
  /\ due' = due \ {t}
  /\ commit_next(2)
  /\ SendRemoved({t})
  /\ UNCHANGED <<overage, pending, blocked, job, target, outside, history, faults, writer>>

InBackground(t) == t \in Recurring \ Foreground /\ Wired

\* The prompt is injected into the session (ScheduledTaskFired).
FireForeground(t) ==
  /\ Chosen(t)
  /\ t \in Recurring \ overage /\ ~InBackground(t)
  /\ due' = due \ {t}
  /\ commit_next(1)
  /\ UNCHANGED <<tasks, overage, pending, blocked, job, target, outside, replay, history, faults, writer>>

\* fire_as_loop_subagent begins: with an anchor it asks about it first.
FireLoop(t) ==
  /\ Chosen(t)
  /\ t \in Recurring \ overage /\ InBackground(t)
  /\ due' = due \ {t}
  /\ job' = [NoJob EXCEPT !.at = IF Task(t).anchor # None THEN "query" ELSE "spawn",
                          !.why = "fire", !.entry = Task(t), !.source = clock]
  /\ UNCHANGED <<tasks, overage, clock, pending, blocked, target, outside, replay, history, faults, writer>>

(***************************************************************************)
(* fire_as_loop_subagent, await by await.                                  *)
(***************************************************************************)

\* Skipped: the task is announced again with its new time, no version is used.
Skip ==
  /\ Return
  /\ SendCreated({job.entry.id} \cap Ids(tasks))
  /\ UNCHANGED <<tasks, due, overage, clock, pending, blocked, target, outside, history, faults, writer>>

\* The channel is closed, the answer was dropped, or ten seconds are over.
GuardUnanswered == job.at \in {"query", "unit"} /\ Skip

\* SubagentEvent::Query about the anchor.
GuardQuery ==
  /\ job.at = "query" /\ open
  /\ LET kid == kids[job.entry.anchor]
         seen == IF kid.known THEN kid.status ELSE "unused" IN
     IF seen = "live" THEN Skip
     ELSE /\ job' = [job EXCEPT !.at = "unit", !.seen = seen]
          /\ UNCHANGED <<tasks, due, overage, clock, pending, blocked, target, outside, replay,
                         history, faults, writer>>

\* LoopUnitActive: the coordinator has a running child of this loop task.
UnitActive(t) ==
  \E n \in Iterations : kids[n].task = t /\ (kids[n].status = "live" \/ kids[n].descendant)

GuardUnit_bug ==
  /\ job.at = "unit" /\ open
  /\ job' = [job EXCEPT !.at = "spawn"]
  /\ UNCHANGED <<tasks, due, overage, clock, pending, blocked, target, outside, replay, history,
                 faults, writer>>

GuardUnit ==
  /\ job.at = "unit" /\ open
  /\ IF UnitActive(job.entry.id) THEN Skip
     ELSE /\ job' = [job EXCEPT !.at = "spawn"]
          /\ UNCHANGED <<tasks, due, overage, clock, pending, blocked, target, outside, replay,
                         history, faults, writer>>

Unused == {n \in Iterations : kids[n].status = "unused"}
NextIteration == CHOOSE n \in Unused : \A m \in Unused : n <= m

StartsFresh_bug(entry, seen) == entry.iters >= FRESH_EVERY \/ seen # "completed"

\* resume_from is None: a reset is pending, the chain is long enough, or the
\* anchor has no output to go on from.
StartsFresh(entry, seen) == entry.reset \/ entry.iters >= FRESH_EVERY \/ seen # "completed"

\* The anchor moves to the new iteration and the Spawn event is sent.
SpawnIteration ==
  /\ job.at = "spawn" /\ open
  /\ job.entry.id \in Ids(tasks)
  /\ LET fresh == StartsFresh(job.entry, job.seen)
         p == Position(job.entry.id) IN
     /\ tasks' = [tasks EXCEPT ![p].anchor = NextIteration, ![p].reset = FALSE,
                               ![p].iters = IF fresh THEN 1 ELSE job.entry.iters + 1]
     /\ kids' = [kids EXCEPT ![NextIteration] =
                   [NoKid EXCEPT !.status = "live", !.known = TRUE, !.task = job.entry.id,
                                 !.prompt = job.entry.prompt,
                                 !.resume = IF fresh THEN None ELSE job.entry.anchor]]
  /\ Return
  /\ commit_next(1)
  /\ UNCHANGED <<due, overage, pending, blocked, target, open, replay, history, faults, writer>>

\* The send failed: the entry as it was when the fire began is put back, and
\* the prompt is injected into the session.
SpawnUnsent ==
  /\ job.at = "spawn" /\ ~open
  /\ tasks' = IF job.entry.id \in Ids(tasks)
                THEN [tasks EXCEPT ![Position(job.entry.id)] = job.entry] ELSE tasks
  /\ Return
  /\ commit_next(1)
  /\ UNCHANGED <<due, overage, pending, blocked, target, outside, replay, history, faults, writer>>

(***************************************************************************)
(* The detached task of an iteration that ended with an error.             *)
(***************************************************************************)

Watcher_bug(n) ==
  /\ kids[n].watched
  /\ kids' = [kids EXCEPT ![n].watched = FALSE]
  /\ tasks' = [i \in DOMAIN tasks |->
                 IF tasks[i].id = kids[n].task
                   THEN [tasks[i] EXCEPT !.anchor = None, !.iters = 0] ELSE tasks[i]]
  /\ UNCHANGED <<due, overage, clock, pending, blocked, job, target, open, replay, history, faults, writer>>

Watcher(n) ==
  /\ kids[n].watched
  /\ kids' = [kids EXCEPT ![n].watched = FALSE]
  /\ tasks' = [i \in DOMAIN tasks |->
                 IF tasks[i].anchor = n
                   THEN [tasks[i] EXCEPT !.anchor = None, !.iters = 0] ELSE tasks[i]]
  /\ UNCHANGED <<due, overage, clock, pending, blocked, job, target, open, replay, history, faults, writer>>

-----------------------------------------------------------------------------
(***************************************************************************)
(* The coordinator and the iterations (external).                          *)
(***************************************************************************)

Others == <<sched, open, replay, history, faults, writer>>

IterationEnds(n) ==
  /\ kids[n].status = "live"
  /\ \/ kids' = [kids EXCEPT ![n].status = "completed"]
     \/ \E error \in BOOLEAN :
          kids' = [kids EXCEPT ![n].status = "failed", ![n].watched = error]
  /\ UNCHANGED Others

\* An iteration starts a subagent, which inherits its loop_task_id and may
\* outlive it.
DescendantStarts(n) ==
  /\ kids[n].status = "live" /\ ~kids[n].descendant
  /\ kids' = [kids EXCEPT ![n].descendant = TRUE]
  /\ UNCHANGED Others

DescendantEnds(n) ==
  /\ kids[n].descendant
  /\ kids' = [kids EXCEPT ![n].descendant = FALSE]
  /\ UNCHANGED Others

\* The record of an iteration that has ended is evicted.
IterationForgotten(n) ==
  /\ kids[n].known /\ kids[n].status \in {"completed", "failed"}
  /\ kids' = [kids EXCEPT ![n].known = FALSE]
  /\ UNCHANGED Others

\* The coordinator cancels its children when it goes.  An error result that
\* is already on its way still reaches the watcher.
Orphaned == [n \in Iterations |->
  [kids[n] EXCEPT !.status = IF @ = "live" THEN "failed" ELSE @,
                  !.known = FALSE, !.descendant = FALSE]]

CoordinatorCloses ==
  /\ Wired
  /\ open /\ open' = FALSE
  /\ kids' = Orphaned
  /\ UNCHANGED <<sched, replay, history, faults, writer>>

-----------------------------------------------------------------------------
(***************************************************************************)
(* Start, stop, and what happens around the actor.                         *)
(***************************************************************************)

Startup_bug ==
  /\ job.at = "start"
  /\ Return
  /\ SendCreated(Ids(tasks) \ due)
  /\ UNCHANGED <<tasks, due, overage, clock, pending, blocked, target, outside, history, faults, writer>>

\* announce_existing_tasks, after the wait for the subagent wiring.
Startup ==
  /\ job.at = "start"
  /\ Return
  /\ SendCreated(Ids(tasks) \cap (Recurring \cup (Tasks \ due)))
  /\ UNCHANGED <<tasks, due, overage, clock, pending, blocked, target, outside, history, faults, writer>>

\* The toolset is dropped: whatever await the actor stands at ends, the loop
\* breaks, and every task left gets a tombstone nobody waits for.
Shutdown ==
  /\ Budget
  /\ job.at # "stopped"
  /\ job' = [NoJob EXCEPT !.at = "stopped"]
  /\ DropReceipt
  /\ \/ SendRemoved(Ids(tasks))
     \/ job.at = "publish" /\ SendRemoved(Ids(tasks) \cup {job.entry.id})
  /\ IF tasks = <<>> THEN UNCHANGED clock ELSE commit_next(Len(tasks))
  /\ UNCHANGED <<tasks, due, overage, pending, blocked, target, outside, history>>

ProcessDies ==
  /\ Budget
  /\ job' = [NoJob EXCEPT !.at = "stopped"]
  /\ KillWriter
  /\ log' \in logDisk
  /\ UNCHANGED <<tasks, due, overage, clock, pending, blocked, target, outside, logDisk, history>>

PowerLoss ==
  /\ Budget
  /\ job' = [NoJob EXCEPT !.at = "stopped"]
  /\ PowerOff
  /\ log' \in logDisk /\ logDisk' = {log'}
  /\ UNCHANGED <<tasks, due, overage, clock, pending, blocked, target, outside, history>>

\* A toolset is built for the session: load, a new clock, a new actor.
Restart ==
  /\ job.at = "stopped"
  /\ chan = <<>> /\ waiting = Nothing
  /\ tasks' = file
  /\ clock' = <<1 - clock[1], 0>>
  /\ pending' = NoRemoval /\ blocked' = {} /\ target' = TRUE
  /\ job' = [NoJob EXCEPT !.at = "start"]
  /\ kids' = [n \in Iterations |-> [Orphaned[n] EXCEPT !.watched = FALSE]] /\ open' = TRUE
  /\ UNCHANGED <<due, overage, replay, history, faults, writer>>

\* Any other tool call ends with a save of the shared resources.
ToolSave ==
  /\ job.at # "stopped"
  /\ Save(tasks)
  /\ UNCHANGED <<sched, outside, replay, history, faults>>

ComesDue(t) ==
  /\ t \in Ids(tasks) \ due
  /\ due' = due \cup {t}
  /\ UNCHANGED <<tasks, overage, clock, pending, blocked, job, target, outside, replay, history, faults, writer>>

Expires(t) ==
  /\ t \in (Recurring \cap Ids(tasks)) \ overage
  /\ overage' = overage \cup {t}
  /\ UNCHANGED <<tasks, due, clock, pending, blocked, job, target, outside, replay, history, faults, writer>>

\* The bridge is gone: its channel is closed for good.
TargetCloses ==
  /\ Budget
  /\ target /\ target' = FALSE
  /\ UNCHANGED <<tasks, due, overage, clock, pending, blocked, job, outside, replay, history, writer>>

WriterStep ==
  /\ \/ Writer /\ UNCHANGED faults
     \/ WriterFails /\ Budget
  /\ UNCHANGED <<sched, outside, replay, history>>

-----------------------------------------------------------------------------

Command(t) == Create(t) \/ Update(t) \/ Delete(t)

Fire(t) ==
  \/ ExpireDurable(t) \/ ExpirePlain(t)
  \/ FireOneShot(t) \/ FireForeground(t) \/ (Unused # {} /\ FireLoop(t))

\* The handler goes on with an answer of the writer, the bridge or the coordinator.
Answered == Persisted \/ NotPersisted \/ Published \/ GuardQuery \/ GuardUnit

\* The handler goes on by itself: there is nothing to wait for, or no longer.
Alone ==
  \/ Startup \/ SpawnIteration \/ SpawnUnsent
  \/ PersistTimeout \/ NotPublished \/ GuardUnanswered

Coordinator(n) ==
  IterationEnds(n) \/ DescendantStarts(n) \/ DescendantEnds(n) \/ IterationForgotten(n)

Next ==
  \/ \E t \in Tasks : Command(t) \/ Fire(t) \/ ComesDue(t) \/ Expires(t)
  \/ RetryDelete
  \/ Answered \/ Alone
  \/ \E n \in Iterations : Watcher(n) \/ Coordinator(n)
  \/ WriterStep \/ ToolSave
  \/ TargetCloses \/ CoordinatorCloses
  \/ Shutdown \/ ProcessDies \/ PowerLoss \/ Restart

Spec == Init /\ [][Next]_vars

\* The actor's task runs on and its deadlines strike.  Nothing is asked of the
\* writer, the log, the coordinator or the callers.
FairSpec == Spec /\ WF_vars(Alone)

-----------------------------------------------------------------------------
(***************************************************************************)
(* Properties.                                                             *)
(***************************************************************************)

\* Type correctness: a list never holds a task twice, and is never too long.
TypeOK ==
  /\ \A l \in disk \cup {tasks, file} :
       /\ Len(l) <= MAX_SCHEDULED_TASKS
       /\ \A i \in DOMAIN l : l[i] \in Entry /\ \A j \in DOMAIN l : l[i].id = l[j].id => i = j
  /\ due \subseteq Tasks /\ overage \subseteq Recurring /\ blocked \subseteq Tasks
  /\ clock \in {0, 1} \X (0..MaxRevision)
  /\ pending = NoRemoval \/ pending.id \in Tasks
  /\ kids \in [Iterations -> Kid]
  /\ log \in logDisk /\ logDisk \subseteq SUBSET Tasks
  /\ file \in disk

\* A task whose Delete was answered Ok(true) is gone for good: it is in no
\* list the actor works on, in no file or log that a crash or a power loss may
\* bring back, and in no snapshot still on its way to the file.  The two
\* barriers of complete_pending_removal are for this.
DeletedStaysDeleted ==
  \A t \in deleted :
    /\ t \notin Ids(tasks)
    /\ \A l \in disk : t \notin Ids(l)
    /\ \A i \in DOMAIN chan : t \notin Ids(chan[i].snapshot)
    /\ waiting # Nothing => t \notin Ids(waiting)
    /\ \A shown \in logDisk : t \notin shown

\* A reservation held across an await is still good when it is committed: the
\* assertion "stale scheduler reservation" of commit_next cannot fail.
ReservationFresh ==
  /\ (job.at # "stopped" /\ pending # NoRemoval) => pending.source = clock
  /\ job.at \notin {"start", "loop", "stopped"} => job.source = clock

\* While the actor waits for commands, every task on its list is one a client
\* knows of, but for a one-shot that was overdue when the list was loaded.
ScheduledAreShown ==
  job.at = "loop" => Ids(tasks) \cap Recurring \subseteq log

\* Two iterations of a loop task never run at the same time, and an iteration
\* never runs beside what is left of an earlier one that completed: the
\* in-flight guard of fire_as_loop_subagent.
IterationsDisjoint ==
  \A m, n \in Iterations :
    (m # n /\ kids[n].status = "live" /\ kids[m].task = kids[n].task) =>
      kids[m].status # "live" /\ (kids[m].descendant => kids[m].status = "failed")

\* Every handler comes back to the loop although the writer, the log and the
\* coordinator may all hang: the awaits inside handle_command and
\* fire_next_task are bounded, so a command is answered and the timer goes on.
HandlersReturn == (job.at \notin {"loop", "stopped"}) ~> (job.at \in {"loop", "stopped"})

\* descendant_still_running_skips_fire, as the test of that name has it: no
\* iteration starts while a subagent of an earlier one is running.
DescendantSkipsFire ==
  \A m, n \in Iterations :
    (m # n /\ kids[n].status = "live" /\ kids[m].task = kids[n].task) => ~kids[m].descendant

\* A transcript is only ever resumed under the prompt it was made with.
ResumesOwnPrompt ==
  \A n \in Iterations : kids[n].resume # None => kids[kids[n].resume].prompt = kids[n].prompt

=============================================================================
