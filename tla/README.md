# Formal models of Grok Build (Legion edition)

TLA+ models of the concurrent and crash-sensitive parts of this repository, the
TLC configurations that check them on small instances, and theorems about them
that TLAPS proves for every value of the constants. `PROJECT.json` lists the
components, the runs, the source lines each definition stands for, the hazards
and the findings.

    tlc -workers 2 -config MCSubagentDelivery.cfg MCSubagentCoordinator
    tlapm SubagentCoordinatorProofs.tla

## 1. The system

Grok Build is a coding agent written in Rust: a terminal user interface, a shell
process that runs sessions (a session alternates sampling a model and running the
tools it asks for), and libraries for tools, storage, workflows and remote
workspaces. Almost all of it is asynchronous; most long-lived state belongs to an
actor (a task with a mailbox), and the rest sits behind locks or atomics, or in
files shared by processes.

Paths below are under `src/crates/`.

| Component | State | Operations | Talks to |
|---|---|---|---|
| Subagent coordinator (`codegen/xai-grok-tools/.../task/coordinator*`) | pending, active and completed children, eviction order, waiters, progress futures, buffered completions | spawn, query, inspect, list, cancel, kill, cancel by parent / loop / workflow, completions, turn state, deadlines | parents and tools by commands with oneshot replies; runners by an internal channel and their run future |
| Subagent callers (`task/backend.rs`, `task/mod.rs`) | a reply receiver, a drop guard | await a result, give up, forward a cancellation | the coordinator |
| Child runner (`xai-grok-shell/src/agent/subagent`) | one child session | initialize, report Started, wait for promotion, run | the coordinator |
| Circuit breaker (`common/xai-circuit-breaker`) | state, trip time, probe count, probe claim, mirror, all atomics; a sliding window under a mutex | check, record, error_rate | storage client, upload queue |
| Upload queue, storage client (`xai-file-utils`) | queue of files on disk, workers | enqueue, upload, retry | breaker |
| Session relocation (`xai-grok-shell/src/session/storage/relocation`) | source, staging and target directories, a journal with a phase, a lease | stage and publish, mark ready and commit, roll back, recover all | session listing, the relocation view |
| Relocation view (`relocation/view.rs`) | journals and directories as one load found them | load, list sessions, find a session | reads what a relocation writes, without a lease |
| Scheduler (`grok_build/scheduler`) | the list of tasks, a version clock, a removal in progress, blocked expiries | create, update, delete, list, fire, expire, start an iteration of a loop, shut down | the resources' writer, the session's update log (through the notification bridge), the coordinator |
| Resources persistence (`xai-grok-tools/src/persistence.rs`) | a channel, a debounced snapshot, the file | save, save and flush | every tool call, the scheduler |
| Workflow engine (`xai-workflow`) | journal of agent calls, script | start, replay, cancel | the coordinator |
| Session turn loop, prompt queue, interjection buffer (`xai-grok-shell/src/session`, `xai-prompt-queue`, `xai-interjection-core`) | queue, running turn, cancellation | enqueue, combine, start, end, interrupt | sampler, chat state, coordinator |
| Chat state (`xai-chat-state`) | conversation | append, truncate, compact | turn loop, storage |
| Sampler (`xai-grok-sampler`) | attempts, budget | sample, retry, stop a doom loop | network |
| Leader (`xai-grok-shell/src/leader`) | lock file, socket | elect, hand over | other processes |
| Auth (`xai-grok-auth`) | token | refresh once for many requests | sampler, hub |
| Computer hub SDK (`xai-computer-hub-sdk`) | pending calls, pooled connections | call, demultiplex, reconnect | remote workspace |

The remaining crates (user interface, rendering, telemetry, configuration, hooks,
memory, worktrees, sandbox policies, protocol types, vendored code) are input and
output, parsing or data transformation. They are listed in `PROJECT.json` with
the reason why they have no model.

### What is hard here

* **Coordinator.** Every oneshot receiver can be dropped at any moment; a kill can
  cross the promotion of the child it aims at; a foreground budget, the caller's
  disappearance and the child's end can fall together; progress is read outside
  the actor and is stale when it returns; the host may drop the actor's future.
  Correct means: nobody who still waits is forgotten; a result is surfaced to the
  parent exactly when nobody else saw it; a kill reaches the runtime; an
  acknowledged workflow cancel means the run is quiet; no child outlives the actor
  uncancelled; the maps and the eviction order agree.
* **Breaker.** A state machine spread over five atomics that are not written
  together. Correct means: no more probes than slots, the mirror agrees with the
  state, the failure count is exact, and the breaker cannot refuse for ever.
* **Relocation.** Moving a session between directories under I/O errors, process
  deaths and power losses. Correct means: at every instant a power loss leaves a
  whole session where the journal points, a reported proof stays true, nothing is
  left behind, and recovery ends.
* **Relocation view.** A reader that takes no lease lists journals, reads them and
  lists directories while all this happens. Correct means: it returns only a copy
  that counted during its load, and errs only because the disk changed under it.
* **Scheduler.** One actor that waits inside its handlers for three others (the
  writer, the update log, the coordinator), each of which may fail, hang or answer
  late, while a detached task edits the list it works on. Correct means: a deletion
  that was confirmed is never undone by a crash, a late save or a replay of the
  log; a version reserved before an await is still good after it; iterations of a
  loop do not overlap and resume only their own transcripts; every handler returns.
* **Not modelled yet.** Replay of a workflow journal written up to a crash; leader
  hand-over; many requests refreshing one token; replies and reconnects in the hub
  client; prompts across a cancelled turn.

## 2. The modules

| Module | Role |
|---|---|
| `SubagentCoordinator` | the coordinator actor, its callers and its child runners |
| `SubagentLifecycle` | abstract: what the coordinator promises about a child's life and its result |
| `SubagentRefinement` | the refinement mapping from the first to the second |
| `SubagentCoordinatorProofs`, `SubagentRefinementProofs`, `SubagentAskerProofs` | theorems about them; each extends the one before |
| `MCSubagentCoordinator`, `MCSubagent*.cfg` | request sets and instances for TLC |
| `CircuitBreaker`, `CircuitBreakerProofs`, `MCCircuitBreaker`, `MCBreaker*.cfg` | the breaker at the granularity of one atomic access |
| `SessionRelocation`, `SessionRelocationProofs` | one relocation, its faults and its recovery |
| `RelocationView`, `RelocationViewProofs` | a reader of session storage composed with the relocation (extends `SessionRelocation`) |
| `MCRelocationView`, `MCSessionRelocation`, `MCRelocation*.cfg` | instances of the two |
| `ResourcesPersistence` | the writer of the resources file, with its failures |
| `Scheduler`, `SchedulerProofs`, `SchedulerTaskProofs` | the scheduler actor composed with that writer (extends it), the update log and the coordinator's iterations |
| `MCScheduler`, `MCScheduler*.cfg` | instances of it |

A definition whose name ends in `_bug` is a plausible mistake in the definition
after it. No specification uses it; it serves to confirm that a property notices.

### SubagentCoordinator

The variables are the fields of the actor and of its per-child records. The keys
of the three maps are sets (`pending`, `active`, `completed`); flags of a child
(`cancelled`, `killed`, `handleOnly`, `deadline`, `spawnReply`, ...) are sets of
ids. `caller[i]` and `inbox[c]` are the two kinds of oneshot channel: the spawn
caller's receiver and the receiver of an asker with one question in flight. A
send to a dropped receiver is lost, and the code's branches on `send(..).is_ok()`
are kept.

One branch of the `select!` in `run()` is one action: each command handler with
the reap of abandoned callers before it and everything it calls; the two internal
events; the end of a run future (`FinishChild`, with its panic path); the
progress, list and lookup futures; the timer (`ProcessDeadlines`); the exit and
the drop of the actor. The `select!` is biased; the model lets any enabled branch
go next, which includes every order the bias allows. `ResumeSource` reads the
registry and changes nothing, so it is no action.

Time is abstract: a deadline is armed or not, and the timer chooses which armed
ones have passed. A terminal status is `ended` (completed or failed, which the
coordinator treats alike) or `cancelled`. Texts, token counts, tool counters and
the contents of results are left out. What the shell's runner does is modelled as
far as the coordinator sees it: initialize, report `Started`, be promoted or
refused, end.

### SubagentLifecycle and SubagentRefinement

The abstract specification knows children that are live or settled, callers that
listen, parents that are owed a result, kills, and who has been told. A child is
begun (`Begin`), its caller may stop listening (`LetGo`), it may be killed, and it
settles once; `Settle` tells the result to exactly the audience `Told` computes
from the state before. Telling is never repeated or taken back; when the
coordinator goes, nobody is told any more. An id that was forgotten may be begun
again, with an empty audience.

`SubagentRefinement` reads this off the coordinator: `live` is the registry's
pending and active children while the actor runs, `waiting` the children whose
spawn receiver is open, `told` what the receiver, the waiters and the surfacing
flag say. Promotion, backgrounding, deadlines, queries, progress and the buffer are
stutters or `LetGo`. The abstract decision is written without `handle_only`,
`foreground_delivered` and the reap of abandoned callers, the three places where
the code keeps that knowledge, so that a mistake in any of them shows.

### CircuitBreaker

`breaker` holds the five atomics, `window` the mutex-protected window, `thread`
the position and the locals of each caller. Every load, store, compare-exchange,
`fetch_add`, `fetch_sub` and clock read is a step of its own; a critical section
of the mutex is one step. The probe counter keeps the wrap of `usize`
(`UsizeModulus`), since `fetch_sub` can cross a reset. A request that was let
through may record a success or a failure at any later time, or vanish
(`Abandon`). The disabled breaker, observers, `retry_after` and the test hook
`force_half_open` are left out: none writes the modelled state, or only in tests.
Memory is sequentially consistent; the code's weaker orderings could only add
behaviours.

### SessionRelocation

The lease makes every procedure exclusive, so one `pc` is enough. For the journal
directory and the parents of source and target the model keeps what a process
sees and the set of contents a power loss may reveal: a change adds to the set, a
directory sync reduces it to what is visible. A rename is atomic; `remove_dir_all`
may be interrupted, leaving a directory with (`gutted`) or without (`headless`)
its summary. The copy syncs its files and directories as it goes, so it is durable
at `CopyEnds`. Any call may fail, the process may die and the power may go
between any two steps. The error paths (undo a failed write of `Staged`,
`RecoveryRequired`, `recover_all` stopping at an error) are the code's.

`stage_and_publish` and `mark_ready_and_commit` have no caller outside the module
and its tests at this commit; `recover_all` does (`session/persistence.rs`
2733-2740). The model takes all of them as the interface they are, and lets a
caller that got `RecoveryRequired` repeat a commit only when the journal already
points at the target. One relocation is modelled; a second one of the same
session starts from the state `NoLitter` describes.

### RelocationView

`RelocationView` extends `SessionRelocation` with one reader. A load is the steps
`LoadBegins` (the journals are listed), `ReadJournal`, `ListCwdDir` and
`LookForSummary` for each cwd in any order; `FindSessionDir` and `SessionDirs` then
answer from what was read, except that the chosen directory's summary is read again
(`Validates`). Between any two steps the relocation may move, fail, die and be
recovered by another process. A power loss ends the reader as well. `changed` and
`counted` are history variables: whether the disk changed since the load began, and
which copies counted meanwhile.

The header of `view.rs` calls it a point-in-time view. It is not one in the literal
sense: a relocation that ends between the two listings makes a load fail or find no
session. What holds instead is that a directory it does return counted at some
moment of the load (`ViewIsRegular`), and that without a concurrent change the answer
is exact after any history of crashes (`QuietViewIsExact`).

The cleanup of stale sessions (`session/persistence.rs`), which deletes directories
by age and asks `protects_cwd_dir` first, is not modelled: it depends on file ages
and on sessions outside any relocation.

### ResourcesPersistence and Scheduler

`ResourcesPersistence` is the writer: a channel, the snapshot waiting for the
debounce tick, the file as a process reads it and the set of contents a power loss
may reveal. A debounced write is renamed without a sync, so a power loss may also
reveal an unreadable file, which loads as an empty list; a flush is durable, or fails
before or after its rename.

`Scheduler` has the actor's fields as variables. The actor handles one command or
timer at a time, but its handlers await: `job.at` is the await it stands at
(`persist`, `publish`, `query`, `unit`, `spawn`), `job.entry`, `job.index` and
`job.source` the locals that live across it. Everything else may happen
meanwhile: saves of other tool calls, the writer, watchers, the coordinator, faults.
Each await ends by its answer (`Answered`) or by itself (`Alone`: deadlines, closed
channels). `Shutdown` ends whatever await there is, as the cancellation token does.

Times are the sets `due` and `overage`. Versions are a generation and a revision
below `MaxRevision`. `log` is what a replay of the session's updates shows, `logDisk`
the set of what it may show after a death: ordinary updates land in order or are
lost with the process, an acknowledged tombstone is durable together with what
was appended before it (what `append_update_durably` promises its caller). A toolset
is built again (`Restart`) only after the old one's writer has drained; the code does
not wait for that when it rebuilds a toolset in one process.

The iterations of a loop (`kids`) stand for children of the coordinator, external to
this module: an iteration may start a subagent that inherits its `loop_task_id` and
outlives it. The branch "task deleted mid-fire" cannot be taken: only the actor
removes tasks, and it is in the handler. `occurrence_journal.rs` is reached by its
own tests only, so nothing of it is modelled.

## 3. The runs

| Run | Instance | States | What it shows |
|---|---|---|---|
| `subagent_delivery` | 2 task children, 1 asker, symmetric ids | 828k | nobody forgotten, surfacing, kills, drop of the actor, turn state, stale progress |
| `subagent_workflow` | 2 children of one run, 2 sessions, nested requests | 393k | workflow cancels, normal exit, rooting of nested children |
| `subagent_eviction` | 3 ids, caps of 1 | 538k | maps, eviction order and caps while ids are evicted and reused; the abstract lifecycle |
| `subagent_liveness` | 1 child of any kind, 1 asker, fairness | 12k | questions answered, callers released, cancels acknowledged; turn state and lifecycle for every kind of request |
| `breaker` | 2 threads, 2-entry window, 3 instants, fairness | 537k | failure count, end of shedding |
| `breaker_mirror`, `breaker_race` | 2 threads | - | findings, below |
| `relocation` | 4 faults, 1 reader, fairness | 480k | durability, finality, no litter, recovery; the reader's answers |
| `relocation_stuck` | 1 fault, fairness | - | finding, below |
| `scheduler_removal` | a durable and a one-shot task, 2 faults | 2.4M | confirmed deletions, reservations, announcements |
| `scheduler_loop` | a loop task, 3 iterations, 1 prompt change, fairness | 607k | disjoint iterations, transcripts, handlers that return |
| `scheduler_overlap` | a loop task, 2 iterations | - | finding, below |

**Bounds.** The coordinator's handlers look at one child, at all children of a
scope, or at the oldest completed one: two ids show one child overtaking another,
three with caps of one show eviction and reuse. One asker per child is enough to
race with its caller; the handlers treat askers independently. In the breaker the
races need one thread between two writes of `trip()` or `claim_probe()` and one
that reads in between: two threads; an instant before, at and after the end of a
cool-down: a clock of three values. `UsizeModulus = 4` exceeds what two threads
can reach without wrapping. In the relocation four faults allow a crash in the
procedure, one in its recovery, one in the recovery of that and an I/O error; the
theorems have no such bound. In the scheduler two tasks give a list with an order
and a removal beside a survivor; two faults allow a failed or lost write and then a
death or power loss; one command may be in the writer's channel besides the flush.
Three iterations are a running one, the one its anchor came from and one more, with
`FRESH_EVERY = 2` so that a chain is both resumed and restarted; `MaxRevision` is
as small as the largest transition, so that versions roll over all the time.

**Deadlock** is checked except for the relocation, where a committed session is
final, and the scheduler, where the bounds on ids, iterations and faults run out:
nothing more need happen there. A stopped actor stutters explicitly
(`Terminated`).

**Fairness.** Coordinator: the actor polls its branches, a cancelled child ends
(the shell's runner selects on its token), progress futures return, and due
deadlines are served. The last needs the mailbox to be empty again and again,
since the timer is the last branch of a biased `select!`; a client that never
stops sending would starve it. Of a child that is not cancelled nothing is
assumed: it may run for ever, and the liveness properties hold all the same. The
liveness instance has one root session: a workflow cancel is scoped to a session
and waits for the run's children of every session, so it is acknowledged because
a run is launched, and cancelled, by one top-level session only (the workflow
tool refuses to launch from a child).
Breaker: time passes, threads are scheduled, and a refused caller asks again (the
upload queue's retries); a request may take for ever. The clock is bounded, so
`SheddingEnds` asks for its conclusion only where a whole cool-down fits.
Relocation: a process inside a procedure goes on, and `recover_all` is called
again and again (each listing calls it); faults are finitely many. Of the reader
nothing is assumed.
Scheduler: the actor's task is scheduled and its own deadlines strike (`WF` of
`Alone`, the ends of an await that need nobody else). The writer, the log and the
coordinator may all stay silent for ever.

### Findings

* **Two probes for one slot** (`breaker_race`). A winner counts its slot before it
  stamps its claim. A second caller in between sees no slot and an old claim,
  judges the probe abandoned and takes it over. The test for this race asserts
  exactly one.
* **A mirror that stays up** (`breaker_mirror`). `trip()` publishes `Open` before
  the time it opened and before the mirror. A caller in between measures the
  cool-down from the previous trip, moves on to `HalfOpen` and lowers the mirror;
  the late store raises it again. For the same reason the remark "It is already 0"
  in `check_open`, about the probe counter, does not always hold: that caller comes
  before the reset in `trip()`.
* **A rollback that never ends** (`relocation_stuck`). An interrupted removal of a
  published target may leave a directory without its summary, which fails
  validation before anything is removed, on every later attempt; `recover_all` and
  the session listing then fail each time. `RecoveryConvergesUnlessHeadless` shows
  it is the only such case.

* **A loop that overlaps** (`scheduler_overlap`). The changelog says that iterations
  of a background loop no longer overlap while descendant subagents are running. When
  an iteration ends with an error and a subagent it started runs on, the detached
  watcher clears the anchor; the next fire asks about descendants only if there is an
  anchor, and starts beside it. `IterationsDisjoint` shows how far
  the guard does hold: iterations themselves never overlap, nor does one overlap with
  what is left of an iteration that completed.

## 4. The proofs

`SubagentCoordinatorProofs` (`TypeCorrect`, `RegistryCorrect`, `KillCorrect`,
`SurfacingCorrect`, `NoOrphans`) holds for any ids, sessions, requests, clients
and caps, from the assumptions that requests are well typed, usage scopes are
pairs of a session and a prompt, caps are positive and the sentinels are distinct
from what they stand in for.

The invariant is `Inv == TypeOK /\ CoreInv /\ OrderInv`. `CoreInv` has five parts:
`Partition` (the maps are disjoint and a running actor's run futures are its live
children), `RunnerInv` (where the runner stands, by map), `LiveInv` (what the
flags of a live child allow: it is not surfaced, nobody has its result, and one
that is handle-only holds a reply sender only if it was spawned in the background),
`SurfacedIffUnseen` and `StoppedLeavesNoOrphan`. The properties are not inductive
alone: whether a result counts as seen when a child finishes depends on what
`caller` and `waiterDelivered` could be while it was live, and a kill crossing a
promotion is settled by `RunnerInv`. `OrderInv` says that `completedOrder` lists
`completed` without repetition; it is separate since only the end of a child and
a spawn disturb it. There is one lemma per action.

`SessionRelocationProofs` (`TypeCorrect`, `PowerLossCorrect`, `VerdictCorrect`,
`NoLitterCorrect`) holds for any number of faults. `SurvivesPowerLoss` speaks of
all mixtures of old and new contents and is not inductive: whether the next write
is safe depends on how far the procedure has come. The invariant adds, for each
procedure, what is on disk at each of its steps: `DiskInv` (which phases go with
which directories), `StageInv`, `CommitInv`, `RollbackInv`, `WriteInv` and
`VerdictIsFinal`. It was checked with TLC before it was proved.

`SubagentRefinementProofs` proves `LifecycleImplemented`, `Spec =>
ImplementsLifecycle`, from the invariant above. Each action of the coordinator is
reduced to the few facts the mapping depends on (`StepCases`), and each kind of step
to one abstract action: `QuietStep` and `FlagsStep` are stutters or kills,
`DropStep` and `DeadlineStep` are `LetGo`, `SpawnStep` is `Begin`, `SettleStep` is
`Settle` with the children the cap forgets (`RememberKeepsNewest`: never the one that
has just settled), `StopStep` is `Stop`. The invariant is needed for `Settle` (what a
live child's flags can be decides who is told) and for `Begin` (a forgotten id is
begun with an empty audience). A second invariant, `CallerInv`
(`CallerStep`), says that a caller which still waits can be reached: its child is live and
holds its reply sender.

`SubagentAskerProofs` proves what the coordinator owes those who wait on it:
`NobodyForgottenCorrect`, `ExitCorrect`, `RunningIsFresh`, `CancelAckCorrect`,
`OutstandingCorrect`, and besides `CapsCorrect` and `NestingCorrect`.
`NobodyForgotten` is not inductive: it allows an asker to be parked in two places,
of which the one that is answered leaves a stale entry in the other, or in a place that
does not serve its question. `AskerInv` gives every asker exactly one `Seat`
(a child, a progress future, the slots of a list, a lookup, a workflow run), of the
kind its open question needs, or none once it is answered; `listRemaining` is the
number of slots still to come, so a list reply is sent with the last one.
`ForegroundInv` says what the flags of a child look like whose caller blocks a turn,
which `OutstandingIsExact` rests on; `CapInv` ties the number that the eviction loop
counts to the length of `completed_order`; `BufferInv` bounds the buffer through
`Retain`, the filter `Completions` drains with.
`NestingCorrect` has a hypothesis besides `Spec`, `IdsAreFresh`: a spawn never names
an id that was used before. The code gets it from UUID v7 ids and does not check
it; the coordinator refuses only the ids it still remembers. Without it an evicted
id may come back as an active child while a late spawn of its former child is
rooted at it. Every other theorem allows reuse.

`RelocationViewProofs` proves `QuietViewCorrect`, `ViewRegularCorrect`,
`TargetStableCorrect` and `ReaderIsHarmless` (`ViewSpec => Spec`, so that the theorems
about the relocation hold beside a reader). The three properties are about a
finished load. The invariant adds what the notes of an unfinished one mean:
`LoadInv` (the copy that counts now has been counted, and while the target has not
counted the source will still be found), `TargetInv` (after a journal with target
authority was read, the target has won for good), `QuietInv` (the notes agree with an
unchanged disk). They rest on two facts about the relocation, proved from its
own invariant: the copy that counts is whole (`AuthorityIsWhole`), and a source that
has been superseded never returns (`SourceNeverReturns`, `TargetWinsForGood`).

`SchedulerProofs` proves `ReservationCorrect`, `Spec => []ReservationFresh`, for any
tasks, bounds and faults. `ReservationFresh` alone is not inductive: a handler that
fires or expires a task holds a reservation across its awaits, and so does a pending
removal. `HandlerInv` says that they exclude each other, since such a handler
starts and stays with no removal pending, and that the handler of a Delete
commits the very reservation that is pending.

`SchedulerTaskProofs` proves the rest of the scheduler's safety from one invariant
(`InvHolds`): `SchedulerTypeCorrect`, `DeletedCorrect`, `ShownCorrect`,
`IterationsCorrect`, `ResumeCorrect`. A list may come back from the file after a
crash, and an entry from the handler that took it off, both older than the
iterations that have run since; so what is true of a task must be true of every copy
of it (`ListInv` over the list, the channel, the waiting snapshot, the file and the
disk; `JobInv` over the handler's entry): its count and its anchor name iterations
that have been used, and unless a reset is pending its anchor was made with its
prompt. `FlushInv` carries a deletion through the writer: from the flush whose
receipt the handler awaits, every command in the channel lacks the task, so when the
receipt is good no copy is left. `GoneInv` is `DeletedStaysDeleted` for all copies. `LoopInv`
says that a task's earlier iterations are over except the one its anchor names, and
that the guard has settled that one too before a spawn; `IterationsDisjoint`
follows although the guard asks the coordinator at two awaits. The bounds of the
assumptions are the code's: the cap on tasks is at most the number of revisions in a
generation, as the clock's transitions need.

`CircuitBreakerProofs` proves `BreakerTypeCorrect` and `WindowCorrect` for any number
of threads, any window, thresholds and clock. `WindowOK` is what each critical section
keeps; the work is in the lemmas about sets of indices: failures of a sequence are those of
its front and of its rest (`FailuresSplit`), so dropping the front subtracts exactly
what the code subtracts (`DropFrontOK`, `EvictOK`), and a push adds one or nothing
(`PushOK`). In particular `failures -= 1` cannot underflow. The atomics
contribute only their types: any value another thread may leave there is allowed.

**What is left to TLC.** Every invariant and every action property of a passing run is
proved. TLC alone checks the liveness properties (`QuestionsAnswered`,
`ForegroundReleased`, `WorkflowCancelAcknowledged`, `SheddingEnds`,
`RecoveryConvergesUnlessHeadless`, `HandlersReturn`), since fairness and `ENABLED` are
beyond the prover, and finds the counterexamples of the four findings. No induction
over data is used: the model has no recursive operator, and where a proof needs a
first element (the least unused iteration, the first entry young enough to stay) it
takes the minimum of a set of naturals (`LeastExists`, `LeastIndex`).

## 5. What comes next

1. The safety halves of the liveness arguments as invariants: for each await of a
   scheduler handler and each step of a recovery, a measure that no step raises.
2. Workflow journal: replay after a crash yields the calls already made, in order.
3. Turn loop with prompt queue and interjection buffer: no prompt lost or sent
   twice across cancellation.
4. Leader lock and hand-over; shared token refresh; hub demultiplexer and pool;
   upload queue behind the breaker.
5. The cleanup of stale sessions beside a relocation.

Not planned: crates that are input and output, rendering, parsing or text
transformation, and vendored code (see `PROJECT.json`).
