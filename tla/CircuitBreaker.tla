--------------------------- MODULE CircuitBreaker ---------------------------
(***************************************************************************)
(* The circuit breaker of xai-circuit-breaker, one handle shared by many   *)
(* threads.  The breaker holds no lock around its state machine: `state`,  *)
(* `opened_at_millis`, `half_open_probes`, `probe_claimed_at_millis` and   *)
(* `is_open_fast` are separate atomics, so every load, store, fetch_add,   *)
(* compare_exchange and clock reading is a step of its own here and the    *)
(* threads interleave between any two of them.  Only the sliding window    *)
(* sits behind a mutex; a critical section is one step.                    *)
(*                                                                         *)
(* A thread is a caller of StorageClient: check(), then a request that     *)
(* ends in record(Success), record(Failure) or in no record() at all (a    *)
(* 403, a 404, a transport error, a dropped future), then check() again.   *)
(*                                                                         *)
(* Time is a counter that stops at MaxTime.  `half_open_probes` is a       *)
(* usize and wraps; UsizeModulus stands for 2^64.  Observer callbacks and  *)
(* the retry_after values are left out.  `enabled` is TRUE.                *)
(* Definitions whose names end in _bug are faulty variants of the          *)
(* definition that follows them; nothing uses them but mutation runs.      *)
(***************************************************************************)
EXTENDS Naturals, Sequences, FiniteSets

CONSTANTS
  Threads,          \* concurrent callers of one breaker
  OpenDuration,     \* config.open_duration: the cool-down and the probe lease
  WindowDuration,   \* config.window_duration
  MinSamples,       \* config.min_samples
  ThresholdNum,     \* config.error_rate_threshold, as the fraction
  ThresholdDen,     \*   ThresholdNum / ThresholdDen
  MaxProbes,        \* config.half_open_max_probes
  MaxEntries,       \* MAX_WINDOW_ENTRIES
  UsizeModulus,     \* 2^64 in the build
  MaxTime           \* bound on the model's clock

ASSUME BreakerAssumption ==
  /\ OpenDuration \in Nat /\ WindowDuration \in Nat /\ MaxTime \in Nat
  /\ MinSamples \in Nat /\ ThresholdNum \in Nat /\ ThresholdDen \in Nat \ {0}
  /\ MaxProbes \in Nat \ {0} /\ MaxEntries \in Nat \ {0}
  /\ UsizeModulus \in Nat /\ MaxProbes < UsizeModulus

VARIABLES
  clock,    \* elapsed_millis(): the offset of now from `baseline`
  breaker,  \* the five atomics, one field each
  window,   \* the SlidingWindow: its entries, oldest first, and its count
  thread    \* of each thread: where it is, and its locals

vars == <<clock, breaker, window, thread>>

\* Inside check(), before it has answered.
CheckSteps == {"opened", "elapsed", "cas", "unfast", "lost", "probe", "claim",
               "unclaim", "lease", "takeover", "stamp"}

\* Inside record().
RecordSteps == {"observe", "sample", "sampleOpen", "trip", "tripClock",
                "tripOpened", "tripProbes", "tripFast", "close", "clear",
                "closeProbes", "closeFast"}

\* Between the two: a request let through by a closed breaker, or a probe.
Admitted == {"request", "probing"}

Time == 0..MaxTime

BreakerType ==
  [state : {"Closed", "Open", "HalfOpen"}, openedAt : Time, claimedAt : Time,
   probes : 0..(UsizeModulus - 1), fast : BOOLEAN]

\* now and seen: the last clock reading, and the last load of openedAt or
\* claimedAt.  failed: the outcome being recorded.
ThreadType ==
  [pc : {"idle"} \cup CheckSteps \cup Admitted \cup RecordSteps,
   now : Time, seen : Time, failed : BOOLEAN]

Fresh == [pc |-> "idle", now |-> 0, seen |-> 0, failed |-> FALSE]

Init ==
  /\ clock = 0
  /\ breaker = [state |-> "Closed", openedAt |-> 0, claimedAt |-> 0,
                probes |-> 0, fast |-> FALSE]
  /\ window = [entries |-> <<>>, failures |-> 0]
  /\ thread = [t \in Threads |-> Fresh]

\* One second more on the monotonic clock.
Tick ==
  /\ clock < MaxTime
  /\ clock' = clock + 1
  /\ UNCHANGED <<breaker, window, thread>>

-----------------------------------------------------------------------------
(***************************************************************************)
(* The shapes of a step of thread t.                                       *)
(***************************************************************************)

At(t, step) == thread[t].pc = step

\* Locals go out of scope where no later step reads them.
NoLocals == {"idle", "cas", "lost", "request", "probing", "trip", "close", "tripProbes"}

Becomes(t, self) ==
  thread' = [thread EXCEPT ![t] =
    IF self.pc \in NoLocals THEN [Fresh EXCEPT !.pc = self.pc] ELSE self]

GoesTo(t, step) == Becomes(t, [thread[t] EXCEPT !.pc = step])

\* It reads, and its locals become `self`.
Reads(t, self) == Becomes(t, self) /\ UNCHANGED <<clock, breaker, window>>

\* It decides where to go, and changes nothing else.
Branches(t, step) == Reads(t, [thread[t] EXCEPT !.pc = step])

\* It writes one atomic, and goes to `step`.
Writes(t, atomics, step) ==
  /\ breaker' = atomics
  /\ GoesTo(t, step)
  /\ UNCHANGED <<clock, window>>

\* It runs a critical section of the window's mutex, and goes to `step`.
Locks(t, w, step) ==
  /\ window' = w
  /\ GoesTo(t, step)
  /\ UNCHANGED <<clock, breaker>>

-----------------------------------------------------------------------------
(***************************************************************************)
(* The sliding window.                                                     *)
(***************************************************************************)

\* How many of a window's entries are failures.
FailuresIn(entries) == Cardinality({i \in 1..Len(entries) : entries[i].failure})

DropFront_bug(w, n) ==
  [entries |-> SubSeq(w.entries, n + 1, Len(w.entries)), failures |-> w.failures]

\* The pop_front loops: n entries leave, and the count follows.
DropFront(w, n) ==
  [entries |-> SubSeq(w.entries, n + 1, Len(w.entries)),
   failures |-> w.failures - FailuresIn(SubSeq(w.entries, 1, n))]

Push_bug(w, failure, at) ==
  LET room == IF Len(w.entries) > MaxEntries THEN DropFront(w, 1) ELSE w
  IN [entries |-> Append(room.entries, [at |-> at, failure |-> failure]),
      failures |-> room.failures + (IF failure THEN 1 ELSE 0)]

\* push: at the cap the oldest entry makes room.
Push(w, failure, at) ==
  LET room == IF Len(w.entries) >= MaxEntries THEN DropFront(w, 1) ELSE w
  IN [entries |-> Append(room.entries, [at |-> at, failure |-> failure]),
      failures |-> room.failures + (IF failure THEN 1 ELSE 0)]

\* evict: entries leave from the front while they are older than the
\* window; the first young one stops the loop, whatever is behind it.
Evict(w, at) ==
  LET young == {i \in 1..Len(w.entries) : w.entries[i].at + WindowDuration >= at}
      old == IF young = {} THEN Len(w.entries)
             ELSE (CHOOSE i \in young : \A j \in young : i <= j) - 1
  IN DropFront(w, old)

\* sample_count() and error_rate() against the trip condition.  An empty
\* window has rate 0.
ShouldTrip(w) ==
  LET n == Len(w.entries)
  IN n >= MinSamples /\ (IF n = 0 THEN ThresholdNum = 0
                         ELSE w.failures * ThresholdDen >= ThresholdNum * n)

\* error_rate(), called by anyone at any time: it reads the clock, waits for
\* the lock, and evicts by that reading.
ErrorRate ==
  /\ \E at \in 0..clock : window' = Evict(window, at)
  /\ UNCHANGED <<clock, breaker, thread>>

-----------------------------------------------------------------------------
(***************************************************************************)
(* check()                                                                 *)
(***************************************************************************)

\* check: load the state.
Check(t) ==
  /\ At(t, "idle")
  /\ Branches(t, CASE breaker.state = "Closed" -> "request"
                   [] breaker.state = "Open" -> "opened"
                   [] breaker.state = "HalfOpen" -> "probe")

\* check_open: when did it open?
LoadOpened(t) ==
  /\ At(t, "opened")
  /\ Reads(t, [thread[t] EXCEPT !.seen = breaker.openedAt, !.pc = "elapsed"])

\* Saturating subtraction of millisecond offsets.
Since(at, from) == IF at >= from THEN at - from ELSE 0

\* check_open: due for a probe, or still cooling down (refused).
Elapsed(t) ==
  /\ At(t, "elapsed")
  /\ Branches(t, IF Since(clock, thread[t].seen) >= OpenDuration THEN "cas" ELSE "idle")

\* check_open: compare_exchange(Open, HalfOpen).
CasHalfOpen(t) ==
  /\ At(t, "cas")
  /\ IF breaker.state = "Open"
       THEN Writes(t, [breaker EXCEPT !.state = "HalfOpen"], "unfast")
       ELSE Branches(t, "lost")

\* The winner lowers the mirror, then takes the common probe path.
ClearFast(t) ==
  /\ At(t, "unfast")
  /\ Writes(t, [breaker EXCEPT !.fast = FALSE], "probe")

\* The loser looks at the state again.
LostRace(t) ==
  /\ At(t, "lost")
  /\ Branches(t, CASE breaker.state = "Closed" -> "request"
                   [] breaker.state = "HalfOpen" -> "probe"
                   [] breaker.state = "Open" -> "idle")

\* try_half_open_probe: read the clock.
ProbeClock(t) ==
  /\ At(t, "probe")
  /\ Reads(t, [thread[t] EXCEPT !.now = clock, !.pc = "claim"])

\* fetch_add(1): is there a slot?
Claim(t) ==
  /\ At(t, "claim")
  /\ Writes(t, [breaker EXCEPT !.probes = (@ + 1) % UsizeModulus],
            IF breaker.probes < MaxProbes THEN "stamp" ELSE "unclaim")

\* A slot: stamp the claim with the time read before it, and go.
Stamp(t) ==
  /\ At(t, "stamp")
  /\ Writes(t, [breaker EXCEPT !.claimedAt = thread[t].now], "probing")

\* No slot: fetch_sub(1), which wraps below zero.
Unclaim(t) ==
  /\ At(t, "unclaim")
  /\ Writes(t, [breaker EXCEPT !.probes = (@ + UsizeModulus - 1) % UsizeModulus], "lease")

LeaseExpired_bug(t) == FALSE

\* The newest claim is as old as the cool-down: its owner is presumed lost.
LeaseExpired(t) == Since(thread[t].now, breaker.claimedAt) >= OpenDuration

\* Load the claim; a live one refuses the caller.
Lease(t) ==
  /\ At(t, "lease")
  /\ Reads(t, [thread[t] EXCEPT !.seen = breaker.claimedAt,
                               !.pc = IF LeaseExpired(t) THEN "takeover" ELSE "idle"])

\* compare_exchange(claimed, now): the winner takes the abandoned slot.
TakeOver(t) ==
  /\ At(t, "takeover")
  /\ IF breaker.claimedAt = thread[t].seen
       THEN Writes(t, [breaker EXCEPT !.claimedAt = thread[t].now], "probing")
       ELSE Branches(t, "idle")

-----------------------------------------------------------------------------
(***************************************************************************)
(* record()                                                                *)
(***************************************************************************)

\* The request is over and its outcome counts: read the clock.
Record(t) ==
  /\ thread[t].pc \in Admitted
  /\ \E outcome \in BOOLEAN :
       Reads(t, [thread[t] EXCEPT !.failed = outcome, !.now = clock, !.pc = "observe"])

\* The request is over and record() is never called.
Abandon(t) ==
  /\ thread[t].pc \in Admitted
  /\ Branches(t, "idle")

\* record: load prev_state.
Observe(t) ==
  /\ At(t, "observe")
  /\ Branches(t, CASE breaker.state = "Closed" -> "sample"
                   [] breaker.state = "Open" -> "sampleOpen"
                   [] breaker.state = "HalfOpen" -> IF thread[t].failed THEN "trip" ELSE "close")

Sampled(t) ==
  Evict(Push(window, thread[t].failed, thread[t].now), thread[t].now)

\* prev_state was Closed: the critical section, and the verdict.
Sample(t) ==
  /\ At(t, "sample")
  /\ Locks(t, Sampled(t), IF ShouldTrip(Sampled(t)) THEN "trip" ELSE "idle")

\* prev_state was Open: the sample is kept and nothing else happens.
SampleOpen(t) ==
  /\ At(t, "sampleOpen")
  /\ Locks(t, Sampled(t), "idle")

\* trip: state, then opened_at (read the clock, store), then probes, then
\* the mirror.
TripState(t) ==
  /\ At(t, "trip")
  /\ Writes(t, [breaker EXCEPT !.state = "Open"], "tripClock")
TripClock(t) ==
  /\ At(t, "tripClock")
  /\ Reads(t, [thread[t] EXCEPT !.now = clock, !.pc = "tripOpened"])
TripOpened(t) ==
  /\ At(t, "tripOpened")
  /\ Writes(t, [breaker EXCEPT !.openedAt = thread[t].now], "tripProbes")
TripProbes(t) ==
  /\ At(t, "tripProbes")
  /\ Writes(t, [breaker EXCEPT !.probes = 0], "tripFast")
TripFast(t) ==
  /\ At(t, "tripFast")
  /\ Writes(t, [breaker EXCEPT !.fast = TRUE], "idle")

\* close: state, then the window, then probes, then the mirror.
CloseState(t) ==
  /\ At(t, "close")
  /\ Writes(t, [breaker EXCEPT !.state = "Closed"], "clear")
CloseWindow(t) ==
  /\ At(t, "clear")
  /\ Locks(t, [entries |-> <<>>, failures |-> 0], "closeProbes")
CloseProbes(t) ==
  /\ At(t, "closeProbes")
  /\ Writes(t, [breaker EXCEPT !.probes = 0], "closeFast")
CloseFast(t) ==
  /\ At(t, "closeFast")
  /\ Writes(t, [breaker EXCEPT !.fast = FALSE], "idle")

-----------------------------------------------------------------------------

CheckStep(t) ==
  \/ LoadOpened(t) \/ Elapsed(t) \/ CasHalfOpen(t) \/ ClearFast(t)
  \/ LostRace(t) \/ ProbeClock(t) \/ Claim(t) \/ Stamp(t) \/ Unclaim(t)
  \/ Lease(t) \/ TakeOver(t)

RecordStep(t) ==
  \/ Observe(t) \/ Sample(t) \/ SampleOpen(t)
  \/ TripState(t) \/ TripClock(t) \/ TripOpened(t) \/ TripProbes(t) \/ TripFast(t)
  \/ CloseState(t) \/ CloseWindow(t) \/ CloseProbes(t) \/ CloseFast(t)

Next ==
  \/ Tick
  \/ ErrorRate
  \/ \E t \in Threads :
       Check(t) \/ CheckStep(t) \/ Record(t) \/ Abandon(t) \/ RecordStep(t)

Spec == Init /\ [][Next]_vars

(***************************************************************************)
(* Time passes, a thread inside check() or record() is scheduled, and a    *)
(* caller that was refused asks again (the upload queue's retry loop).     *)
(* Nothing is assumed of a request: it may take for ever.                  *)
(***************************************************************************)
FairSpec ==
  /\ Spec
  /\ WF_vars(Tick)
  /\ \A t \in Threads :
       WF_vars(Check(t)) /\ WF_vars(CheckStep(t)) /\ WF_vars(RecordStep(t))

-----------------------------------------------------------------------------
(***************************************************************************)
(* Properties.                                                             *)
(***************************************************************************)

\* Type correctness; the window never outgrows MAX_WINDOW_ENTRIES.
TypeOK ==
  /\ clock \in Time
  /\ breaker \in BreakerType
  /\ window.failures \in Nat /\ Len(window.entries) <= MaxEntries
  /\ \A i \in 1..Len(window.entries) :
       window.entries[i].at \in Time /\ window.entries[i].failure \in BOOLEAN
  /\ thread \in [Threads -> ThreadType]

\* The incremental failure count that error_rate() divides is the number of
\* failures in the window, whatever pushes, cap drops, evictions and clears
\* threads interleave; in particular `failures -= 1` never underflows.
WindowExact == window.failures = FailuresIn(window.entries)

\* No thread holds a request, a probe or an unfinished record().
NobodyHolds == \A t \in Threads : thread[t].pc \in {"idle"} \cup CheckSteps

\* "a lost probe delays recovery by at most one cool-down": when the breaker
\* sheds and every admitted request is gone without a verdict, then one
\* OpenDuration later (the clock stops there) somebody who keeps calling
\* check() is let through, whatever the slot count was left at.
SheddingEnds ==
  (breaker.state # "Closed" /\ NobodyHolds /\ clock + OpenDuration <= MaxTime)
    ~> (\E t \in Threads : thread[t].pc \in Admitted)

\* "Lock-free mirror of `state == Open`": once every thread has left check()
\* and record(), is_open() tells the truth.
MirrorAtRest ==
  (\A t \in Threads : thread[t].pc \in {"idle"} \cup Admitted)
    => (breaker.fast <=> breaker.state = "Open")

\* "Only one probe slot; exactly one Ok overall": the callers that race out
\* of one cool-down, none of which records, are let through at most
\* MaxProbes at a time.
ProbeLimit == Cardinality({t \in Threads : At(t, "probing")}) <= MaxProbes

(***************************************************************************)
(* The scenario of the test cas_loss_recovery_with_mock_clock: one failure *)
(* tripped the breaker at time 0, the mock clock was advanced past the     *)
(* cool-down and stands still, and every thread calls check().             *)
(***************************************************************************)
CheckRaceInit ==
  /\ clock = OpenDuration
  /\ breaker = [state |-> "Open", openedAt |-> 0, claimedAt |-> 0,
                probes |-> 0, fast |-> TRUE]
  /\ window = [entries |-> <<[at |-> 0, failure |-> TRUE]>>, failures |-> 1]
  /\ thread = [t \in Threads |-> Fresh]

CheckRaceSpec ==
  CheckRaceInit /\ [][\E t \in Threads : Check(t) \/ CheckStep(t)]_vars

=============================================================================
