--------------------------- MODULE SchedulerProofs ---------------------------
(***************************************************************************)
(* A reservation of the scheduler's clock is never stale, for any number   *)
(* of tasks and iterations, any bound of the revision and any faults.      *)
(* The invariant says why: a handler that waits with a reservation of its  *)
(* own excludes a pending removal, which holds the only other one.         *)
(***************************************************************************)
EXTENDS Scheduler, TLAPS

Removing == {"persist", "publish"}
Firing == {"query", "unit", "spawn"}

\* Where the actor can stand, and what the handler it is in is for.
HandlerInv ==
  /\ job.at \in {"start", "loop", "stopped"} \cup Removing \cup Firing
  /\ job.at \in Removing => job.why \in {"delete", "expiry"}
  /\ job.at \in Firing => job.why = "fire"
  /\ job.at \in Removing \cup Firing /\ job.why # "delete" => pending = NoRemoval

ReservationInv == HandlerInv /\ ReservationFresh

LEMMA JobFields ==
  NoJob.at = "loop" /\ \A at : [NoJob EXCEPT !.at = at].at = at
BY DEF NoJob

LEMMA PersistJob ==
  ASSUME NEW why, NEW entry, NEW index, NEW list, Persist(why, entry, index, list)
  PROVE  job'.at = "persist" /\ job'.why = why /\ job'.source = clock
BY DEF Persist, NoJob

LEMMA InitReservation == Init => ReservationInv
BY JobFields DEF Init, ReservationInv, HandlerInv, ReservationFresh, Removing, Firing

\* Steps that leave the actor where it stands, and its clock and removal alone.
LEMMA AroundActor ==
  ASSUME ReservationInv, UNCHANGED <<job, clock, pending>>
  PROVE  ReservationInv'
BY DEF ReservationInv, HandlerInv, ReservationFresh

\* Steps that end a handler, or happen between handlers, with no removal pending.
LEMMA BackToLoop ==
  ASSUME ReservationInv, job' = NoJob, pending' = NoRemoval
  PROVE  ReservationInv'
BY JobFields DEF ReservationInv, HandlerInv, ReservationFresh, Removing, Firing

\* Steps that end a handler and keep the clock.
LEMMA BackUncommitted ==
  ASSUME ReservationInv, job.at # "stopped", job' = NoJob, UNCHANGED <<pending, clock>>
  PROVE  ReservationInv'
BY JobFields DEF ReservationInv, HandlerInv, ReservationFresh, Removing, Firing

\* Steps that stop the actor, or start it.
LEMMA StopOrStart ==
  ASSUME NEW at \in {"start", "stopped"}, job' = [NoJob EXCEPT !.at = at],
         at = "start" => pending' = NoRemoval
  PROVE  ReservationInv'
<1>1. job'.at = at
  BY JobFields
<1> QED
  BY <1>1 DEF ReservationInv, HandlerInv, ReservationFresh, Removing, Firing

LEMMA CommandReservation ==
  ASSUME ReservationInv, NEW t \in Tasks, Command(t)
  PROVE  ReservationInv'
<1>1. CASE Create(t) \/ Update(t)
  <2>1. job.at = "loop" /\ pending' = NoRemoval /\ job' = job
    BY <1>1 DEF Create, Update, Idle
  <2> QED
    BY <2>1 DEF ReservationInv, HandlerInv, ReservationFresh, Removing, Firing
<1>2. CASE Delete(t)
  <2>1. /\ job'.at = "persist" /\ job'.why = "delete" /\ job'.source = clock
        /\ pending'.source = clock /\ clock' = clock
    BY <1>2, PersistJob DEF Delete
  <2> QED
    BY <2>1 DEF ReservationInv, HandlerInv, ReservationFresh, Removing, Firing
<1> QED
  BY <1>1, <1>2 DEF Command

LEMMA RetryReservation ==
  ASSUME ReservationInv, RetryDelete
  PROVE  ReservationInv'
<1>1. CASE target
  <2>1. /\ job.at = "loop" /\ job'.at = "persist" /\ job'.why = "delete" /\ job'.source = clock
        /\ pending' = pending /\ clock' = clock
    BY <1>1, PersistJob DEF RetryDelete, Idle
  <2> QED
    BY <2>1 DEF ReservationInv, HandlerInv, ReservationFresh, Removing, Firing
<1>2. CASE ~target
  <2>1. job.at = "loop" /\ job' = job /\ pending' = NoRemoval
    BY <1>2 DEF RetryDelete, Idle
  <2> QED
    BY <2>1 DEF ReservationInv, HandlerInv, ReservationFresh, Removing, Firing
<1> QED
  BY <1>1, <1>2

LEMMA FireReservation ==
  ASSUME ReservationInv, NEW t \in Tasks, Fire(t)
  PROVE  ReservationInv'
<1>1. job.at = "loop" /\ pending = NoRemoval /\ pending' = NoRemoval
  BY DEF Fire, ExpireDurable, ExpirePlain, FireOneShot, FireForeground, FireLoop, Chosen, Idle
<1>2. CASE job' = job
  BY <1>1, <1>2 DEF ReservationInv, HandlerInv, ReservationFresh, Removing, Firing
<1>3. CASE ExpireDurable(t) /\ target
  <2>1. job'.at = "persist" /\ job'.why = "expiry" /\ job'.source = clock /\ clock' = clock
    BY <1>3, PersistJob DEF ExpireDurable
  <2> QED
    BY <1>1, <2>1 DEF ReservationInv, HandlerInv, ReservationFresh, Removing, Firing
<1>4. CASE FireLoop(t)
  <2>1. /\ job'.at \in {"query", "spawn"} /\ job'.why = "fire" /\ job'.source = clock
        /\ clock' = clock
    BY <1>4 DEF FireLoop, NoJob
  <2> QED
    BY <1>1, <2>1 DEF ReservationInv, HandlerInv, ReservationFresh, Removing, Firing
<1> QED
  BY <1>2, <1>3, <1>4 DEF Fire, ExpireDurable, ExpirePlain, FireOneShot, FireForeground

LEMMA AnsweredReservation ==
  ASSUME ReservationInv, Answered
  PROVE  ReservationInv'
<1>1. CASE Persisted
  <2>1. job.at = "persist" /\ UNCHANGED <<clock, pending>> /\ job' = [job EXCEPT !.at = "publish"]
    BY <1>1 DEF Persisted
  <2> QED
    BY <2>1 DEF ReservationInv, HandlerInv, ReservationFresh, Removing, Firing
<1>2. CASE NotPersisted
  BY <1>2, BackUncommitted DEF NotPersisted, Return
<1>3. CASE Published
  <2>1. job.at = "publish" /\ job' = NoJob
    BY <1>3 DEF Published, Return
  <2>2. pending' = NoRemoval
    BY <1>3, <2>1 DEF Published, ReservationInv, HandlerInv, Removing
  <2> QED
    BY <2>1, <2>2, BackToLoop
<1>4. ASSUME job.at \in {"query", "unit"}, Skip
      PROVE  ReservationInv'
  BY <1>4, BackUncommitted DEF Skip, Return
<1>5. CASE GuardQuery
  <2>1. job.at = "query"
    BY <1>5 DEF GuardQuery
  <2>2. PICK seen : \/ Skip
                    \/ /\ job' = [job EXCEPT !.at = "unit", !.seen = seen]
                       /\ UNCHANGED <<clock, pending>>
    BY <1>5, Zenon DEF GuardQuery
  <2>3. CASE job' = [job EXCEPT !.at = "unit", !.seen = seen] /\ UNCHANGED <<clock, pending>>
    BY <2>1, <2>3 DEF ReservationInv, HandlerInv, ReservationFresh, Removing, Firing
  <2> QED
    BY <1>4, <2>1, <2>2, <2>3
<1>6. CASE GuardUnit
  <2>1. job.at = "unit"
    BY <1>6 DEF GuardUnit
  <2>2. \/ Skip
        \/ job' = [job EXCEPT !.at = "spawn"] /\ UNCHANGED <<clock, pending>>
    BY <1>6, Zenon DEF GuardUnit
  <2>3. CASE job' = [job EXCEPT !.at = "spawn"] /\ UNCHANGED <<clock, pending>>
    BY <2>1, <2>3 DEF ReservationInv, HandlerInv, ReservationFresh, Removing, Firing
  <2> QED
    BY <1>4, <2>1, <2>2, <2>3
<1> QED
  BY <1>1, <1>2, <1>3, <1>5, <1>6 DEF Answered

LEMMA AloneReservation ==
  ASSUME ReservationInv, Alone
  PROVE  ReservationInv'
<1>1. CASE Startup \/ PersistTimeout \/ NotPublished \/ GuardUnanswered
  <2>1. job.at # "stopped" /\ job' = NoJob /\ UNCHANGED <<clock, pending>>
    BY <1>1 DEF Startup, PersistTimeout, NotPublished, GuardUnanswered, Skip, Return
  <2> QED
    BY <2>1, BackUncommitted
<1>2. CASE SpawnIteration \/ SpawnUnsent
  <2>1. job.at = "spawn" /\ job' = NoJob /\ pending' = pending
    BY <1>2 DEF SpawnIteration, SpawnUnsent, Return
  <2>2. pending = NoRemoval
    BY <2>1 DEF ReservationInv, HandlerInv, Firing
  <2> QED
    BY <2>1, <2>2, BackToLoop
<1> QED
  BY <1>1, <1>2 DEF Alone

LEMMA NextReservation ==
  ASSUME ReservationInv, [Next]_vars
  PROVE  ReservationInv'
<1>1. ASSUME NEW t \in Tasks, ComesDue(t) \/ Expires(t)
      PROVE  ReservationInv'
  BY <1>1, AroundActor DEF ComesDue, Expires
<1>2. ASSUME NEW n \in Iterations, Watcher(n) \/ Coordinator(n)
      PROVE  ReservationInv'
  BY <1>2, AroundActor DEF Watcher, Coordinator, IterationEnds, DescendantStarts,
                           DescendantEnds, IterationForgotten, Others, sched
<1>3. CASE WriterStep \/ ToolSave \/ TargetCloses \/ CoordinatorCloses
  BY <1>3, AroundActor DEF WriterStep, ToolSave, TargetCloses, CoordinatorCloses, sched
<1>4. CASE Shutdown \/ ProcessDies \/ PowerLoss
  BY <1>4, StopOrStart DEF Shutdown, ProcessDies, PowerLoss
<1>5. CASE Restart
  BY <1>5, StopOrStart DEF Restart
<1>6. CASE UNCHANGED vars
  BY <1>6, AroundActor DEF vars, sched
<1> QED
  BY <1>1, <1>2, <1>3, <1>4, <1>5, <1>6, CommandReservation, FireReservation,
     RetryReservation, AnsweredReservation, AloneReservation DEF Next

\* The assertion "stale scheduler reservation" of commit_next never fails: nothing
\* commits to the clock while a handler or a pending removal holds a reservation,
\* whatever times out, fails, crashes or is retried meanwhile.
THEOREM ReservationCorrect == Spec => []ReservationFresh
<1>1. ReservationInv /\ [Next]_vars => ReservationInv'
  BY NextReservation
<1>2. ReservationInv => ReservationFresh
  BY DEF ReservationInv
<1> QED
  BY <1>1, <1>2, InitReservation, PTL DEF Spec
==============================================================================
