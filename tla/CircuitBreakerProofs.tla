------------------------ MODULE CircuitBreakerProofs ------------------------
(***************************************************************************)
(* The circuit breaker's state is well formed and its window's failure     *)
(* count is exact, for any number of threads, any window and any clock.    *)
(* The count is kept by increments and decrements in three critical        *)
(* sections; that it stays the number of failures is a fact about parts of *)
(* a sequence, so the lemmas are about the cardinality of sets of indices. *)
(***************************************************************************)
EXTENDS CircuitBreaker, FiniteSetTheorems, FunctionTheorems, SequenceTheorems,
        NaturalsInduction, WellFoundedInduction, TLAPS

Sampling == [at : Time, failure : BOOLEAN]

\* A window as its critical sections leave it.
WindowOK(w) ==
  /\ w.entries \in Seq(Sampling) /\ Len(w.entries) <= MaxEntries
  /\ w.failures = FailuresIn(w.entries)

BreakerInv ==
  /\ clock \in Time
  /\ breaker \in BreakerType
  /\ WindowOK(window)
  /\ thread \in [Threads -> ThreadType]

-----------------------------------------------------------------------------
(* Counting failures *)

FailuresAt(e) == {i \in 1..Len(e) : e[i].failure}

LEMMA FailuresFinite ==
  ASSUME NEW e \in Seq(Sampling)
  PROVE  /\ IsFiniteSet(FailuresAt(e)) /\ FailuresIn(e) = Cardinality(FailuresAt(e))
         /\ FailuresIn(e) \in Nat
<1>1. IsFiniteSet(1..Len(e)) /\ FailuresAt(e) \in SUBSET (1..Len(e))
  BY FS_Interval DEF FailuresAt
<1>2. IsFiniteSet(FailuresAt(e))
  BY <1>1, FS_Subset
<1>3. FailuresIn(e) = Cardinality(FailuresAt(e))
  BY DEF FailuresIn, FailuresAt
<1> QED
  BY <1>2, <1>3, FS_CardinalityType

\* The front and the rest of a window count what the whole counts.
LEMMA FailuresSplit ==
  ASSUME NEW e \in Seq(Sampling), NEW n \in 0..Len(e)
  PROVE  /\ SubSeq(e, 1, n) \in Seq(Sampling) /\ SubSeq(e, n + 1, Len(e)) \in Seq(Sampling)
         /\ Len(SubSeq(e, n + 1, Len(e))) = Len(e) - n
         /\ FailuresIn(e) = FailuresIn(SubSeq(e, 1, n)) + FailuresIn(SubSeq(e, n + 1, Len(e)))
<1> DEFINE a == SubSeq(e, 1, n)
           b == SubSeq(e, n + 1, Len(e))
<1>1. Len(e) \in Nat /\ n \in Nat /\ n <= Len(e)
  OBVIOUS
<1>2. /\ a \in Seq(Sampling) /\ Len(a) = n
      /\ \A i \in 1..n : a[i] = e[i]
  BY <1>1
<1>3. /\ b \in Seq(Sampling) /\ Len(b) = Len(e) - n
      /\ \A i \in 1..(Len(e) - n) : b[i] = e[n + i]
  BY <1>1
<1> HIDE DEF a, b
<1> DEFINE A == FailuresAt(a)
           B == FailuresAt(b)
           C == {i \in (n + 1)..Len(e) : e[i].failure}
           f == [i \in B |-> n + i]
<1>4. FailuresAt(e) = A \cup C /\ A \cap C = {}
  BY <1>1, <1>2 DEF FailuresAt
<1>5. ExistsBijection(B, C)
  <2>1. f \in [B -> C]
    BY <1>1, <1>3 DEF FailuresAt
  <2>2. \A i, j \in B : f[i] = f[j] => i = j
    BY <1>1, <1>3 DEF FailuresAt
  <2>3. ASSUME NEW c \in C PROVE \E i \in B : f[i] = c
    <3>1. c - n \in 1..(Len(e) - n) /\ n + (c - n) = c
      BY <1>1
    <3>2. c - n \in B
      BY <1>3, <3>1 DEF FailuresAt
    <3> QED
      BY <3>1, <3>2
  <2>4. f \in Bijection(B, C)
    BY <2>1, <2>2, <2>3, Fun_IsBij
  <2> QED
    BY <2>4, Fun_ExistsBij
<1>6. IsFiniteSet(A) /\ IsFiniteSet(B)
  BY <1>2, <1>3, FailuresFinite
<1> HIDE DEF A, B, C
<1>7. IsFiniteSet(C) /\ Cardinality(C) = Cardinality(B)
  BY <1>5, <1>6, FS_Bijection
<1>8. Cardinality(A \cup C) = Cardinality(A) + Cardinality(C) - Cardinality(A \cap C)
  BY <1>6, <1>7, FS_Union
<1>9. Cardinality(A \cap C) = 0
  BY <1>4, FS_EmptySet
<1>10. Cardinality(A) \in Nat /\ Cardinality(C) \in Nat
  BY <1>6, <1>7, FS_CardinalityType
<1>11. Cardinality(FailuresAt(e)) = Cardinality(A) + Cardinality(B)
  BY <1>4, <1>7, <1>8, <1>9, <1>10
<1> QED
  BY <1>2, <1>3, <1>11, FailuresFinite DEF A, B, a, b

LEMMA FailuresAppend ==
  ASSUME NEW e \in Seq(Sampling), NEW x \in Sampling
  PROVE  /\ Append(e, x) \in Seq(Sampling) /\ Len(Append(e, x)) = Len(e) + 1
         /\ FailuresIn(Append(e, x)) = FailuresIn(e) + (IF x.failure THEN 1 ELSE 0)
<1> DEFINE w == Append(e, x)
<1>1. /\ Len(e) \in Nat /\ w \in Seq(Sampling) /\ Len(w) = Len(e) + 1
      /\ w[Len(e) + 1] = x /\ \A i \in 1..Len(e) : w[i] = e[i]
  OBVIOUS
<1> HIDE DEF w
<1>2. IsFiniteSet(FailuresAt(e)) /\ Cardinality(FailuresAt(e)) \in Nat
  BY FailuresFinite
<1>3. Len(e) + 1 \notin FailuresAt(e)
  BY <1>1 DEF FailuresAt
<1>4. CASE x.failure
  <2>1. FailuresAt(w) = FailuresAt(e) \cup {Len(e) + 1}
    BY <1>1, <1>4 DEF FailuresAt
  <2>2. Cardinality(FailuresAt(w)) = Cardinality(FailuresAt(e)) + 1
    BY <1>2, <1>3, <2>1, FS_AddElement
  <2>3. FailuresIn(w) = FailuresIn(e) + 1
    BY <1>1, <2>2, FailuresFinite
  <2> QED
    BY <1>1, <1>4, <2>3 DEF w
<1>5. CASE ~x.failure
  <2>1. FailuresAt(w) = FailuresAt(e)
    BY <1>1, <1>5 DEF FailuresAt
  <2>2. FailuresIn(w) = FailuresIn(e) + 0
    BY <1>1, <1>2, <2>1, FailuresFinite
  <2> QED
    BY <1>1, <1>5, <2>2 DEF w
<1> QED
  BY <1>4, <1>5

LEMMA EmptyWindow ==
  WindowOK([entries |-> <<>>, failures |-> 0])
<1>1. FailuresAt(<<>>) = {} /\ <<>> \in Seq(Sampling) /\ Len(<<>>) = 0
  BY DEF FailuresAt
<1>2. FailuresIn(<<>>) = 0
  BY <1>1, FailuresFinite, FS_EmptySet
<1> QED
  BY <1>1, <1>2, BreakerAssumption DEF WindowOK

-----------------------------------------------------------------------------
(* The critical sections *)

LEMMA DropFrontOK ==
  ASSUME NEW w, WindowOK(w), NEW n \in 0..Len(w.entries)
  PROVE  WindowOK(DropFront(w, n)) /\ Len(DropFront(w, n).entries) = Len(w.entries) - n
<1> DEFINE e == w.entries
<1>1. e \in Seq(Sampling) /\ Len(e) \in Nat /\ Len(e) <= MaxEntries /\ MaxEntries \in Nat
  BY BreakerAssumption DEF WindowOK
<1>2. /\ SubSeq(e, 1, n) \in Seq(Sampling) /\ SubSeq(e, n + 1, Len(e)) \in Seq(Sampling)
      /\ Len(SubSeq(e, n + 1, Len(e))) = Len(e) - n
      /\ FailuresIn(e) = FailuresIn(SubSeq(e, 1, n)) + FailuresIn(SubSeq(e, n + 1, Len(e)))
  BY <1>1, FailuresSplit
<1>3. FailuresIn(SubSeq(e, 1, n)) \in Nat /\ FailuresIn(SubSeq(e, n + 1, Len(e))) \in Nat
  BY <1>2, FailuresFinite
<1>4. w.failures - FailuresIn(SubSeq(e, 1, n)) = FailuresIn(SubSeq(e, n + 1, Len(e)))
  BY <1>2, <1>3 DEF WindowOK
<1>5. /\ DropFront(w, n).entries = SubSeq(e, n + 1, Len(e))
      /\ DropFront(w, n).failures = w.failures - FailuresIn(SubSeq(e, 1, n))
  BY DEF DropFront
<1>6. Len(e) - n <= MaxEntries
  BY <1>1
<1> QED
  BY <1>2, <1>4, <1>5, <1>6 DEF WindowOK

LEMMA PushOK ==
  ASSUME NEW w, WindowOK(w), NEW failure \in BOOLEAN, NEW at \in Time
  PROVE  WindowOK(Push(w, failure, at))
<1> DEFINE room == IF Len(w.entries) >= MaxEntries THEN DropFront(w, 1) ELSE w
           x == [at |-> at, failure |-> failure]
<1>1. Len(w.entries) \in Nat /\ Len(w.entries) <= MaxEntries /\ MaxEntries \in Nat \ {0}
  BY BreakerAssumption DEF WindowOK
<1>2. WindowOK(room) /\ Len(room.entries) < MaxEntries
  <2>1. CASE Len(w.entries) >= MaxEntries
    <3>1. 1 \in 0..Len(w.entries) /\ room = DropFront(w, 1)
      BY <1>1, <2>1
    <3>2. WindowOK(DropFront(w, 1)) /\ Len(DropFront(w, 1).entries) = Len(w.entries) - 1
      BY <3>1, DropFrontOK
    <3> QED
      BY <1>1, <3>1, <3>2
  <2>2. CASE ~(Len(w.entries) >= MaxEntries)
    BY <1>1, <2>2
  <2> QED
    BY <2>1, <2>2
<1>3. x \in Sampling /\ x.failure = failure
  BY DEF Sampling
<1>4. /\ Push(w, failure, at).entries = Append(room.entries, x)
      /\ Push(w, failure, at).failures = room.failures + (IF failure THEN 1 ELSE 0)
  BY DEF Push
<1> HIDE DEF room, x, Push
<1>5. room.entries \in Seq(Sampling) /\ Len(room.entries) \in Nat
  BY <1>2 DEF WindowOK
<1>6. /\ Append(room.entries, x) \in Seq(Sampling)
      /\ Len(Append(room.entries, x)) = Len(room.entries) + 1
      /\ FailuresIn(Append(room.entries, x)) = FailuresIn(room.entries) + (IF x.failure THEN 1 ELSE 0)
  BY <1>3, <1>5, FailuresAppend
<1>7. Len(room.entries) + 1 <= MaxEntries
  BY <1>1, <1>2, <1>5
<1>8. Push(w, failure, at).failures = FailuresIn(Append(room.entries, x))
  BY <1>2, <1>3, <1>4, <1>6 DEF WindowOK
<1> QED
  BY <1>4, <1>6, <1>7, <1>8 DEF WindowOK

LEMMA LeastIndex ==
  ASSUME NEW S \in SUBSET Nat, S # {}
  PROVE  \E n \in S : \A m \in S : n <= m
<1>1. PICK n \in S : \A m \in S : ~(<<m, n>> \in OpToRel(<, Nat))
  BY NatLessThanWellFounded, WFMin, Zenon
<1>2. \A m \in S : ~(m < n)
  BY <1>1, Zenon DEF OpToRel
<1> QED
  BY <1>2

LEMMA EvictOK ==
  ASSUME NEW w, WindowOK(w), NEW at
  PROVE  WindowOK(Evict(w, at))
<1> DEFINE young == {i \in 1..Len(w.entries) : w.entries[i].at + WindowDuration >= at}
           old == IF young = {} THEN Len(w.entries)
                  ELSE (CHOOSE i \in young : \A j \in young : i <= j) - 1
<1>1. Len(w.entries) \in Nat
  BY DEF WindowOK
<1>2. old \in 0..Len(w.entries)
  <2>1. CASE young = {}
    BY <1>1, <2>1
  <2>2. CASE young # {}
    <3>1. young \in SUBSET Nat /\ young \subseteq 1..Len(w.entries)
      BY <1>1
    <3> HIDE DEF young
    <3>2. \E i \in young : \A j \in young : i <= j
      BY <2>2, <3>1, LeastIndex
    <3> DEFINE first == CHOOSE i \in young : \A j \in young : i <= j
    <3>3. first \in young
      BY <3>2
    <3>4. old = first - 1
      BY <2>2
    <3> HIDE DEF first, old
    <3> QED
      BY <1>1, <3>1, <3>3, <3>4
  <2> QED
    BY <2>1, <2>2
<1>3. Evict(w, at) = DropFront(w, old)
  BY DEF Evict
<1> HIDE DEF old
<1> QED
  BY <1>2, <1>3, DropFrontOK
-----------------------------------------------------------------------------
(* The steps of a thread *)

Steps == {"idle"} \cup CheckSteps \cup Admitted \cup RecordSteps

LEMMA BecomesOK ==
  ASSUME BreakerInv, NEW t \in Threads, NEW self \in ThreadType, Becomes(t, self)
  PROVE  thread' \in [Threads -> ThreadType]
<1>0. 0 \in Time /\ self.pc \in Steps
  BY BreakerAssumption DEF ThreadType, Time, Steps
<1>1. [Fresh EXCEPT !.pc = self.pc] \in ThreadType
  <2>1. Fresh \in ThreadType
    BY <1>0 DEF Fresh, ThreadType
  <2> DEFINE pc == self.pc
  <2>2. pc \in Steps
    BY <1>0
  <2> HIDE DEF pc
  <2>3. [Fresh EXCEPT !.pc = pc] \in ThreadType
    BY <2>1, <2>2 DEF ThreadType, Steps
  <2> QED
    BY <2>3 DEF pc
<1>2. (IF self.pc \in NoLocals THEN [Fresh EXCEPT !.pc = self.pc] ELSE self) \in ThreadType
  BY <1>1
<1> QED
  BY <1>2 DEF BreakerInv, Becomes

LEMMA GoesToOK ==
  ASSUME BreakerInv, NEW t \in Threads, NEW step \in Steps, GoesTo(t, step)
  PROVE  thread' \in [Threads -> ThreadType]
<1> DEFINE self == [thread[t] EXCEPT !.pc = step]
<1>1. self \in ThreadType
  BY DEF BreakerInv, ThreadType, Steps
<1>2. Becomes(t, self)
  BY DEF GoesTo
<1> HIDE DEF self
<1> QED
  BY <1>1, <1>2, BecomesOK

LEMMA ReadsOK ==
  ASSUME BreakerInv, NEW t \in Threads, NEW self \in ThreadType, Reads(t, self)
  PROVE  BreakerInv'
BY BecomesOK DEF Reads, BreakerInv, WindowOK

LEMMA BranchesOK ==
  ASSUME BreakerInv, NEW t \in Threads, NEW step \in Steps, Branches(t, step)
  PROVE  BreakerInv'
<1> DEFINE self == [thread[t] EXCEPT !.pc = step]
<1>1. self \in ThreadType
  BY DEF BreakerInv, ThreadType, Steps
<1>2. Reads(t, self)
  BY DEF Branches
<1> HIDE DEF self
<1> QED
  BY <1>1, <1>2, ReadsOK

LEMMA WritesOK ==
  ASSUME BreakerInv, NEW t \in Threads, NEW step \in Steps, NEW atomics \in BreakerType,
         Writes(t, atomics, step)
  PROVE  BreakerInv'
<1>1. thread' \in [Threads -> ThreadType]
  BY GoesToOK DEF Writes
<1>2. breaker' = atomics /\ clock' = clock /\ window' = window
  BY DEF Writes
<1> QED
  BY <1>1, <1>2 DEF BreakerInv, WindowOK

LEMMA LocksOK ==
  ASSUME BreakerInv, NEW t \in Threads, NEW step \in Steps, NEW w, WindowOK(w),
         Locks(t, w, step)
  PROVE  BreakerInv'
<1>1. thread' \in [Threads -> ThreadType]
  BY GoesToOK DEF Locks
<1>2. window' = w /\ clock' = clock /\ breaker' = breaker
  BY DEF Locks
<1>3. WindowOK(window')
  BY <1>2
<1> QED
  BY <1>1, <1>2, <1>3 DEF BreakerInv, WindowOK

\* fetch_add and fetch_sub stay within the width of a usize.
LEMMA Wraps ==
  ASSUME NEW n \in Nat
  PROVE  n % UsizeModulus \in 0..(UsizeModulus - 1)
<1>1. UsizeModulus \in Nat /\ UsizeModulus > 0
  BY BreakerAssumption
<1> QED
  BY <1>1

LEMMA CheckInv ==
  ASSUME BreakerInv, NEW t \in Threads, Check(t) \/ CheckStep(t)
  PROVE  BreakerInv'
<1>0. /\ clock \in Time /\ breaker \in BreakerType /\ thread[t] \in ThreadType
      /\ breaker.openedAt \in Time /\ breaker.claimedAt \in Time
      /\ breaker.state \in {"Closed", "Open", "HalfOpen"}
      /\ breaker.probes \in Nat /\ thread[t].now \in Time
  BY DEF BreakerInv, BreakerType, ThreadType
<1>1. CASE Check(t)
  <2>1. PICK step \in {"request", "opened", "probe"} : Branches(t, step)
    BY <1>0, <1>1 DEF Check
  <2> QED
    BY <2>1, BranchesOK DEF Steps, CheckSteps, Admitted
<1>2. CASE LoadOpened(t)
  <2> DEFINE self == [thread[t] EXCEPT !.seen = breaker.openedAt, !.pc = "elapsed"]
  <2>1. self \in ThreadType
    BY <1>0 DEF ThreadType, CheckSteps
  <2>2. Reads(t, self)
    BY <1>2 DEF LoadOpened
  <2> HIDE DEF self
  <2> QED
    BY <2>1, <2>2, ReadsOK
<1>3. CASE Elapsed(t)
  <2>1. PICK step \in {"cas", "idle"} : Branches(t, step)
    BY <1>3 DEF Elapsed
  <2> QED
    BY <2>1, BranchesOK DEF Steps, CheckSteps
<1>4. CASE CasHalfOpen(t)
  <2>1. [breaker EXCEPT !.state = "HalfOpen"] \in BreakerType
    BY <1>0 DEF BreakerType
  <2>2. \/ Writes(t, [breaker EXCEPT !.state = "HalfOpen"], "unfast")
        \/ Branches(t, "lost")
    BY <1>4 DEF CasHalfOpen
  <2> QED
    BY <2>1, <2>2, WritesOK, BranchesOK DEF Steps, CheckSteps
<1>5. CASE ClearFast(t)
  <2>1. [breaker EXCEPT !.fast = FALSE] \in BreakerType
    BY <1>0 DEF BreakerType
  <2> QED
    BY <1>5, <2>1, WritesOK DEF ClearFast, Steps, CheckSteps
<1>6. CASE LostRace(t)
  <2>1. PICK step \in {"request", "probe", "idle"} : Branches(t, step)
    BY <1>0, <1>6 DEF LostRace
  <2> QED
    BY <2>1, BranchesOK DEF Steps, CheckSteps, Admitted
<1>7. CASE ProbeClock(t)
  <2> DEFINE self == [thread[t] EXCEPT !.now = clock, !.pc = "claim"]
  <2>1. self \in ThreadType
    BY <1>0 DEF ThreadType, CheckSteps
  <2>2. Reads(t, self)
    BY <1>7 DEF ProbeClock
  <2> HIDE DEF self
  <2> QED
    BY <2>1, <2>2, ReadsOK
<1>8. ASSUME NEW n \in 0..(UsizeModulus - 1)
      PROVE  [breaker EXCEPT !.probes = n] \in BreakerType
  BY <1>0, <1>8 DEF BreakerType
<1>9. CASE Claim(t)
  <2> DEFINE n == (breaker.probes + 1) % UsizeModulus
  <2>1. n \in 0..(UsizeModulus - 1)
    BY <1>0, Wraps
  <2>2. PICK step \in {"stamp", "unclaim"} : Writes(t, [breaker EXCEPT !.probes = n], step)
    BY <1>9 DEF Claim
  <2> HIDE DEF n
  <2> QED
    BY <1>8, <2>1, <2>2, WritesOK DEF Steps, CheckSteps
<1>10. CASE Stamp(t)
  <2>1. [breaker EXCEPT !.claimedAt = thread[t].now] \in BreakerType
    BY <1>0 DEF BreakerType
  <2> QED
    BY <1>10, <2>1, WritesOK DEF Stamp, Steps, Admitted
<1>11. CASE Unclaim(t)
  <2> DEFINE n == (breaker.probes + UsizeModulus - 1) % UsizeModulus
  <2>1. breaker.probes + UsizeModulus - 1 \in Nat
    BY <1>0, BreakerAssumption
  <2>2. n \in 0..(UsizeModulus - 1)
    BY <2>1, Wraps
  <2>3. Writes(t, [breaker EXCEPT !.probes = n], "lease")
    BY <1>11 DEF Unclaim
  <2> HIDE DEF n
  <2> QED
    BY <1>8, <2>2, <2>3, WritesOK DEF Steps, CheckSteps
<1>12. CASE Lease(t)
  <2>1. PICK step \in {"takeover", "idle"} :
           Reads(t, [thread[t] EXCEPT !.seen = breaker.claimedAt, !.pc = step])
    BY <1>12 DEF Lease
  <2> DEFINE self == [thread[t] EXCEPT !.seen = breaker.claimedAt, !.pc = step]
  <2>2. self \in ThreadType
    BY <1>0 DEF ThreadType, CheckSteps
  <2>3. Reads(t, self)
    BY <2>1
  <2> HIDE DEF self
  <2> QED
    BY <2>2, <2>3, ReadsOK
<1>13. CASE TakeOver(t)
  <2>1. [breaker EXCEPT !.claimedAt = thread[t].now] \in BreakerType
    BY <1>0 DEF BreakerType
  <2>2. \/ Writes(t, [breaker EXCEPT !.claimedAt = thread[t].now], "probing")
        \/ Branches(t, "idle")
    BY <1>13 DEF TakeOver
  <2> QED
    BY <2>1, <2>2, WritesOK, BranchesOK DEF Steps, Admitted
<1> QED
  BY <1>1, <1>2, <1>3, <1>4, <1>5, <1>6, <1>7, <1>9, <1>10, <1>11, <1>12, <1>13 DEF CheckStep

LEMMA RecordInv ==
  ASSUME BreakerInv, NEW t \in Threads, Record(t) \/ Abandon(t) \/ RecordStep(t)
  PROVE  BreakerInv'
<1>0. /\ clock \in Time /\ breaker \in BreakerType /\ thread[t] \in ThreadType
      /\ breaker.state \in {"Closed", "Open", "HalfOpen"}
      /\ thread[t].now \in Time /\ thread[t].failed \in BOOLEAN
  BY DEF BreakerInv, BreakerType, ThreadType
<1>1. CASE Record(t)
  <2>1. PICK outcome \in BOOLEAN :
           Reads(t, [thread[t] EXCEPT !.failed = outcome, !.now = clock, !.pc = "observe"])
    BY <1>1 DEF Record
  <2> DEFINE self == [thread[t] EXCEPT !.failed = outcome, !.now = clock, !.pc = "observe"]
  <2>2. self \in ThreadType
    BY <1>0 DEF ThreadType, RecordSteps
  <2>3. Reads(t, self)
    BY <2>1
  <2> HIDE DEF self
  <2> QED
    BY <2>2, <2>3, ReadsOK
<1>2. CASE Abandon(t)
  BY <1>2, BranchesOK DEF Abandon, Steps
<1>3. CASE Observe(t)
  <2>1. PICK step \in {"sample", "sampleOpen", "trip", "close"} : Branches(t, step)
    BY <1>0, <1>3 DEF Observe
  <2> QED
    BY <2>1, BranchesOK DEF Steps, RecordSteps
<1>4. WindowOK(Sampled(t))
  <2>1. WindowOK(Push(window, thread[t].failed, thread[t].now))
    BY <1>0, PushOK DEF BreakerInv
  <2> QED
    BY <2>1, EvictOK DEF Sampled
<1>5. CASE Sample(t) \/ SampleOpen(t)
  <2>1. PICK step \in {"trip", "idle"} : Locks(t, Sampled(t), step)
    BY <1>5 DEF Sample, SampleOpen
  <2> QED
    BY <1>4, <2>1, LocksOK DEF Steps, RecordSteps
<1>6. CASE TripState(t)
  <2>1. [breaker EXCEPT !.state = "Open"] \in BreakerType
    BY <1>0 DEF BreakerType
  <2> QED
    BY <1>6, <2>1, WritesOK DEF TripState, Steps, RecordSteps
<1>7. CASE TripClock(t)
  <2> DEFINE self == [thread[t] EXCEPT !.now = clock, !.pc = "tripOpened"]
  <2>1. self \in ThreadType
    BY <1>0 DEF ThreadType, RecordSteps
  <2>2. Reads(t, self)
    BY <1>7 DEF TripClock
  <2> HIDE DEF self
  <2> QED
    BY <2>1, <2>2, ReadsOK
<1>8. CASE TripOpened(t)
  <2>1. [breaker EXCEPT !.openedAt = thread[t].now] \in BreakerType
    BY <1>0 DEF BreakerType
  <2> QED
    BY <1>8, <2>1, WritesOK DEF TripOpened, Steps, RecordSteps
<1>9. [breaker EXCEPT !.probes = 0] \in BreakerType
  <2>1. 0 \in 0..(UsizeModulus - 1)
    BY BreakerAssumption
  <2> QED
    BY <1>0, <2>1 DEF BreakerType
<1>10. CASE TripProbes(t) \/ CloseProbes(t)
  BY <1>9, <1>10, WritesOK DEF TripProbes, CloseProbes, Steps, RecordSteps
<1>11. CASE TripFast(t)
  <2>1. [breaker EXCEPT !.fast = TRUE] \in BreakerType
    BY <1>0 DEF BreakerType
  <2> QED
    BY <1>11, <2>1, WritesOK DEF TripFast, Steps
<1>12. CASE CloseState(t)
  <2>1. [breaker EXCEPT !.state = "Closed"] \in BreakerType
    BY <1>0 DEF BreakerType
  <2> QED
    BY <1>12, <2>1, WritesOK DEF CloseState, Steps, RecordSteps
<1>13. CASE CloseWindow(t)
  <2> DEFINE w == [entries |-> <<>>, failures |-> 0]
  <2>1. WindowOK(w) /\ Locks(t, w, "closeProbes")
    BY <1>13, EmptyWindow DEF CloseWindow
  <2> HIDE DEF w
  <2> QED
    BY <2>1, LocksOK DEF Steps, RecordSteps
<1>14. CASE CloseFast(t)
  <2>1. [breaker EXCEPT !.fast = FALSE] \in BreakerType
    BY <1>0 DEF BreakerType
  <2> QED
    BY <1>14, <2>1, WritesOK DEF CloseFast, Steps
<1> QED
  BY <1>1, <1>2, <1>3, <1>5, <1>6, <1>7, <1>8, <1>10, <1>11, <1>12, <1>13, <1>14 DEF RecordStep

LEMMA BreakerInit == Init => BreakerInv
<1> SUFFICES ASSUME Init PROVE BreakerInv
  OBVIOUS
<1>1. 0 \in Time /\ 0 \in 0..(UsizeModulus - 1)
  BY BreakerAssumption DEF Time
<1>2. breaker \in BreakerType
  BY <1>1 DEF Init, BreakerType
<1>3. Fresh \in ThreadType
  BY <1>1 DEF Fresh, ThreadType
<1>4. WindowOK(window)
  BY EmptyWindow DEF Init
<1> QED
  BY <1>1, <1>2, <1>3, <1>4 DEF Init, BreakerInv

LEMMA BreakerNext == BreakerInv /\ [Next]_vars => BreakerInv'
<1> SUFFICES ASSUME BreakerInv, [Next]_vars PROVE BreakerInv'
  OBVIOUS
<1>1. CASE Tick
  BY <1>1, BreakerAssumption DEF Tick, BreakerInv, Time, WindowOK
<1>2. CASE ErrorRate
  <2>1. PICK at \in 0..clock : window' = Evict(window, at)
    BY <1>2 DEF ErrorRate
  <2>2. WindowOK(window')
    BY <2>1, EvictOK DEF BreakerInv
  <2> QED
    BY <1>2, <2>2 DEF ErrorRate, BreakerInv, WindowOK
<1>3. CASE UNCHANGED vars
  BY <1>3 DEF vars, BreakerInv, WindowOK
<1> QED
  BY <1>1, <1>2, <1>3, CheckInv, RecordInv DEF Next

\* Whatever the threads interleave between two loads and stores, the atomics hold values
\* the code can name, the slot count stays a usize through wrapping decrements, and the
\* window never outgrows MAX_WINDOW_ENTRIES.
THEOREM BreakerTypeCorrect == Spec => []TypeOK
<1>1. BreakerInv => TypeOK
  <2> SUFFICES ASSUME BreakerInv PROVE TypeOK
    OBVIOUS
  <2>1. window.entries \in Seq(Sampling) /\ Len(window.entries) <= MaxEntries
    BY DEF BreakerInv, WindowOK
  <2>2. window.failures \in Nat
    BY <2>1, FailuresFinite DEF BreakerInv, WindowOK
  <2>3. \A i \in 1..Len(window.entries) :
           window.entries[i].at \in Time /\ window.entries[i].failure \in BOOLEAN
    <3>1. \A i \in 1..Len(window.entries) : window.entries[i] \in Sampling
      BY <2>1
    <3>2. \A x \in Sampling : x.at \in Time /\ x.failure \in BOOLEAN
      BY DEF Sampling
    <3> QED
      BY <3>1, <3>2
  <2> QED
    BY <2>1, <2>2, <2>3 DEF BreakerInv, TypeOK
<1> QED
  BY <1>1, BreakerInit, BreakerNext, PTL DEF Spec

\* The failure count that record() and error_rate() divide is the number of failures in
\* the window, for every interleaving of pushes at the cap, evictions by a stale clock
\* reading and clears; `failures -= 1` never underflows.
THEOREM WindowCorrect == Spec => []WindowExact
<1>1. BreakerInv => WindowExact
  BY DEF BreakerInv, WindowOK, WindowExact
<1> QED
  BY <1>1, BreakerInit, BreakerNext, PTL DEF Spec

=============================================================================
